-------------------------- MODULE TestsuiteFilter --------------------------
(***************************************************************************)
(* scripts/testsuite-filter: compares the unexpected results of a test run *)
(* with the allowlists of test/allowlist and decides the exit status of    *)
(* report-gcc-* and report-binutils-*.                                     *)
(*                                                                         *)
(* An architecture is its base and the characters behind it; a file name   *)
(* is the sequence of the parts that its dots separate, a part a sequence  *)
(* too; a line of an allowlist or a result of a .sum file is a status, the *)
(* name of the test (the second word) and the characters behind it, which  *)
(* startswith compares one by one.                                         *)
(***************************************************************************)
EXTENDS Naturals, Sequences, SequencesExt

CONSTANT NoSum    \* find has found no .sum file

Long == {"x", "s", "z"}    \* an extension of more than one letter begins so

\* re.sub("^rv(32|64|128)g", "rv\1imafd", arch)
Expanded(arch) ==
    IF arch.chars # << >> /\ arch.chars[1] = "g"
    THEN <<"i", "m", "a", "f", "d">> \o Tail(arch.chars)
    ELSE arch.chars

\* The end of the long extension that begins at i: the loop over extlen.
EndOfLong(cs, i) ==
    CHOOSE j \in i .. Len(cs) :
        /\ \A n \in i + 1 .. j : cs[n] # "_"
        /\ j = Len(cs) \/ cs[j + 1] = "_"

\* The loop of Arch.__init__: the extensions it adds from each position on, an
\* extension the sequence of its characters.
ExtsFrom(cs) ==
    LET From[i \in 1 .. Len(cs) + 1] ==
            IF i > Len(cs) THEN {}
            ELSE IF cs[i] = "_" THEN From[i + 1]
            ELSE IF cs[i] \in Long
                 THEN {SubSeq(cs, i, EndOfLong(cs, i))} \cup From[EndOfLong(cs, i) + 1]
            ELSE {<<cs[i]>>} \cup From[i + 1]
    IN  From

Exts(arch) == ExtsFrom(Expanded(arch))[1]

\* get_white_list_files, before the files that do not exist are left out.
WhiteListFiles(libc, arch, abi) ==
    LET l == <<libc>>
        b == <<arch.base>>
        a == <<abi>>
    IN  {<< <<"common">> >>, <<l>>, <<b>>, <<a>>, <<b, a>>, <<l, b>>, <<l, a>>, <<l, b, a>>}
        \cup UNION {{<<e>>, <<b, e>>, <<e, a>>, <<b, e, a>>,
                     <<l, e>>, <<l, b, e>>, <<l, e, a>>, <<l, b, e, a>>} : e \in Exts(arch)}

\* read_white_lists; `lists' has the lines of the files that exist.
WhiteList(lists, libc, v) ==
    UNION {lists[f] : f \in DOMAIN lists \cap WhiteListFiles(libc, v.arch, v.abi)}

\* A line excuses the gcc results of the same test that begin with it, be it
\* in the middle of a word, and of binutils only the result that equals it.
Excuses(tool, line, ur) ==
    IF tool = "gcc"
    THEN line.status = ur.status /\ line.test = ur.test /\ IsPrefix(line.more, ur.more)
    ELSE line = ur

\* filter_result: sum.ran are the variations that have a `Running target' line,
\* sum.lines the pairs of a variation and an unexpected result below it.
Unexplained(tool, libc, lists, sum) ==
    {r \in sum.lines : ~\E line \in WhiteList(lists, libc, r[1]) : Excuses(tool, line, r[2])}

\* main: without a .sum file an argument is missing, which ends with status 0.
FilterStatus(tool, libc, lists, sum) ==
    IF sum # NoSum /\ (Unexplained(tool, libc, lists, sum) # {} \/ sum.ran = {})
    THEN 1 ELSE 0

-----------------------------------------------------------------------------
(* The rule of test/allowlist/README.md, to compare with                   *)

\* Position i belongs to a long extension: it is preceded, in the word between
\* underscores that it is in, by the beginning of one.
InLong(cs, i) == \E j \in 1 .. i : cs[j] \in Long /\ \A n \in j .. i : cs[n] # "_"

\* The first and the last position of each long extension.
Longs(cs) ==
    {p \in (1 .. Len(cs)) \X (1 .. Len(cs)) :
        /\ p[1] <= p[2] /\ \A n \in p[1] .. p[2] : InLong(cs, n)
        /\ p[1] = 1 \/ ~InLong(cs, p[1] - 1)
        /\ p[2] = Len(cs) \/ ~InLong(cs, p[2] + 1)}

ReferenceExts(arch) ==
    LET cs == Expanded(arch)
    IN  {<<cs[i]>> : i \in {n \in 1 .. Len(cs) : cs[n] # "_" /\ ~InLong(cs, n)}}
        \cup {SubSeq(cs, p[1], p[2]) : p \in Longs(cs)}

\* common.log, and [<lib>.][rv(32|64|128).][<ext>.][<abi>.]log
ReferenceFiles(libc, arch, abi) ==
    LET Optional(parts) == {<< >>} \cup {<<part>> : part \in parts}
    IN  {<< <<"common">> >>} \cup
        ({l \o b \o e \o a : l \in Optional({<<libc>>}), b \in Optional({<<arch.base>>}),
                             e \in Optional(ReferenceExts(arch)), a \in Optional({<<abi>>})}
         \ {<< >>})
=============================================================================
