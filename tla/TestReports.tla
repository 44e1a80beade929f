---------------------------- MODULE TestReports ----------------------------
(***************************************************************************)
(* The targets check-gcc-*, check-binutils-*, report-gcc-* and             *)
(* report-binutils-* of Makefile.in.  A check target runs the test suite   *)
(* in the build directory of the tool and is stamped; a report target is   *)
(* made anew each time, from the .sum files it finds in that directory,    *)
(* with scripts/testsuite-filter (module TestsuiteFilter).                 *)
(*                                                                         *)
(* Makes come with different settings of SIM and RUNTESTFLAGS, for one     *)
(* C library or for both (make -j), between changes of the sources, and    *)
(* newlib and newlib-nano share the build directory.  How the tools are    *)
(* built is module StampBuild's matter; a build is two steps here.         *)
(***************************************************************************)
EXTENDS TestsuiteFilter

CONSTANTS
    Libcs,       \* the C libraries whose checks share the build directory
    Boards,      \* NEWLIB_TARGET_BOARDS: the variations, arch and abi of each
    Results,     \* the unexpected results that tests may have
    Lists,       \* Lists[t]: the allowlists of tool t, by file name
    SimStamp,    \* SimStamp[s]: what checks depend on under setting s of SIM and
                 \* RUNTESTFLAGS, by SIM alone
    MaxFaults,   \* bound: builds and checks that fail, and interrupts
    None

Tools == {"gcc", "binutils"}
Settings == DOMAIN SimStamp
Units == Tools \cup UNION {SimStamp[s] : s \in Settings}    \* what is built and stamped

\* The .sum files of one run of the test suite.
Sum == [libc : Libcs, setting : Settings, ran : SUBSET Boards,
        lines : SUBSET (Boards \X Results), stale : SUBSET Units]

ASSUME ReportsAssumption ==
    /\ MaxFaults \in Nat
    /\ None \notin Units /\ NoSum \notin Sum
    /\ \A b \in Boards : b.arch.chars \in Seq(STRING)

VARIABLES
    tool,      \* the tool whose checks and reports these are
    dirty,     \* the units whose sources are newer than their stamps
    building,  \* the unit being built, or None
    sums,      \* the .sum files in the build directory of the tool
    stamped,   \* the libraries whose check stamp exists
    behind,    \* behind[l]: the units stamped after the check of l
    asked,     \* the setting of the present make
    pc,        \* pc[l]: where check and report of l are
    ran,       \* ran[l]: the boards the present check of l is through with
    broken,    \* the libraries whose stamp is of a check that had died
    up, faults

tests == <<sums, stamped, behind, ran, broken>>
vars  == <<tool, dirty, building, tests, asked, pc, up, faults>>

TypeOK ==
    /\ tool \in Tools
    /\ dirty \subseteq Units /\ building \in dirty \cup {None}
    /\ sums = NoSum \/ (sums \in Sum /\ \A r \in sums.lines : r[1] \in sums.ran)
    /\ stamped \subseteq Libcs /\ broken \subseteq stamped
    /\ behind \in [Libcs -> SUBSET Units]
    /\ asked \in Settings
    /\ pc \in [Libcs -> {"off", "todo", "running", "checked", "ok", "failed"}]
    /\ ran \in [Libcs -> SUBSET Boards]
    /\ up \in BOOLEAN /\ faults \in 0 .. MaxFaults

Init ==
    /\ tool \in Tools
    /\ dirty = Units /\ building = None
    /\ sums = NoSum /\ stamped = {} /\ broken = {}
    /\ behind = [l \in Libcs |-> {}]
    /\ asked \in Settings
    /\ pc = [l \in Libcs |-> "off"] /\ ran = [l \in Libcs |-> {}]
    /\ up = FALSE /\ faults = 0

\* The prerequisites of the check targets; dejagnu, which never changes, is left out.
Deps == {"gcc"} \cup SimStamp[asked]

\* stage2 of gcc is built with binutils.
Needed == Deps \cup {"binutils"}

Idle == building = None /\ \A l \in Libcs : pc[l] # "running"
NoneFailed == \A l \in Libcs : pc[l] # "failed"

-----------------------------------------------------------------------------
(* make, and the builds before the checks                                  *)

StartMake(goals, s) ==
    /\ ~up /\ up' = TRUE
    /\ asked' = s
    /\ pc' = [l \in Libcs |-> IF l \in goals THEN "todo" ELSE "off"]
    /\ UNCHANGED <<tool, dirty, building, tests, faults>>

\* Faulty variant: the build directory is used again.
BeginBuild_Again(u) ==
    /\ up /\ Idle /\ NoneFailed
    /\ u \in dirty \cap Needed /\ (u = "gcc" => "binutils" \notin dirty)
    /\ building' = u
    /\ UNCHANGED <<tool, dirty, tests, asked, pc, up, faults>>

\* rm -rf $@ $(notdir $@): the results of earlier checks go with the directory.
BeginBuild(u) ==
    /\ up /\ Idle /\ NoneFailed
    /\ u \in dirty \cap Needed /\ (u = "gcc" => "binutils" \notin dirty)
    /\ building' = u
    /\ sums' = IF u = tool THEN NoSum ELSE sums
    /\ UNCHANGED <<tool, dirty, stamped, behind, ran, broken, asked, pc, up, faults>>

\* The unit is installed and stamped; gcc has to be built after binutils.
EndBuild ==
    /\ building # None
    /\ building' = None
    /\ dirty' = (dirty \ {building}) \cup (IF building = "binutils" THEN {"gcc"} ELSE {})
    /\ behind' = [l \in Libcs |-> IF l \in stamped THEN behind[l] \cup {building} ELSE {}]
    /\ sums' = IF sums = NoSum THEN NoSum ELSE [sums EXCEPT !.stale = @ \cup {building}]
    /\ UNCHANGED <<tool, stamped, ran, broken, asked, pc, up, faults>>

Exit ==
    /\ up /\ Idle
    /\ NoneFailed => \A l \in Libcs : pc[l] \notin {"todo", "checked"}
    /\ up' = FALSE
    /\ pc' = [l \in Libcs |-> "off"]
    /\ UNCHANGED <<tool, dirty, building, tests, asked, faults>>

\* The user changes the sources of a unit.
Update(u) ==
    /\ ~up /\ u \notin dirty
    /\ dirty' = dirty \cup {u}
    /\ UNCHANGED <<tool, building, tests, asked, pc, up, faults>>

-----------------------------------------------------------------------------
(* The check targets                                                       *)

Ready(l) ==
    /\ up /\ pc[l] = "todo" /\ NoneFailed
    /\ building = None /\ dirty \cap Needed = {}

\* Faulty variant: order-only prerequisites.
UpToDate_Exists(l) == l \in stamped

UpToDate(l) == l \in stamped /\ behind[l] \cap Deps = {}

SkipCheck(l) ==
    /\ Ready(l) /\ UpToDate(l)
    /\ pc' = [pc EXCEPT ![l] = "checked"]
    /\ UNCHANGED <<tool, dirty, building, tests, asked, up, faults>>

\* runtest opens the .sum file anew; one that still writes the old file does
\* so without a name.
BeginCheck(l) ==
    /\ Ready(l) /\ ~UpToDate(l)
    /\ pc' = [pc EXCEPT ![l] = "running"]
    /\ sums' = [libc |-> l, setting |-> asked, ran |-> {}, lines |-> {},
                stale |-> {}]
    /\ UNCHANGED <<tool, dirty, building, stamped, behind, ran, broken, asked, up, faults>>

\* The tests of one board.
RunBoard(l, b, fails) ==
    /\ pc[l] = "running" /\ b \notin ran[l]
    /\ ran' = [ran EXCEPT ![l] = @ \cup {b}]
    /\ sums' = IF sums.libc = l
               THEN [sums EXCEPT !.ran = @ \cup {b}, !.lines = @ \cup ({b} \X fails)]
               ELSE sums
    /\ UNCHANGED <<tool, dirty, building, stamped, behind, broken, asked, pc, up, faults>>

\* Faulty variant: nothing is written.
Stamp_Not(l) == UNCHANGED stamped /\ behind' = [behind EXCEPT ![l] = {}]

\* date > $@
Stamp(l) == stamped' = stamped \cup {l} /\ behind' = [behind EXCEPT ![l] = {}]

\* runtest has ended.
Ended(l) == ran' = [ran EXCEPT ![l] = {}]

EndCheck(l) ==
    /\ pc[l] = "running" /\ ran[l] = Boards
    /\ Stamp(l) /\ Ended(l)
    /\ broken' = broken \ {l}
    /\ pc' = [pc EXCEPT ![l] = "checked"]
    /\ UNCHANGED <<tool, dirty, building, sums, asked, up, faults>>

Fault == faults < MaxFaults /\ faults' = faults + 1

\* make check fails, before runtest or in the midst of it.  The recipes of
\* check-binutils-* end in `|| true' and go on to the stamp.
CheckDies(l) ==
    /\ pc[l] \in {"todo", "running"} /\ (pc[l] = "todo" => Ready(l) /\ ~UpToDate(l)) /\ Fault
    /\ \/ /\ tool = "gcc"
          /\ pc' = [pc EXCEPT ![l] = "failed"]
          /\ UNCHANGED <<stamped, behind, broken>>
       \/ /\ tool = "binutils"
          /\ Stamp(l) /\ broken' = broken \cup {l} /\ pc' = [pc EXCEPT ![l] = "checked"]
    /\ Ended(l)
    /\ UNCHANGED <<tool, dirty, building, sums, asked, up>>

\* A build fails, or everything is killed.
Stop ==
    /\ up /\ Fault
    /\ up' = FALSE /\ building' = None
    /\ pc' = [l \in Libcs |-> "off"] /\ ran' = [l \in Libcs |-> {}]
    /\ UNCHANGED <<tool, dirty, sums, stamped, behind, broken, asked>>

-----------------------------------------------------------------------------
(* The report targets                                                      *)

Report(l) ==
    /\ up /\ pc[l] = "checked" /\ NoneFailed
    /\ pc' = [pc EXCEPT ![l] =
                 IF FilterStatus(tool, l, Lists[tool], sums) = 0 THEN "ok" ELSE "failed"]
    /\ UNCHANGED <<tool, dirty, building, tests, asked, up, faults>>

Next ==
    \/ \E goals \in SUBSET Libcs \ {{}}, s \in Settings : StartMake(goals, s)
    \/ \E u \in Units : BeginBuild(u) \/ Update(u)
    \/ EndBuild \/ Exit \/ Stop
    \/ \E l \in Libcs : \/ SkipCheck(l) \/ BeginCheck(l) \/ EndCheck(l) \/ CheckDies(l)
                        \/ Report(l)
                        \/ \E b \in Boards, fails \in SUBSET Results : RunBoard(l, b, fails)

Spec == Init /\ [][Next]_vars

-----------------------------------------------------------------------------
(* Properties                                                              *)

Succeeds(l) == pc[l] = "checked" /\ pc'[l] = "ok"

\* What the .sum files hold is of this library, with the settings asked for.
Own(l) == sums.libc = l /\ sums.setting = asked

\* The results in a build directory are never those of an earlier build of the
\* tool, whatever failed or was killed since: the directory goes when the build
\* begins.
ResultsOfInstalled == sums # NoSum => tool \notin sums.stale

\* When a report succeeds, and no `|| true' had swallowed the failure of its
\* check, there are results; if they are the library's own, with the settings
\* asked for, they are complete, of the units now installed, and each unexpected
\* one is excused by an allowlist of the rule in test/allowlist/README.md.
OkIsEarned ==
    [][\A l \in Libcs : (Succeeds(l) /\ l \notin broken) =>
          /\ sums # NoSum
          /\ Own(l) =>
                /\ sums.ran = Boards
                /\ sums.stale \cap Deps = {}
                /\ \A r \in sums.lines :
                      \E f \in DOMAIN Lists[tool] \cap ReferenceFiles(l, r[1].arch, r[1].abi) :
                          \E line \in Lists[tool][f] : Excuses(tool, line, r[2])]_vars

\* `make report-newlib SIM=gdb # Run with gdb simulator' (README.md): a report
\* of a library's results is of a run with the settings in the command.
ReportsAsAsked ==
    [][\A l \in Libcs : (Succeeds(l) /\ sums # NoSum /\ sums.libc = l) =>
                            sums.setting = asked]_vars
=============================================================================
