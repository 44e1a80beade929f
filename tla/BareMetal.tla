------------------------------ MODULE BareMetal ------------------------------
(***************************************************************************)
(* build/build-baremetal.sh and build/apply-llvm-patches.sh: GCC, then     *)
(* Clang, are built and installed into one prefix, which is then packed    *)
(* into two archives.  For a Windows host (WITH_HOST) a native compiler    *)
(* and native table generators are built first and found again by later    *)
(* runs.                                                                   *)
(*                                                                         *)
(* In CI every job starts on an empty disk and runs the stages gcc, clang, *)
(* package, each only after the one before it succeeded.  A developer      *)
(* keeps $WORK, $PREFIX and $OUT (the volumes of BUILD-NOTES.md), calls    *)
(* `all' or any single stage, and calls again when one failed or was       *)
(* killed.                                                                 *)
(*                                                                         *)
(* gcc_build_into removes its build directory, stamps included, before it  *)
(* calls `make newlib': module StampBuild shows that a make that starts    *)
(* without stamps and succeeds has installed everything.                   *)
(***************************************************************************)
EXTENDS Naturals, FiniteSets

CONSTANTS
    Builds,      \* names for invocations of the script
    MaxFaults,   \* bound: failed commands and kills
    None, Torn   \* not there; half written

ASSUME BuildsAssumption ==
    /\ Builds \subseteq Nat /\ IsFiniteSet(Builds) /\ Cardinality(Builds) > 6
    /\ None \notin Builds /\ Torn \notin Builds /\ None # Torn
    /\ MaxFaults \in Nat

VARIABLES
    ci,       \* TRUE: CI jobs; FALSE: a developer
    host,     \* WITH_HOST is set: a Windows host, built by a Canadian cross
    native,   \* $WORK/native-toolchain: nothing, a gcc and not all of it, or all of it
    tblgen,   \* the tools in $WORK/llvm-native-tblgen/bin
    llvm,     \* the source file that apply-llvm-patches.sh patches
    gcc, clang,   \* what $PREFIX holds of each: the build that installed it
    tar, zip,     \* the archives in $OUT: what was packed into them
    stage, build, \* the argument and the name of the present or last invocation
    pc,       \* the next statement; "off" between invocations
    status,   \* how the last invocation ended
    faults

disk == <<native, tblgen, llvm, gcc, clang, tar, zip>>
vars == <<ci, host, disk, stage, build, pc, status, faults>>

Stages == {"gcc", "clang", "package", "all"}
Tools  == {"llvm-tblgen", "clang-tblgen"}   \* llvm-tblgen needs llvm-min-tblgen to be built
Prefix == [gcc : Builds \cup {None, Torn}, clang : Builds \cup {None, Torn}]

(* Gnu.cpp as it is upstream, with both of the names the script greps for, *)
(* or cut short by an interrupted `git apply': before the first name (or   *)
(* not there at all), between them, or behind them.                        *)
Sources == {"pristine", "patched", "lost", "partial", "cut"}

TypeOK ==
    /\ ci \in BOOLEAN /\ host \in BOOLEAN
    /\ native \in {"none", "gcc", "complete"}
    /\ tblgen \subseteq Tools
    /\ llvm \in Sources
    /\ [gcc |-> gcc, clang |-> clang] \in Prefix
    /\ tar \in Prefix \cup {None, Torn} /\ zip \in Prefix \cup {None, Torn}
    /\ stage \in Stages /\ build \in Builds
    /\ pc \in {"off", "gcc", "prepass", "deps", "make", "patch", "tools", "tblgen", "llvm",
               "install", "package", "tar", "cd", "zip"}
    /\ status \in {"new", "complete", "error", "running"}
    /\ faults \in 0 .. MaxFaults

Init ==
    /\ ci \in BOOLEAN /\ host \in BOOLEAN
    /\ native = "none" /\ tblgen = {} /\ llvm = "pristine"
    /\ gcc = None /\ clang = None /\ tar = None /\ zip = None
    /\ stage = "package" /\ build = CHOOSE b \in Builds : TRUE
    /\ pc = "off" /\ status = "new" /\ faults = 0

-----------------------------------------------------------------------------
(* Invocations                                                             *)

\* The names that something in the prefix or in an archive carries.
InUse ==
    {gcc, clang} \cup UNION {{a.gcc, a.clang} : a \in {tar, zip} \ {None, Torn}}

NewName == CHOOSE b \in Builds \ InUse : \A c \in Builds \ InUse : b <= c

\* The steps of a CI job, in their order.
NextStep(s) ==
    \/ s = "gcc" /\ status = "new"
    \/ s = "clang" /\ status = "complete" /\ stage = "gcc"
    \/ s = "package" /\ status = "complete" /\ stage = "clang"

Run(s) ==
    /\ pc = "off"
    /\ ci => NextStep(s)
    /\ stage' = s /\ build' = NewName
    /\ status' = "running"
    /\ pc' = CASE s \in {"gcc", "all"} -> "gcc" [] s = "clang" -> "patch" [] OTHER -> "package"
    /\ UNCHANGED <<ci, host, disk, faults>>

\* Another job, on another runner.
NewJob ==
    /\ ci /\ pc = "off" /\ status # "new"
    /\ native' = "none" /\ tblgen' = {} /\ llvm' = "pristine"
    /\ gcc' = None /\ clang' = None /\ tar' = None /\ zip' = None
    /\ status' = "new"
    /\ UNCHANGED <<ci, host, stage, build, pc, faults>>

\* A stage is over: the next one of `all', or the end.
Return(next) ==
    IF stage = "all" /\ next # "off"
    THEN pc' = next /\ UNCHANGED status
    ELSE pc' = "off" /\ status' = "complete"

-----------------------------------------------------------------------------
(* stage_gcc                                                               *)

\* [ ! -x "$NATIVE/bin/${TUPLE}-gcc" ]
StageGcc ==
    /\ pc = "gcc"
    /\ pc' = IF host /\ native = "none" THEN "prepass" ELSE "deps"
    /\ UNCHANGED <<ci, host, disk, stage, build, status, faults>>

\* gcc stage 1 installs the gcc that the test looks for ...
PrePassInstallsGcc ==
    /\ pc = "prepass" /\ native = "none"
    /\ native' = "gcc"
    /\ UNCHANGED <<ci, host, tblgen, llvm, gcc, clang, tar, zip, stage, build, pc, status, faults>>

\* ... and everything else follows.
PrePassEnds ==
    /\ pc = "prepass" /\ native = "gcc"
    /\ native' = "complete"
    /\ pc' = "deps"
    /\ UNCHANGED <<ci, host, tblgen, llvm, gcc, clang, tar, zip, stage, build, status, faults>>

\* prepare-mingw-deps.sh or prepare-host-deps.sh, the check of curses, and
\* the begin of gcc_build_into: nothing of an earlier install is removed.
PrepareDeps ==
    /\ pc = "deps"
    /\ gcc' = Torn
    /\ pc' = "make"
    /\ UNCHANGED <<ci, host, native, tblgen, llvm, clang, tar, zip, stage, build, status, faults>>

\* Faulty variant: `all' goes on with the stage's name.
MakeNewlib_NextStage ==
    /\ pc = "make"
    /\ gcc' = build
    /\ Return("clang")
    /\ UNCHANGED <<ci, host, native, tblgen, llvm, clang, tar, zip, stage, build, faults>>

MakeNewlib ==
    /\ pc = "make"
    /\ gcc' = build
    /\ Return("patch")
    /\ UNCHANGED <<ci, host, native, tblgen, llvm, clang, tar, zip, stage, build, faults>>

\* The target libraries of the cross are compiled by the native toolchain: one
\* without its cc1, or without libgcc, may not do.
CrossFails ==
    /\ pc = "make" /\ host /\ native = "gcc"
    /\ pc' = "off" /\ status' = "error"
    /\ UNCHANGED <<ci, host, disk, stage, build, faults>>

-----------------------------------------------------------------------------
(* stage_clang                                                             *)

\* What the two greps of apply-llvm-patches.sh find.
AlreadyApplied == llvm \in {"patched", "cut"}

\* The script refuses a file with one of the names, and one it cannot patch.
Unpatchable == llvm \in {"lost", "partial"}

\* Faulty variant: the patch is applied only where it was applied before.
ApplyPatches_Inverted ==
    /\ pc = "patch" /\ ~Unpatchable
    /\ llvm' = IF AlreadyApplied THEN "patched" ELSE llvm
    /\ pc' = IF host THEN "tools" ELSE "llvm"
    /\ UNCHANGED <<ci, host, native, tblgen, gcc, clang, tar, zip, stage, build, status, faults>>

ApplyPatches ==
    /\ pc = "patch" /\ ~Unpatchable
    /\ llvm' = IF AlreadyApplied THEN llvm ELSE "patched"
    /\ pc' = IF host THEN "tools" ELSE "llvm"
    /\ UNCHANGED <<ci, host, native, tblgen, gcc, clang, tar, zip, stage, build, status, faults>>

ApplyPatchesRefuses ==
    /\ pc = "patch" /\ Unpatchable
    /\ pc' = "off" /\ status' = "error"
    /\ UNCHANGED <<ci, host, disk, stage, build, faults>>

\* Faulty variant: one of the tools is enough.
FindTools_Any ==
    /\ pc = "tools"
    /\ IF tblgen # {}
       THEN pc' = "llvm" /\ UNCHANGED tblgen
       ELSE pc' = "tblgen" /\ tblgen' = {}
    /\ UNCHANGED <<ci, host, native, llvm, gcc, clang, tar, zip, stage, build, status, faults>>

\* stage_clang_cross: the tools are there, or rm -rf "$NAT" and build them.
\* (The checks of $LLVM_MINGW_ROOT before that are commands that may fail: Stop.)
FindTools ==
    /\ pc = "tools"
    /\ IF tblgen = Tools
       THEN pc' = "llvm" /\ UNCHANGED tblgen
       ELSE pc' = "tblgen" /\ tblgen' = {}
    /\ UNCHANGED <<ci, host, native, llvm, gcc, clang, tar, zip, stage, build, status, faults>>

\* ninja links the tools in an order of its own.
BuildTool(t) ==
    /\ pc = "tblgen" /\ t \notin tblgen
    /\ tblgen' = tblgen \cup {t}
    /\ pc' = IF tblgen' = Tools THEN "llvm" ELSE "tblgen"
    /\ UNCHANGED <<ci, host, native, llvm, gcc, clang, tar, zip, stage, build, status, faults>>

Compiles == llvm \in {"pristine", "patched"} /\ (host => tblgen = Tools)

\* rm -rf "$LB"; cmake; ninja distribution; the install begins.
BuildLlvm ==
    /\ pc = "llvm" /\ Compiles
    /\ clang' = Torn
    /\ pc' = "install"
    /\ UNCHANGED <<ci, host, native, tblgen, llvm, gcc, tar, zip, stage, build, status, faults>>

BuildLlvmFails ==
    /\ pc = "llvm" /\ ~Compiles
    /\ pc' = "off" /\ status' = "error"
    /\ UNCHANGED <<ci, host, disk, stage, build, faults>>

\* ninja install-distribution-stripped, and the runs of what it installed
InstallClang ==
    /\ pc = "install"
    /\ clang' = build
    /\ Return("package")
    /\ UNCHANGED <<ci, host, native, tblgen, llvm, gcc, tar, zip, stage, build, faults>>

-----------------------------------------------------------------------------
(* stage_package                                                           *)

\* Faulty variant: tar and zip overwrite their own archive.
RemoveArchives_TarOnly ==
    /\ pc = "package"
    /\ tar' = Torn
    /\ pc' = "tar"
    /\ UNCHANGED <<ci, host, native, tblgen, llvm, gcc, clang, zip, stage, build, status, faults>>

\* strip and dedup, whose failures are ignored and change no file; rm -f both
\* archives; tar begins.
RemoveArchives ==
    /\ pc = "package"
    /\ tar' = Torn /\ zip' = None
    /\ pc' = "tar"
    /\ UNCHANGED <<ci, host, native, tblgen, llvm, gcc, clang, stage, build, status, faults>>

Tar ==
    /\ pc = "tar"
    /\ tar' = [gcc |-> gcc, clang |-> clang]
    /\ pc' = "cd"
    /\ UNCHANGED <<ci, host, native, tblgen, llvm, gcc, clang, zip, stage, build, status, faults>>

ZipBegins ==
    /\ pc = "cd"
    /\ zip' = Torn
    /\ pc' = "zip"
    /\ UNCHANGED <<ci, host, native, tblgen, llvm, gcc, clang, tar, stage, build, status, faults>>

Zip ==
    /\ pc = "zip"
    /\ zip' = [gcc |-> gcc, clang |-> clang]
    /\ Return("off")
    /\ UNCHANGED <<ci, host, native, tblgen, llvm, gcc, clang, tar, stage, build, faults>>

-----------------------------------------------------------------------------

\* Faulty variant: the stages of `all' go on after a failure.
Stop_Ignored ==
    /\ pc # "off"
    /\ faults < MaxFaults /\ faults' = faults + 1
    /\ pc' = "package" /\ UNCHANGED status
    /\ UNCHANGED <<ci, host, disk, stage, build>>

\* What a kill may leave of a part of the prefix: strip writes in place.
Stripped(part) == IF pc = "package" /\ part \in Builds THEN {part, Torn} ELSE {part}

\* A command fails (set -e) or the script is killed.  `git apply' unlinks the
\* file and writes it again.
Stop ==
    /\ pc # "off"
    /\ faults < MaxFaults /\ faults' = faults + 1
    /\ llvm' \in IF pc = "patch" /\ llvm = "pristine" THEN Sources ELSE {llvm}
    /\ gcc' \in Stripped(gcc) /\ clang' \in Stripped(clang)
    /\ pc' = "off" /\ status' = "error"
    /\ UNCHANGED <<ci, host, native, tblgen, tar, zip, stage, build>>

Step ==
    \/ StageGcc \/ PrePassInstallsGcc \/ PrePassEnds \/ PrepareDeps \/ MakeNewlib \/ CrossFails
    \/ ApplyPatches \/ ApplyPatchesRefuses \/ FindTools
    \/ \E t \in Tools : BuildTool(t)
    \/ BuildLlvm \/ BuildLlvmFails \/ InstallClang
    \/ RemoveArchives \/ Tar \/ ZipBegins \/ Zip

Next ==
    \/ \E s \in Stages : Run(s)
    \/ NewJob \/ Step \/ Stop

Spec == Init /\ [][Next]_vars

\* Commands come to an end, and a developer calls `all' again and again,
\* whatever else he calls in between.
FairSpec == Spec /\ WF_vars(Step) /\ SF_vars(Run("all"))

-----------------------------------------------------------------------------
(* Properties                                                              *)

\* The two archives in $OUT never differ: packaging that was cut short after
\* tar does not leave the zip of an earlier build beside the new tar.gz.
ArchivesAgree ==
    (tar \notin {None, Torn} /\ zip \notin {None, Torn}) => tar = zip

\* When `all', or the package step of a CI job, reports that it is complete,
\* both archives hold a whole GCC and a whole Clang, those of this invocation
\* for `all', whatever earlier invocations left in the prefix.  (A developer
\* who calls `package' alone gets whatever is there.)
ReportedIsWhole ==
    (status = "complete" /\ (stage = "all" \/ (ci /\ stage = "package"))) =>
        /\ zip = [gcc |-> gcc, clang |-> clang] /\ tar = zip
        /\ {gcc, clang} \subseteq IF stage = "all" THEN {build} ELSE Builds

\* Clang in the prefix was built from an LLVM tree with the whole of the
\* multilib patch, although apply-llvm-patches.sh may have been cut short and
\* is called again on its own result.
ClangIsPatched == clang \in Builds => llvm = "patched"

\* Calling `all' again and again ends in success.  Two things can prevent it
\* for good: an interrupted git apply has left a file that the script refuses
\* or that does not compile, or an interrupted pre-pass a native toolchain
\* that is not complete.
Rebuilds ==
    ~ci => \/ []<>(status = "complete" /\ stage = "all")
           \/ <>[](llvm \in {"lost", "partial", "cut"})
           \/ <>[](native = "gcc")
=============================================================================
