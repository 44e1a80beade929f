-------------------------- MODULE BareMetalProofs --------------------------
(***************************************************************************)
(* For any sequence of invocations, failed or killed at any point: the two *)
(* archives agree, what is reported complete is whole and of one           *)
(* invocation, and Clang is built from a tree with the whole patch.        *)
(***************************************************************************)
EXTENDS BareMetal, FiniteSetTheorems, WellFoundedInduction, TLAPS

GccStage     == {"gcc", "prepass", "deps", "make"}
ClangStage   == {"patch", "tools", "tblgen", "llvm", "install"}
PackageStage == {"package", "tar", "cd", "zip"}

\* Where an invocation can be.
StageInv ==
    /\ status = "running" <=> pc # "off"
    /\ pc \in GccStage => stage \in {"gcc", "all"}
    /\ pc \in ClangStage => stage \in {"clang", "all"}
    /\ pc \in PackageStage => stage \in {"package", "all"}
    /\ ci => stage # "all"

\* What the stages of `all', and the steps of a CI job, find in the prefix.
PrefixInv ==
    /\ stage = "all" =>
          /\ pc \in ClangStage \cup PackageStage => gcc = build
          /\ pc \in PackageStage => clang = build
    /\ ci =>
          /\ (stage = "gcc" /\ status = "complete") => gcc \in Builds
          /\ (stage \in {"clang", "package"} /\ status \in {"running", "complete"}) => gcc \in Builds
          /\ (stage = "clang" /\ status = "complete") => clang \in Builds
          /\ (stage = "package" /\ status \in {"running", "complete"}) => clang \in Builds

\* No zip stands beside a tar.gz that is being made.
ArchiveInv ==
    /\ pc \in {"tar", "cd", "zip"} => zip \in {None, Torn}
    /\ pc \in {"cd", "zip"} => tar = [gcc |-> gcc, clang |-> clang]
    /\ ArchivesAgree

\* The patch comes before the compiler, or the compiler does not come.
PatchInv ==
    /\ pc \in {"tools", "tblgen", "llvm"} => llvm \in {"patched", "cut"}
    /\ pc = "install" => llvm = "patched"
    /\ ClangIsPatched

\* The inductive invariant.
MetalInv == TypeOK /\ StageInv /\ PrefixInv /\ ArchiveInv /\ PatchInv /\ ReportedIsWhole

-----------------------------------------------------------------------------

\* There is a name that nothing carries: the prefix and two archives carry at
\* most six.
LEMMA NewNameExists == NewName \in Builds
<1> DEFINE Six == {gcc} \cup {clang} \cup {tar.gcc} \cup {tar.clang} \cup {zip.gcc} \cup {zip.clang}
<1>1. InUse \subseteq Six
  BY DEF InUse
<1>2. IsFiniteSet(Six) /\ Cardinality(Six) <= 6
  <2> DEFINE S1 == {gcc}
             S2 == S1 \cup {clang}
             S3 == S2 \cup {tar.gcc}
             S4 == S3 \cup {tar.clang}
             S5 == S4 \cup {zip.gcc}
             S6 == S5 \cup {zip.clang}
  <2>1. IsFiniteSet(S1) /\ Cardinality(S1) = 1
    BY FS_Singleton
  <2> HIDE DEF S1
  <2>2. IsFiniteSet(S2) /\ Cardinality(S2) \in {1, 2}
    BY <2>1, FS_AddElement
  <2> HIDE DEF S2
  <2>3. IsFiniteSet(S3) /\ Cardinality(S3) \in {1, 2, 3}
    BY <2>2, FS_AddElement
  <2> HIDE DEF S3
  <2>4. IsFiniteSet(S4) /\ Cardinality(S4) \in {1, 2, 3, 4}
    BY <2>3, FS_AddElement
  <2> HIDE DEF S4
  <2>5. IsFiniteSet(S5) /\ Cardinality(S5) \in {1, 2, 3, 4, 5}
    BY <2>4, FS_AddElement
  <2> HIDE DEF S5
  <2>6. IsFiniteSet(S6) /\ Cardinality(S6) \in {1, 2, 3, 4, 5, 6}
    BY <2>5, FS_AddElement
  <2>7. Six = S6
    BY DEF S1, S2, S3, S4, S5
  <2>8. QED BY <2>6, <2>7
<1>3. Builds \ InUse # {}
  <2> SUFFICES ASSUME Builds \ InUse = {} PROVE FALSE
    OBVIOUS
  <2> HIDE DEF Six
  <2>1. Builds \in SUBSET Six
    BY <1>1
  <2>2. Cardinality(Builds) <= Cardinality(Six)
    BY <1>2, <2>1, FS_Subset
  <2>3. Cardinality(Builds) \in Nat /\ Cardinality(Six) \in Nat
    BY <1>2, FS_CardinalityType, BuildsAssumption
  <2>4. QED BY <1>2, <2>2, <2>3, BuildsAssumption
<1>4. PICK b \in Builds \ InUse : \A c \in Builds \ InUse : ~(<<c, b>> \in OpToRel(<, Nat))
  BY <1>3, NatLessThanWellFounded, WFMin, BuildsAssumption
<1>5. \A c \in Builds \ InUse : c \in Nat /\ b \in Nat => ~(c < b)
  BY <1>4, Zenon DEF OpToRel
<1>6. \A c \in Builds \ InUse : b <= c
  BY <1>5, BuildsAssumption
<1>7. QED BY <1>6 DEF NewName

\* Nothing is built in the first state.
LEMMA InitMetal == Init => MetalInv
<1> SUFFICES ASSUME Init PROVE MetalInv
  OBVIOUS
<1>1. build \in Builds
  <2>1. Builds # {}
    BY NewNameExists
  <2>2. QED BY <2>1 DEF Init
<1>2. TypeOK
  BY <1>1, BuildsAssumption DEF Init, TypeOK, Tools, Sources, Prefix, Stages
<1>3. QED BY <1>2, BuildsAssumption DEF Init, MetalInv, StageInv, PrefixInv, ArchiveInv, PatchInv,
             GccStage, ClangStage, PackageStage, ArchivesAgree, ClangIsPatched, ReportedIsWhole

\* Every step keeps the types.
LEMMA TypeStep == TypeOK /\ [Next]_vars => TypeOK'
<1> SUFFICES ASSUME TypeOK, [Next]_vars PROVE TypeOK'
  OBVIOUS
<1> USE DEF TypeOK, disk, Prefix
<1>1. ASSUME NEW s \in Stages, Run(s) PROVE TypeOK'
  BY <1>1, NewNameExists DEF Run
<1>2. CASE NewJob
  BY <1>2 DEF NewJob, Sources
<1>3. CASE StageGcc \/ PrePassInstallsGcc \/ PrePassEnds \/ PrepareDeps
  BY <1>3 DEF StageGcc, PrePassInstallsGcc, PrePassEnds, PrepareDeps
<1>4. CASE MakeNewlib \/ CrossFails
  BY <1>4 DEF MakeNewlib, CrossFails, Return
<1>5. CASE ApplyPatches \/ ApplyPatchesRefuses \/ FindTools
  BY <1>5 DEF ApplyPatches, ApplyPatchesRefuses, FindTools, Sources
<1>6. CASE \E t \in Tools : BuildTool(t)
  BY <1>6 DEF BuildTool
<1>7. CASE BuildLlvm \/ BuildLlvmFails \/ InstallClang
  BY <1>7 DEF BuildLlvm, BuildLlvmFails, InstallClang, Return
<1>8. CASE RemoveArchives \/ Tar \/ ZipBegins \/ Zip
  BY <1>8 DEF RemoveArchives, Tar, ZipBegins, Zip, Return
<1>9. CASE Stop
  <2>1. faults' \in 0 .. MaxFaults
    BY <1>9, BuildsAssumption DEF Stop
  <2>2. llvm' \in Sources
    BY <1>9 DEF Stop
  <2>3. [gcc |-> gcc', clang |-> clang'] \in Prefix
    BY <1>9 DEF Stop, Stripped
  <2>4. QED BY <1>9, <2>1, <2>2, <2>3 DEF Stop
<1>10. CASE UNCHANGED vars
  BY <1>10 DEF vars
<1>11. QED BY <1>1, <1>2, <1>3, <1>4, <1>5, <1>6, <1>7, <1>8, <1>9, <1>10 DEF Next, Step

\* An invocation goes through its own stages.
LEMMA StageStep == TypeOK /\ StageInv /\ [Next]_vars => StageInv'
<1> SUFFICES ASSUME TypeOK, StageInv, [Next]_vars PROVE StageInv'
  OBVIOUS
<1> USE DEF StageInv, GccStage, ClangStage, PackageStage
<1>1. ASSUME NEW s \in Stages, Run(s) PROVE StageInv'
  BY <1>1 DEF Run, NextStep, Stages
<1>2. CASE NewJob
  BY <1>2 DEF NewJob
<1>3. CASE StageGcc \/ PrePassInstallsGcc \/ PrePassEnds \/ PrepareDeps
  BY <1>3 DEF StageGcc, PrePassInstallsGcc, PrePassEnds, PrepareDeps
<1>4. CASE MakeNewlib \/ CrossFails
  BY <1>4 DEF MakeNewlib, CrossFails, Return
<1>5. CASE ApplyPatches \/ ApplyPatchesRefuses \/ FindTools
  BY <1>5 DEF ApplyPatches, ApplyPatchesRefuses, FindTools
<1>6. CASE \E t \in Tools : BuildTool(t)
  BY <1>6 DEF BuildTool
<1>7. CASE BuildLlvm \/ BuildLlvmFails \/ InstallClang
  BY <1>7 DEF BuildLlvm, BuildLlvmFails, InstallClang, Return
<1>8. CASE RemoveArchives \/ Tar \/ ZipBegins \/ Zip
  BY <1>8 DEF RemoveArchives, Tar, ZipBegins, Zip, Return
<1>9. CASE Stop
  BY <1>9 DEF Stop
<1>10. CASE UNCHANGED vars
  BY <1>10 DEF vars
<1>11. QED BY <1>1, <1>2, <1>3, <1>4, <1>5, <1>6, <1>7, <1>8, <1>9, <1>10 DEF Next, Step

\* A stage leaves what the next one packs.
LEMMA PrefixStep == TypeOK /\ StageInv /\ PrefixInv /\ [Next]_vars => PrefixInv'
<1> SUFFICES ASSUME TypeOK, StageInv, PrefixInv, [Next]_vars PROVE PrefixInv'
  OBVIOUS
<1> USE DEF StageInv, PrefixInv, GccStage, ClangStage, PackageStage, disk
<1>1. ASSUME NEW s \in Stages, Run(s) PROVE PrefixInv'
  BY <1>1 DEF Run, NextStep, Stages
<1>2. CASE NewJob
  BY <1>2 DEF NewJob
<1>3. CASE StageGcc \/ PrePassInstallsGcc \/ PrePassEnds \/ PrepareDeps
  BY <1>3 DEF StageGcc, PrePassInstallsGcc, PrePassEnds, PrepareDeps
<1>4. CASE MakeNewlib \/ CrossFails
  BY <1>4 DEF MakeNewlib, CrossFails, Return, TypeOK
<1>5. CASE ApplyPatches \/ ApplyPatchesRefuses \/ FindTools
  BY <1>5 DEF ApplyPatches, ApplyPatchesRefuses, FindTools
<1>6. CASE \E t \in Tools : BuildTool(t)
  BY <1>6 DEF BuildTool
<1>7. CASE BuildLlvm \/ BuildLlvmFails \/ InstallClang
  BY <1>7 DEF BuildLlvm, BuildLlvmFails, InstallClang, Return, TypeOK
<1>8. CASE RemoveArchives \/ Tar \/ ZipBegins \/ Zip
  BY <1>8 DEF RemoveArchives, Tar, ZipBegins, Zip, Return
<1>9. CASE Stop
  BY <1>9 DEF Stop
<1>10. CASE UNCHANGED vars
  BY <1>10 DEF vars
<1>11. QED BY <1>1, <1>2, <1>3, <1>4, <1>5, <1>6, <1>7, <1>8, <1>9, <1>10 DEF Next, Step

\* Packaging removes both archives before it makes either.
LEMMA ArchiveStep == ArchiveInv /\ [Next]_vars => ArchiveInv'
<1> SUFFICES ASSUME ArchiveInv, [Next]_vars PROVE ArchiveInv'
  OBVIOUS
<1> USE DEF ArchiveInv, ArchivesAgree, disk
<1>1. CASE (\E s \in Stages : Run(s)) \/ Stop
  BY <1>1 DEF Run, Stop
<1>2. CASE NewJob
  BY <1>2 DEF NewJob
<1>3. CASE StageGcc \/ PrePassInstallsGcc \/ PrePassEnds \/ PrepareDeps
  BY <1>3 DEF StageGcc, PrePassInstallsGcc, PrePassEnds, PrepareDeps
<1>4. CASE MakeNewlib \/ CrossFails
  BY <1>4 DEF MakeNewlib, CrossFails, Return
<1>5. CASE ApplyPatches \/ ApplyPatchesRefuses \/ FindTools \/ \E t \in Tools : BuildTool(t)
  BY <1>5 DEF ApplyPatches, ApplyPatchesRefuses, FindTools, BuildTool
<1>6. CASE BuildLlvm \/ BuildLlvmFails \/ InstallClang
  BY <1>6 DEF BuildLlvm, BuildLlvmFails, InstallClang, Return
<1>7. CASE RemoveArchives \/ Tar \/ ZipBegins \/ Zip
  BY <1>7 DEF RemoveArchives, Tar, ZipBegins, Zip, Return
<1>8. CASE UNCHANGED vars
  BY <1>8 DEF vars
<1>9. QED BY <1>1, <1>2, <1>3, <1>4, <1>5, <1>6, <1>7, <1>8 DEF Next, Step

\* A tree that was cut short is never built into the prefix.
LEMMA PatchStep == TypeOK /\ PatchInv /\ [Next]_vars => PatchInv'
<1> SUFFICES ASSUME TypeOK, PatchInv, [Next]_vars PROVE PatchInv'
  OBVIOUS
<1> USE BuildsAssumption DEF PatchInv, ClangIsPatched, disk
<1>1. CASE \E s \in Stages : Run(s)
  BY <1>1 DEF Run
<1>2. CASE NewJob
  BY <1>2 DEF NewJob
<1>3. CASE StageGcc \/ PrePassInstallsGcc \/ PrePassEnds \/ PrepareDeps
  BY <1>3 DEF StageGcc, PrePassInstallsGcc, PrePassEnds, PrepareDeps
<1>4. CASE MakeNewlib \/ CrossFails
  BY <1>4 DEF MakeNewlib, CrossFails, Return
<1>5. CASE ApplyPatches \/ ApplyPatchesRefuses
  BY <1>5 DEF ApplyPatches, ApplyPatchesRefuses, AlreadyApplied
<1>6. CASE FindTools \/ \E t \in Tools : BuildTool(t)
  BY <1>6 DEF FindTools, BuildTool
<1>7. CASE BuildLlvm \/ BuildLlvmFails \/ InstallClang
  BY <1>7 DEF BuildLlvm, BuildLlvmFails, InstallClang, Return, Compiles
<1>8. CASE RemoveArchives \/ Tar \/ ZipBegins \/ Zip
  BY <1>8 DEF RemoveArchives, Tar, ZipBegins, Zip, Return
<1>9. CASE Stop
  BY <1>9 DEF Stop, Stripped
<1>10. CASE UNCHANGED vars
  BY <1>10 DEF vars
<1>11. QED BY <1>1, <1>2, <1>3, <1>4, <1>5, <1>6, <1>7, <1>8, <1>9, <1>10 DEF Next, Step

\* The report comes with the zip, or belongs to a stage that packs nothing.
LEMMA ReportStep == MetalInv /\ [Next]_vars => ReportedIsWhole'
<1> SUFFICES ASSUME MetalInv, [Next]_vars PROVE ReportedIsWhole'
  OBVIOUS
<1> USE DEF MetalInv, StageInv, PrefixInv, ArchiveInv, ReportedIsWhole, GccStage, ClangStage,
        PackageStage, disk
<1>1. CASE (\E s \in Stages : Run(s)) \/ NewJob \/ Stop
  BY <1>1 DEF Run, NewJob, Stop
<1>2. CASE Zip
  <2>1. /\ pc = "zip" /\ zip' = [gcc |-> gcc, clang |-> clang] /\ tar' = tar
        /\ UNCHANGED <<ci, gcc, clang, stage, build>>
    BY <1>2 DEF Zip
  <2>2. tar = [gcc |-> gcc, clang |-> clang] /\ status = "running"
    BY <2>1
  <2>3. stage = "all" => gcc = build /\ clang = build
    BY <2>1
  <2>4. (ci /\ stage = "package") => gcc \in Builds /\ clang \in Builds
    BY <2>2
  <2>5. QED BY <2>1, <2>2, <2>3, <2>4
<1>3. CASE MakeNewlib \/ InstallClang
  BY <1>3 DEF MakeNewlib, InstallClang, Return
<1>4. CASE StageGcc \/ PrePassInstallsGcc \/ PrePassEnds \/ PrepareDeps \/ CrossFails
             \/ ApplyPatches \/ ApplyPatchesRefuses \/ FindTools \/ (\E t \in Tools : BuildTool(t))
             \/ BuildLlvm \/ BuildLlvmFails \/ RemoveArchives \/ Tar \/ ZipBegins
  <2>1. pc # "off" /\ (status' = status \/ status' = "error")
    BY <1>4 DEF StageGcc, PrePassInstallsGcc, PrePassEnds, PrepareDeps, CrossFails, ApplyPatches,
        ApplyPatchesRefuses, FindTools, BuildTool, BuildLlvm, BuildLlvmFails, RemoveArchives, Tar,
        ZipBegins
  <2>2. QED BY <2>1
<1>5. CASE UNCHANGED vars
  BY <1>5 DEF vars
<1>6. QED BY <1>1, <1>2, <1>3, <1>4, <1>5 DEF Next, Step

\* The inductive invariant holds in every reachable state.
LEMMA MetalInductive == Spec => []MetalInv
<1>1. MetalInv /\ [Next]_vars => MetalInv'
  BY TypeStep, StageStep, PrefixStep, ArchiveStep, PatchStep, ReportStep DEF MetalInv
<1>2. QED BY InitMetal, <1>1, PTL DEF Spec

\* Types, and with them that there is always a name for another invocation.
THEOREM TypeCorrect == Spec => []TypeOK
BY MetalInductive, PTL DEF MetalInv

\* The two archives in $OUT never differ, whatever was cut short.
THEOREM ArchivesNeverDiffer == Spec => []ArchivesAgree
BY MetalInductive, PTL DEF MetalInv, ArchiveInv

\* What is reported complete is whole, and for `all' of one invocation.
THEOREM ReportsAreWhole == Spec => []ReportedIsWhole
BY MetalInductive, PTL DEF MetalInv

\* Clang in the prefix was built with the whole patch.
THEOREM ClangFromPatched == Spec => []ClangIsPatched
BY MetalInductive, PTL DEF MetalInv, PatchInv
=============================================================================
