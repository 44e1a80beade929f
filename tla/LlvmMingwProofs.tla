-------------------------- MODULE LlvmMingwProofs --------------------------
(***************************************************************************)
(* For any number of mirrors: fetch_source is an atomic fetch, leaves no   *)
(* partial download when it returns, and tries its mirrors in order.  For  *)
(* any number of kills, failed commands and lost tools: fetch_source stays *)
(* an atomic fetch when prepare-llvm-mingw.sh drives it, and the path of   *)
(* llvm-mingw is printed only for all of the pinned archive.               *)
(***************************************************************************)
EXTENDS LlvmMingw, TLAPS

-----------------------------------------------------------------------------
(* fetch_source                                                            *)

\* The numbers of the call: they are what the mirror loop needs.
CallType ==
    /\ mirrors \in Nat /\ url \in Nat
    /\ fpc \in {"idle", "curl", "check", "mv", "drop"}

\* A call is under way exactly when the caller waits for its answer.
Waiting == fpc # "idle" <=> answer = "busy"

\* What is about to be renamed has been checked.
Checked == fpc = "mv" => archive_ok(part)

\* The mirrors before the current one have failed, and no other.
Tried == fpc # "idle" => url \in 1 .. mirrors /\ failed = 1 .. url - 1

\* The inductive invariant.
FetchInv ==
    /\ CallType /\ Waiting /\ Checked /\ Tried
    /\ NoPartAfterReturn /\ MirrorsInOrder

\* No call has been made in the first state.
LEMMA InitFetch == FetchInit => FetchInv
BY DEF FetchInit, FetchInv, CallType, Waiting, Checked, Tried,
       NoPartAfterReturn, MirrorsInOrder

\* Every step of every call keeps the invariant.
LEMMA StepFetch == FetchInv /\ [FetchNext]_fetchVars => FetchInv'
<1> SUFFICES ASSUME FetchInv, [FetchNext]_fetchVars PROVE FetchInv'
  OBVIOUS
<1> USE FetchAssumption DEF FetchInv, CallType, Waiting, Checked, Tried, NoPartAfterReturn,
        MirrorsInOrder
<1>1. CASE \E n \in 1 .. MaxMirrors : Call(n)
  BY <1>1 DEF Call
<1>2. CASE CallWithoutMirrors
  BY <1>2 DEF CallWithoutMirrors
<1>3. CASE CurlWrites \/ CurlFails
  BY <1>3 DEF CurlWrites, CurlFails
<1>4. CASE \E body \in Contents \ {"absent"} : CurlSucceeds(body)
  BY <1>4 DEF CurlSucceeds
<1>5. CASE Check
  BY <1>5 DEF Check
<1>6. CASE MoveIntoPlace
  BY <1>6 DEF MoveIntoPlace
<1>7. CASE Drop
  <2>1. fpc = "drop" /\ url \in 1 .. mirrors /\ failed = 1 .. url - 1 /\ mirrors' = mirrors
    BY <1>7 DEF Drop
  <2>2. failed' = 1 .. url
    BY <1>7, <2>1 DEF Drop
  <2>3. QED BY <1>7, <2>1, <2>2 DEF Drop
<1>8. CASE FetchKilled \/ Remove
  BY <1>8 DEF FetchKilled, Remove
<1>9. CASE UNCHANGED fetchVars
  BY <1>9 DEF fetchVars, archive_ok
<1>10. QED BY <1>1, <1>2, <1>3, <1>4, <1>5, <1>6, <1>7, <1>8, <1>9 DEF FetchNext, Step

\* The invariant holds in every reachable state.
LEMMA FetchInvariant == FetchSpec => []FetchInv
BY InitFetch, StepFetch, PTL DEF FetchSpec

\* The mirror loop stays within the mirrors that were passed.
THEOREM FetchTypeCorrect == FetchSpec => []FetchTypeOK
<1> USE FetchAssumption DEF FetchTypeOK, Contents, Archives
<1>1. FetchInit => FetchTypeOK
  BY DEF FetchInit
<1>2. FetchInv /\ FetchTypeOK /\ [FetchNext]_fetchVars => FetchTypeOK'
  <2> SUFFICES ASSUME FetchInv, FetchTypeOK, [FetchNext]_fetchVars PROVE FetchTypeOK'
    OBVIOUS
  <2>1. CASE \E n \in 1 .. MaxMirrors : Call(n)
    BY <2>1 DEF Call
  <2>2. CASE Drop
    BY <2>2 DEF Drop, FetchInv, Tried
  <2>3. CASE CallWithoutMirrors \/ CurlWrites \/ CurlFails
            \/ Check \/ MoveIntoPlace \/ FetchKilled \/ Remove
    BY <2>3 DEF CallWithoutMirrors, CurlWrites, CurlFails,
                  Check, MoveIntoPlace, FetchKilled, Remove
  <2>4. CASE \E body \in Contents \ {"absent"} : CurlSucceeds(body)
    BY <2>4 DEF CurlSucceeds
  <2>5. CASE UNCHANGED fetchVars
    BY <2>5 DEF fetchVars
  <2>6. QED BY <2>1, <2>2, <2>3, <2>4, <2>5 DEF FetchNext, Step
<1>3. QED BY <1>1, <1>2, FetchInvariant, PTL DEF FetchSpec

\* No call that returns leaves a partial download, for any number of mirrors.
THEOREM NothingLeftBehind == FetchSpec => []NoPartAfterReturn
<1>1. FetchInv => NoPartAfterReturn
  BY DEF FetchInv
<1>2. QED BY <1>1, FetchInvariant, PTL

\* For any number of mirrors, success comes from the first one that delivers
\* an archive and failure after all of them.
THEOREM MirrorsTriedInOrder == FetchSpec => []MirrorsInOrder
<1>1. FetchInv => MirrorsInOrder
  BY DEF FetchInv
<1>2. QED BY <1>1, FetchInvariant, PTL

\* A destination with a suffix fetch_source knows only ever changes to a
\* whole archive, in the step that returns success.
THEOREM FetchIsAtomic == ASSUME KnownSuffix = TRUE PROVE FetchSpec => IsAtomicFetch
<1>1. FetchInit => Abstract!Init
  BY DEF FetchInit, Abstract!Init
<1>2. FetchInv /\ [FetchNext]_fetchVars => [Abstract!Next]_<<dest, answer>>
  <2> SUFFICES ASSUME FetchInv, [FetchNext]_fetchVars
               PROVE  [Abstract!Next]_<<dest, answer>>
    OBVIOUS
  <2> USE DEF FetchInv, Waiting, Checked
  <2>1. CASE \E n \in 1 .. MaxMirrors : Call(n)
    BY <2>1 DEF Call, Abstract!Next, Abstract!Call
  <2>2. CASE CallWithoutMirrors
    BY <2>2 DEF CallWithoutMirrors, Abstract!Next, Abstract!Refuse
  <2>3. CASE CurlWrites \/ CurlFails \/ Check
              \/ \E body \in Contents \ {"absent"} : CurlSucceeds(body)
    BY <2>3 DEF CurlWrites, CurlFails, Check, CurlSucceeds
  <2>4. CASE MoveIntoPlace
    BY <2>4 DEF MoveIntoPlace, archive_ok, Abstract!Next, Abstract!Deliver
  <2>5. CASE Drop
    BY <2>5 DEF Drop, Abstract!Next, Abstract!GiveUp
  <2>6. CASE FetchKilled
    BY <2>6 DEF FetchKilled, Abstract!Next, Abstract!Killed
  <2>7. CASE Remove
    BY <2>7 DEF Remove, Abstract!Next, Abstract!Remove
  <2>8. CASE UNCHANGED fetchVars
    BY <2>8 DEF fetchVars
  <2>9. QED BY <2>1, <2>2, <2>3, <2>4, <2>5, <2>6, <2>7, <2>8 DEF FetchNext, Step
<1>3. QED BY <1>1, <1>2, FetchInvariant, PTL
          DEF FetchSpec, IsAtomicFetch, Abstract!Spec

-----------------------------------------------------------------------------
(* This script and fetch_source                                            *)

\* Whatever this script does is, for fetch_source, a step of it or none.
LEMMA DrivesFetch == [Next]_vars => [FetchNext]_fetchVars
<1> SUFFICES ASSUME [Next]_vars PROVE [FetchNext]_fetchVars
  OBVIOUS
<1> USE DEF fetchVars
<1>1. Call(1) => FetchNext
  BY FetchAssumption, MingwAssumption DEF FetchNext
<1>2. CASE CheckOld \/ NeedFetch \/ FetchStep \/ Verify
  BY <1>1, <1>2 DEF CheckOld, NeedFetch, FetchStep, Verify, RemoveArchive, FetchNext
<1>3. CASE Kill \/ FetchCommandFails \/ ChecksumFails
  BY <1>3 DEF Kill, FetchCommandFails, ChecksumFails, RemoveArchive, FetchNext
<1>4. CASE Main \/ RmRoot \/ FetchReturns \/ MakeTemp \/ SetTrap \/ Extract \/ Extracted
            \/ Validate \/ Touch \/ Move \/ Untrap \/ PrintRoot \/ RmTemp \/ TrapEnds
            \/ CommandFails \/ CleanupFails \/ LoseTools \/ UNCHANGED vars
  BY <1>4 DEF Main, RmRoot, FetchReturns, MakeTemp, SetTrap, Extract, Extracted, Validate,
              Touch, Move, Untrap, PrintRoot, RmTemp, TrapEnds, CommandFails, CleanupFails,
              LoseTools, vars
<1>5. QED BY <1>2, <1>3, <1>4 DEF Next, Script

\* This script, seen from fetch_source, is one of its callers.
LEMMA CallsFetch == Spec => FetchSpec
<1>1. Init => FetchInit
  BY DEF Init
<1>2. QED BY <1>1, DrivesFetch, PTL DEF Spec, FetchSpec

\* fetch_source is still the atomic fetch its callers rely on when this
\* script drives it, kills it and removes its destination, whose name ends
\* in .tar.xz.
THEOREM FetchStaysAtomic == ASSUME KnownSuffix = TRUE PROVE Spec => UsesAtomicFetch
<1>1. FetchSpec => IsAtomicFetch
  BY FetchIsAtomic
<1>2. QED BY CallsFetch, <1>1, PTL DEF UsesAtomicFetch

-----------------------------------------------------------------------------
(* The installed directory                                                 *)

\* Types of what the script itself keeps.
ScriptType ==
    /\ root \subseteq Files /\ temp \subseteq Files
    /\ hasTemp \in BOOLEAN /\ tempRoot \in BOOLEAN /\ trap \in BOOLEAN
    /\ strays \in Nat /\ cuts \in 0 .. faults
    /\ pc \in {"off", "rmroot", "checkold", "needfetch", "fetch", "verify", "mktemp",
               "trap", "tar", "validate", "touch", "mv", "untrap", "print", "cleanup"}
    /\ result \in {"none", "printed", "error", "killed"}
    /\ faults \in 0 .. MaxFaults

\* fetch_source runs only inside its call; behind the checksum the archive is
\* the pinned one and nobody touches it.
ArchiveInv ==
    /\ fpc # "idle" => pc = "fetch"
    /\ pc \in {"mktemp", "trap", "tar", "validate", "touch", "mv"} => Matches

\* The place is free when the script gets to the download; the temporary
\* directory is complete before it is marked and marked before it is moved.
TempInv ==
    /\ pc \notin {"off", "rmroot", "untrap", "print"} => root = {}
    /\ pc \in {"validate", "touch"} => {"tools", "libs"} \subseteq temp
    /\ pc = "mv" => temp = Whole
    /\ pc \in {"untrap", "print"} => root = Whole

\* Outside of the few statements between mktemp and the trap, a directory
\* that exists is one the trap will remove.
TrapInv ==
    /\ hasTemp => tempRoot
    /\ hasTemp /\ pc # "trap" => trap
    /\ pc = "untrap" => ~hasTemp
    /\ trap => pc \in {"tar", "validate", "touch", "mv", "untrap", "cleanup"}
    /\ StraysOnlyFromCuts

\* A directory that would be found installed is whole: rm -rf only starts on
\* one that would not, and losing files makes none look installed.
RootInv ==
    /\ Installed(root) => root = Whole
    /\ pc = "rmroot" => ~Installed(root)
    /\ result = "printed" => pc = "off"

\* The inductive invariant.
MingwInv == ScriptType /\ ArchiveInv /\ TempInv /\ TrapInv /\ RootInv /\ PrintedIsWhole

\* The first run finds nothing installed.
LEMMA InitMingw == Init => MingwInv
<1> SUFFICES ASSUME Init PROVE MingwInv
  OBVIOUS
<1>1. /\ root = {} /\ temp = {} /\ pc = "off" /\ result = "none" /\ fpc = "idle"
      /\ faults \in 0 .. MaxFaults /\ cuts \in 0 .. faults /\ strays \in Nat /\ strays <= cuts
  BY MingwAssumption DEF Init, FetchInit
<1>2. ~hasTemp /\ ~trap /\ hasTemp \in BOOLEAN /\ tempRoot \in BOOLEAN /\ trap \in BOOLEAN
  BY Zenon DEF Init
<1>3. QED BY <1>1, <1>2 DEF MingwInv, ScriptType, ArchiveInv, TempInv, TrapInv, RootInv,
              PrintedIsWhole, StraysOnlyFromCuts, Installed, Files

\* A run that still has a directory leaves one more; without one, none.
LEMMA EndOfRun ==
  ASSUME MingwInv, NEW res \in {"none", "printed", "error", "killed"}, RunEnds(res)
  PROVE  /\ pc' = "off" /\ result' = res /\ temp' = {}
         /\ ~hasTemp' /\ ~tempRoot' /\ ~trap'
         /\ hasTemp' \in BOOLEAN /\ tempRoot' \in BOOLEAN /\ trap' \in BOOLEAN
         /\ strays' \in Nat /\ strays' <= strays + 1
         /\ ~hasTemp => strays' = strays
<1>1. strays' = IF hasTemp THEN strays + 1 ELSE strays
  BY DEF RunEnds
<1>2. strays' \in Nat /\ strays' <= strays + 1 /\ (~hasTemp => strays' = strays)
  BY <1>1 DEF MingwInv, ScriptType
<1>3. hasTemp' = FALSE /\ tempRoot' = FALSE /\ trap' = FALSE
  BY Zenon DEF RunEnds
<1>4. QED BY <1>2, <1>3 DEF RunEnds

\* A run that ends by itself either has no directory or runs the trap.
LEMMA Exits ==
  ASSUME MingwInv, NEW res \in {"none", "error"}, Exit(res),
         pc \notin {"trap", "cleanup", "untrap"}, root' = root, faults' \in 0 .. MaxFaults,
         faults' >= faults, cuts' = cuts, fpc' = "idle"
  PROVE  MingwInv'
<1> USE DEF MingwInv, ScriptType, ArchiveInv, TempInv, TrapInv, RootInv, PrintedIsWhole,
        StraysOnlyFromCuts, Whole, Files, Installed
<1>1. CASE trap /\ pc' = "cleanup" /\ result' = res /\ UNCHANGED tempVars
  BY <1>1 DEF tempVars
<1>2. CASE ~trap /\ RunEnds(res)
  <2>1. ~hasTemp
    BY <1>2
  <2>2. QED BY <1>2, <2>1, EndOfRun
<1>3. QED BY <1>1, <1>2 DEF Exit

\* Every step keeps the invariant.
LEMMA StepMingw == MingwInv /\ [Next]_vars => MingwInv'
<1> SUFFICES ASSUME MingwInv, [Next]_vars PROVE MingwInv'
  OBVIOUS
<1> USE MingwAssumption DEF MingwInv, ScriptType, ArchiveInv, TempInv, TrapInv, RootInv,
        PrintedIsWhole, StraysOnlyFromCuts, Installed, Files, Whole, Matches, fetchVars, tempVars
<1>1. CASE Main
  BY <1>1 DEF Main
<1>2. CASE RmRoot
  BY <1>2 DEF RmRoot
<1>3. CASE CheckOld
  BY <1>3 DEF CheckOld, RemoveArchive, Remove
<1>4. CASE NeedFetch
  BY <1>4 DEF NeedFetch, Call
<1>5. CASE FetchStep
  BY <1>5 DEF FetchStep
<1>6. CASE FetchReturns
  <2>1. CASE answer = "ok" /\ pc' = "verify" /\ UNCHANGED <<tempVars, result>>
    BY <1>6, <2>1 DEF FetchReturns
  <2>2. CASE Exit("error")
    BY <1>6, <2>2, Exits DEF FetchReturns
  <2>3. QED BY <1>6, <2>1, <2>2 DEF FetchReturns
<1>7. CASE Verify
  <2>1. CASE Matches /\ pc' = "mktemp" /\ UNCHANGED <<tempVars, result, fetchVars>>
    BY <1>7, <2>1 DEF Verify
  <2>2. CASE RemoveArchive /\ Exit("error")
    BY <1>7, <2>2, Exits DEF Verify, RemoveArchive, Remove
  <2>3. QED BY <1>7, <2>1, <2>2 DEF Verify
<1>8. CASE MakeTemp
  BY <1>8 DEF MakeTemp
<1>9. CASE SetTrap
  BY <1>9 DEF SetTrap
<1>10. CASE Extract
  BY <1>10 DEF Extract
<1>11. CASE Extracted
  BY <1>11 DEF Extracted
<1>12. CASE Validate
  <2>1. "tools" \in temp /\ pc' = "touch" /\ UNCHANGED <<tempVars, result>>
    BY <1>12 DEF Validate
  <2>2. QED BY <1>12, <2>1 DEF Validate
<1>13. CASE Touch
  BY <1>13 DEF Touch
<1>14. CASE Move
  BY <1>14 DEF Move
<1>15. CASE Untrap
  <2>1. ~trap' /\ ~tempRoot' /\ trap' \in BOOLEAN /\ tempRoot' \in BOOLEAN
    BY <1>15, Zenon DEF Untrap
  <2>2. ~hasTemp
    BY <1>15 DEF Untrap
  <2>3. QED BY <1>15, <2>1, <2>2 DEF Untrap
<1>16. CASE PrintRoot
  <2>1. ~hasTemp
    BY <1>16 DEF PrintRoot
  <2>2. QED BY <1>16, <2>1, EndOfRun DEF PrintRoot
<1>17. CASE RmTemp
  BY <1>17 DEF RmTemp
<1>18. CASE TrapEnds
  <2>1. ~hasTemp
    BY <1>18 DEF TrapEnds
  <2>2. QED BY <1>18, <2>1, EndOfRun DEF TrapEnds
<1>19. CASE CommandFails
  BY <1>19, Exits DEF CommandFails, Fault
<1>20. CASE FetchCommandFails
  BY <1>20, Exits DEF FetchCommandFails, Fault, FetchKilled
<1>21. CASE ChecksumFails
  <2>1. CASE pc = "checkold" /\ pc' = "needfetch" /\ UNCHANGED <<tempVars, result>>
    BY <1>21, <2>1 DEF ChecksumFails, Fault, RemoveArchive, Remove
  <2>2. CASE pc = "verify" /\ Exit("error")
    BY <1>21, <2>2, Exits DEF ChecksumFails, Fault, RemoveArchive, Remove
  <2>3. QED BY <1>21, <2>1, <2>2 DEF ChecksumFails
<1>22. CASE CleanupFails
  BY <1>22, EndOfRun DEF CleanupFails, Fault
<1>23. CASE Kill
  <2>1. fpc' = "idle"
    BY <1>23 DEF Kill, FetchKilled
  <2>2. QED BY <1>23, <2>1, EndOfRun DEF Kill, Fault
<1>24. CASE LoseTools
  BY <1>24 DEF LoseTools, Fault
<1>25. CASE UNCHANGED vars
  BY <1>25 DEF vars
<1>26. QED BY <1>1, <1>2, <1>3, <1>4, <1>5, <1>6, <1>7, <1>8, <1>9, <1>10, <1>11, <1>12, <1>13,
              <1>14, <1>15, <1>16, <1>17, <1>18, <1>19, <1>20, <1>21, <1>22, <1>23, <1>24, <1>25
           DEF Next, Script

\* The invariant holds in every reachable state.
LEMMA MingwInductive == Spec => []MingwInv
BY InitMingw, StepMingw, PTL DEF Spec

\* The script's variables and those of the fetch_source it calls keep their
\* types.
THEOREM TypeCorrect == Spec => []TypeOK
<1>1. MingwInv /\ FetchTypeOK => TypeOK
  BY DEF MingwInv, ScriptType, TypeOK
<1>2. QED BY MingwInductive, CallsFetch, FetchTypeCorrect, <1>1, PTL

\* The path is printed only for a directory that holds all of the pinned
\* archive, whatever was killed, failed or lost before.
THEOREM PrintedOnlyWhole == Spec => []PrintedIsWhole
BY MingwInductive, PTL DEF MingwInv

\* However many runs fail, and wherever, no more extraction directories are
\* left than runs were killed or could not remove theirs.
THEOREM StraysBounded == Spec => []StraysOnlyFromCuts
BY MingwInductive, PTL DEF MingwInv, TrapInv

\* The marker appears only together with a whole directory, in one step.
THEOREM MarkerLast == Spec => MarkerArrivesWhole
<1>1. MingwInv /\ [Next]_vars
        => [".complete" \in root' /\ ".complete" \notin root => root = {} /\ root' = Whole]_vars
  <2> SUFFICES ASSUME MingwInv, Next, ".complete" \in root', ".complete" \notin root
               PROVE  root = {} /\ root' = Whole
    OBVIOUS
  <2>1. CASE Move
    BY <2>1 DEF Move, MingwInv, TempInv
  <2>2. CASE ~Move
    BY <2>2 DEF Next, Script, Main, RmRoot, CheckOld, NeedFetch, FetchStep, FetchReturns, Verify,
                MakeTemp, SetTrap, Extract, Extracted, Validate, Touch, Untrap, PrintRoot, RmTemp,
                TrapEnds, CommandFails, FetchCommandFails, ChecksumFails, CleanupFails, Kill,
                LoseTools
  <2>3. QED BY <2>1, <2>2
<1>2. QED BY <1>1, MingwInductive, PTL DEF Spec, MarkerArrivesWhole
=============================================================================
