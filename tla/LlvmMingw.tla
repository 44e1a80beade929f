----------------------------- MODULE LlvmMingw -----------------------------
(***************************************************************************)
(* build/prepare-llvm-mingw.sh: the pinned Windows cross compiler is       *)
(* installed once into $WORK and found there by later runs.  The archive   *)
(* comes from fetch_source (module FetchSource; its destination, dest, is  *)
(* the archive here), is checked against its SHA-256, unpacked into a      *)
(* temporary directory, marked .complete there and renamed into place.     *)
(*                                                                         *)
(* The script runs again and again over the same $WORK.  It may be killed  *)
(* at any step (SIGKILL, a lost runner), any command may fail, and between *)
(* runs an installed tool may go missing.                                  *)
(***************************************************************************)
EXTENDS FetchSource

CONSTANT MaxFaults    \* kills, failed commands and lost tools in a behaviour

\* main passes a mirror.
ASSUME MingwAssumption == MaxMirrors > 0 /\ MaxFaults \in Nat

(* A directory is the set of what it holds: "tools" are the executables    *)
(* that validate_root looks for, "libs" the headers and libraries.         *)
Files == {"tools", "libs", ".complete"}
Whole == Files

VARIABLES
    root,     \* $install_root; {} when it does not exist
    temp,     \* what the directory mktemp made for this run holds
    hasTemp,  \* that directory exists
    tempRoot, \* $LLVM_MINGW_TEMP_ROOT is not empty
    trap,     \* the EXIT trap is set
    strays,   \* temporary directories in $WORK that no run knows any more
    cuts,     \* runs that were killed, or could not remove their directory
    pc,       \* the next statement of main, or "cleanup" in the EXIT trap
    result,   \* "none", "printed" (exit 0), "error" or "killed"
    faults

tempVars == <<temp, hasTemp, tempRoot, trap, strays>>
vars == <<root, tempVars, cuts, fetchVars, pc, result, faults>>

TypeOK ==
    /\ root \subseteq Files /\ temp \subseteq Files
    /\ hasTemp \in BOOLEAN /\ tempRoot \in BOOLEAN /\ trap \in BOOLEAN
    /\ strays \in Nat /\ cuts \in 0 .. faults
    /\ FetchTypeOK
    /\ pc \in {"off", "rmroot", "checkold", "needfetch", "fetch", "verify", "mktemp",
               "trap", "tar", "validate", "touch", "mv", "untrap", "print", "cleanup"}
    /\ result \in {"none", "printed", "error", "killed"}
    /\ faults \in 0 .. MaxFaults

Init ==
    /\ root = {} /\ temp = {}
    /\ hasTemp = FALSE /\ tempRoot = FALSE /\ trap = FALSE
    /\ strays = 0 /\ cuts = 0
    /\ FetchInit
    /\ pc = "off" /\ result = "none"
    /\ faults = 0

\* Faulty variant: the marker alone is trusted.
Installed_MarkerOnly(dir) == ".complete" \in dir

\* [ -f .complete ] && validate_root
Installed(dir) == ".complete" \in dir /\ "tools" \in dir

\* $archive, $WORK/downloads/$asset, has the pinned SHA-256.
Matches == dest = "good"

\* The process is gone, and with it its variables and its trap; a directory
\* it still had stays on disk.
RunEnds(res) ==
    /\ pc' = "off" /\ result' = res
    /\ strays' = IF hasTemp THEN strays + 1 ELSE strays
    /\ temp' = {} /\ hasTemp' = FALSE /\ tempRoot' = FALSE /\ trap' = FALSE

\* main returns non-zero, or set -e ends the script: the EXIT trap runs if it
\* has been set.
Exit(res) ==
    \/ /\ trap
       /\ pc' = "cleanup" /\ result' = res
       /\ UNCHANGED tempVars
    \/ ~trap /\ RunEnds(res)

\* Faulty variant: rm is forgotten.
RemoveArchive_Kept == UNCHANGED fetchVars

\* rm -f -- "$archive"
RemoveArchive == Remove

-----------------------------------------------------------------------------

Main ==
    /\ pc = "off"
    /\ \/ /\ Installed(root)
          /\ result' = "printed" /\ UNCHANGED pc
       \/ /\ ~Installed(root)
          /\ result' = "none"
          /\ pc' = IF root # {} THEN "rmroot" ELSE "checkold"
    /\ UNCHANGED <<root, tempVars, cuts, fetchVars, faults>>

\* rm -rf unlinks in an order of its own.
RmRoot ==
    /\ pc = "rmroot"
    /\ \E gone \in SUBSET root :
         /\ gone # {}
         /\ root' = root \ gone
         /\ pc' = IF root' = {} THEN "checkold" ELSE "rmroot"
    /\ UNCHANGED <<tempVars, cuts, fetchVars, result, faults>>

CheckOld ==
    /\ pc = "checkold"
    /\ pc' = "needfetch"
    /\ IF dest # "absent" /\ ~Matches THEN RemoveArchive ELSE UNCHANGED fetchVars
    /\ UNCHANGED <<root, tempVars, cuts, result, faults>>

NeedFetch ==
    /\ pc = "needfetch"
    /\ \/ dest # "absent" /\ pc' = "verify" /\ UNCHANGED fetchVars
       \/ dest = "absent" /\ pc' = "fetch" /\ Call(1)
    /\ UNCHANGED <<root, tempVars, cuts, result, faults>>

FetchStep ==
    /\ pc = "fetch" /\ fpc # "idle"
    /\ Step
    /\ UNCHANGED <<root, tempVars, cuts, pc, result, faults>>

\* set -e ends the script when fetch_source fails.
FetchReturns ==
    /\ pc = "fetch" /\ fpc = "idle"
    /\ \/ answer = "ok" /\ pc' = "verify" /\ UNCHANGED <<tempVars, result>>
       \/ answer = "failed" /\ Exit("error")
    /\ UNCHANGED <<root, cuts, fetchVars, faults>>

\* Faulty variant: the archive that was just downloaded is trusted.
Verify_Trusts ==
    /\ pc = "verify"
    /\ pc' = "mktemp" /\ UNCHANGED <<tempVars, result, fetchVars>>
    /\ UNCHANGED <<root, cuts, faults>>

Verify ==
    /\ pc = "verify"
    /\ \/ Matches /\ pc' = "mktemp" /\ UNCHANGED <<tempVars, result, fetchVars>>
       \/ ~Matches /\ RemoveArchive /\ Exit("error")
    /\ UNCHANGED <<root, cuts, faults>>

MakeTemp ==
    /\ pc = "mktemp"
    /\ hasTemp' = TRUE /\ temp' = {} /\ tempRoot' = TRUE
    /\ pc' = "trap"
    /\ UNCHANGED <<root, trap, strays, cuts, fetchVars, result, faults>>

SetTrap ==
    /\ pc = "trap"
    /\ trap' = TRUE
    /\ pc' = "tar"
    /\ UNCHANGED <<root, temp, hasTemp, tempRoot, strays, cuts, fetchVars, result, faults>>

\* tar -xJf: the wanted archive holds tools and libraries, another may not.
Extract ==
    /\ pc = "tar"
    /\ \E file \in {"tools", "libs"} \ temp : temp' = temp \cup {file}
    /\ UNCHANGED <<root, hasTemp, tempRoot, trap, strays, cuts, fetchVars, pc, result, faults>>

Extracted ==
    /\ pc = "tar"
    /\ Matches => {"tools", "libs"} \subseteq temp
    /\ pc' = "validate"
    /\ UNCHANGED <<root, tempVars, cuts, fetchVars, result, faults>>

Validate ==
    /\ pc = "validate"
    /\ \/ "tools" \in temp /\ pc' = "touch" /\ UNCHANGED <<tempVars, result>>
       \/ "tools" \notin temp /\ Exit("error")
    /\ UNCHANGED <<root, cuts, fetchVars, faults>>

\* Faulty variant: LLVM_MINGW_TEMP_ROOT="" comes before the mv, not after it.
Touch_Forgets ==
    /\ pc = "touch"
    /\ temp' = temp \cup {".complete"} /\ tempRoot' = FALSE
    /\ pc' = "mv"
    /\ UNCHANGED <<root, hasTemp, trap, strays, cuts, fetchVars, result, faults>>

Touch ==
    /\ pc = "touch"
    /\ temp' = temp \cup {".complete"}
    /\ pc' = "mv"
    /\ UNCHANGED <<root, hasTemp, tempRoot, trap, strays, cuts, fetchVars, result, faults>>

\* The directory is renamed; $LLVM_MINGW_TEMP_ROOT still names its old place.
Move ==
    /\ pc = "mv"
    /\ root' = temp
    /\ hasTemp' = FALSE /\ temp' = {}
    /\ pc' = "untrap"
    /\ UNCHANGED <<tempRoot, trap, strays, cuts, fetchVars, result, faults>>

\* LLVM_MINGW_TEMP_ROOT=""; trap - EXIT
Untrap ==
    /\ pc = "untrap"
    /\ tempRoot' = FALSE /\ trap' = FALSE
    /\ pc' = "print"
    /\ UNCHANGED <<root, temp, hasTemp, strays, cuts, fetchVars, result, faults>>

\* printf, and main returns 0.
PrintRoot ==
    /\ pc = "print"
    /\ RunEnds("printed")
    /\ UNCHANGED <<root, cuts, fetchVars, faults>>

\* cleanup_llvm_mingw_temp: rm -rf a directory that is named and exists.
RmTemp ==
    /\ pc = "cleanup"
    /\ tempRoot /\ hasTemp
    /\ temp' = {} /\ hasTemp' = FALSE
    /\ UNCHANGED <<root, tempRoot, trap, strays, cuts, fetchVars, pc, result, faults>>

TrapEnds ==
    /\ pc = "cleanup"
    /\ ~(tempRoot /\ hasTemp)
    /\ RunEnds(result)
    /\ UNCHANGED <<root, cuts, fetchVars, faults>>

(* Faults                                                                  *)

Fault == faults < MaxFaults /\ faults' = faults + 1

\* A command of main fails: mkdir, rm -rf, mktemp, tar, touch, mv or printf,
\* the rm -f of an archive that does not match, or fetch_source's first rm -f.
CommandFails ==
    /\ Fault
    /\ \/ pc \in {"off", "rmroot", "mktemp", "tar", "touch", "mv", "print"}
       \/ pc \in {"checkold", "verify"} /\ dest # "absent" /\ ~Matches
       \/ pc = "needfetch" /\ dest = "absent"
    /\ Exit("error")
    /\ UNCHANGED <<root, cuts, fetchVars>>

\* mv or rm fails in fetch_source, which set -e ends together with the script.
FetchCommandFails ==
    /\ Fault
    /\ pc = "fetch" /\ fpc \in {"mv", "drop"}
    /\ FetchKilled
    /\ Exit("error")
    /\ UNCHANGED <<root, cuts>>

\* sha256sum cannot read a good archive: that is a mismatch like any other.
ChecksumFails ==
    /\ Fault
    /\ dest # "absent"
    /\ RemoveArchive
    /\ \/ pc = "checkold" /\ pc' = "needfetch" /\ UNCHANGED <<tempVars, result>>
       \/ pc = "verify" /\ Exit("error")
    /\ UNCHANGED <<root, cuts>>

\* rm -rf fails in the EXIT trap.
CleanupFails ==
    /\ Fault
    /\ pc = "cleanup" /\ tempRoot /\ hasTemp
    /\ RunEnds(result)
    /\ cuts' = cuts + 1
    /\ UNCHANGED <<root, fetchVars>>

\* No trap runs.
Kill ==
    /\ Fault
    /\ pc # "off"
    /\ RunEnds("killed")
    /\ cuts' = cuts + 1
    /\ IF fpc # "idle" THEN FetchKilled ELSE UNCHANGED fetchVars
    /\ UNCHANGED root

\* One of the tools goes missing between two runs.
LoseTools ==
    /\ Fault
    /\ pc = "off" /\ "tools" \in root
    /\ root' = root \ {"tools"}
    /\ result' = "none"
    /\ UNCHANGED <<tempVars, cuts, fetchVars, pc>>

Script ==
    \/ Main \/ RmRoot \/ CheckOld \/ NeedFetch \/ FetchStep \/ FetchReturns \/ Verify
    \/ MakeTemp \/ SetTrap \/ Extract \/ Extracted \/ Validate \/ Touch
    \/ Move \/ Untrap \/ PrintRoot \/ RmTemp \/ TrapEnds

Next ==
    \/ Script
    \/ CommandFails \/ FetchCommandFails \/ ChecksumFails \/ CleanupFails
    \/ Kill \/ LoseTools

Spec == Init /\ [][Next]_vars

\* The mirror serves the wanted archive.
GoodDownload ==
    /\ pc = "fetch"
    /\ CurlSucceeds("good")
    /\ UNCHANGED <<root, tempVars, cuts, pc, result, faults>>

\* The script runs when it is started, and is started again until it has
\* printed a path; a mirror that is asked again and again serves the wanted
\* archive some day, and a curl that is running ends.
FairSpec ==
    /\ Spec
    /\ WF_vars(Script)
    /\ SF_vars(GoodDownload)

-----------------------------------------------------------------------------
(* Properties                                                              *)

\* The path is printed only for a directory that holds all of the pinned
\* archive: not one that an interrupted rm -rf or tar left, not one unpacked
\* from another archive.
PrintedIsWhole == result = "printed" => root = Whole

\* $WORK does not fill up with extraction directories: over
\* any number of runs there are never more left behind than runs were killed
\* or could not remove theirs.  A tar, touch or mv that fails, a broken
\* archive or an installation leaves none, since the trap is set as soon as
\* the directory exists and $LLVM_MINGW_TEMP_ROOT names it until it is moved.
StraysOnlyFromCuts == strays <= cuts

\* The directory with the marker appears in one step and only goes away by
\* losing files: .complete never joins a directory that is in place.
MarkerArrivesWhole ==
    [][".complete" \in root' /\ ".complete" \notin root => root = {} /\ root' = Whole]_vars

\* fetch_source is still the atomic fetch its callers rely on when this
\* script drives it, kills it and removes its destination.
UsesAtomicFetch == IsAtomicFetch

\* Whatever was cut short, lost or badly served, running the script again
\* ends with a path: no cached archive and no half removed directory can
\* make every later run fail.
Heals == []<>(result = "printed")
=============================================================================
