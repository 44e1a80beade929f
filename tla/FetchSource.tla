---------------------------- MODULE FetchSource ----------------------------
(***************************************************************************)
(* build/fetch-source.sh: an archive is downloaded from the first mirror   *)
(* that delivers one, into a file of its own that is renamed to the        *)
(* destination when it has been checked.                                   *)
(*                                                                         *)
(* A file is "absent", "torn" (cut short), a "page" (an HTML error or      *)
(* bot-check page), a whole archive that is not the wanted one ("wrong"),  *)
(* or the wanted archive ("good").                                         *)
(***************************************************************************)
EXTENDS Naturals

CONSTANTS MaxMirrors,   \* a caller passes at most this many mirrors, possibly none
          KnownSuffix   \* the destination's name ends in .tar, .tgz, .tar.gz, .tar.xz or .tar.bz2

ASSUME FetchAssumption == MaxMirrors \in Nat /\ KnownSuffix \in BOOLEAN

Archives == {"wrong", "good"}
Contents == {"absent", "torn", "page"} \cup Archives

VARIABLES
    dest,     \* $destination
    part,     \* $destination.part
    fpc,      \* "idle", "curl", "check", "mv" or "drop"
    mirrors,  \* the number of mirrors passed to this call
    url,      \* the mirror being tried
    failed,   \* the mirrors that failed in this call
    answer    \* "none", "busy", "ok", "failed" or "usage" (return 0, 1, 2)

fetchVars == <<dest, part, fpc, mirrors, url, failed, answer>>

FetchTypeOK ==
    /\ dest \in Contents /\ part \in Contents
    /\ fpc \in {"idle", "curl", "check", "mv", "drop"}
    /\ mirrors \in 0 .. MaxMirrors
    /\ url \in 0 .. mirrors
    /\ failed \subseteq 1 .. mirrors
    /\ answer \in {"none", "busy", "ok", "failed", "usage"}

FetchInit ==
    /\ dest \in Archives \cup {"absent"}
    /\ part = "absent"
    /\ fpc = "idle" /\ mirrors = 0 /\ url = 0 /\ failed = {}
    /\ answer = "none"

\* Faulty variant: whatever curl delivers will do.
archive_ok_Any(file) == file # "absent"

\* The file decompresses to its end and lists at least one entry; a name
\* with another suffix is not checked.
archive_ok(file) == ~KnownSuffix \/ file \in Archives

\* fetch_source is called with n mirrors; what a killed call left is removed
\* first.
Call(n) ==
    /\ fpc = "idle" /\ n > 0
    /\ part' = "absent"
    /\ fpc' = "curl" /\ mirrors' = n /\ url' = 1 /\ failed' = {}
    /\ answer' = "busy"
    /\ UNCHANGED dest

\* fetch_source: no mirrors provided
CallWithoutMirrors ==
    /\ fpc = "idle"
    /\ answer' = "usage"
    /\ UNCHANGED <<dest, part, fpc, mirrors, url, failed>>

\* Faulty variant: curl writes to the destination itself.
CurlWrites_InPlace ==
    /\ fpc = "curl"
    /\ part' = "torn" /\ dest' = "torn"
    /\ UNCHANGED <<fpc, mirrors, url, failed, answer>>

\* curl -o "$partial" writes as it receives; --retry starts over.
CurlWrites ==
    /\ fpc = "curl"
    /\ part' = "torn"
    /\ UNCHANGED <<dest, fpc, mirrors, url, failed, answer>>

\* HTTP 200, whatever the body is.
CurlSucceeds(body) ==
    /\ fpc = "curl"
    /\ part' = body
    /\ fpc' = "check"
    /\ UNCHANGED <<dest, mirrors, url, failed, answer>>

CurlFails ==
    /\ fpc = "curl"
    /\ fpc' = "drop"
    /\ UNCHANGED <<dest, part, mirrors, url, failed, answer>>

Check ==
    /\ fpc = "check"
    /\ fpc' = IF archive_ok(part) THEN "mv" ELSE "drop"
    /\ UNCHANGED <<dest, part, mirrors, url, failed, answer>>

MoveIntoPlace ==
    /\ fpc = "mv"
    /\ dest' = part /\ part' = "absent"
    /\ fpc' = "idle" /\ answer' = "ok"
    /\ UNCHANGED <<mirrors, url, failed>>

\* Faulty variant: the loop runs past the last mirror.
Drop_PastEnd ==
    /\ fpc = "drop"
    /\ part' = "absent"
    /\ failed' = failed \cup {url}
    /\ IF url <= mirrors
         THEN fpc' = "curl" /\ url' = url + 1 /\ UNCHANGED answer
         ELSE fpc' = "idle" /\ answer' = "failed" /\ UNCHANGED url
    /\ UNCHANGED <<dest, mirrors>>

\* Faulty variant: the last mirror's partial file is forgotten.
Drop_LeavesPart ==
    /\ fpc = "drop"
    /\ failed' = failed \cup {url}
    /\ IF url < mirrors
         THEN fpc' = "curl" /\ url' = url + 1 /\ part' = "absent" /\ UNCHANGED answer
         ELSE fpc' = "idle" /\ answer' = "failed" /\ UNCHANGED <<url, part>>
    /\ UNCHANGED <<dest, mirrors>>

\* Faulty variant: every other mirror is tried.
Drop_SkipsOne ==
    /\ fpc = "drop"
    /\ part' = "absent"
    /\ failed' = failed \cup {url}
    /\ IF url + 1 < mirrors
         THEN fpc' = "curl" /\ url' = url + 2 /\ UNCHANGED answer
         ELSE fpc' = "idle" /\ answer' = "failed" /\ UNCHANGED url
    /\ UNCHANGED <<dest, mirrors>>

\* The mirror failed: the next one, or return 1.
Drop ==
    /\ fpc = "drop"
    /\ part' = "absent"
    /\ failed' = failed \cup {url}
    /\ \/ /\ url < mirrors
          /\ fpc' = "curl" /\ url' = url + 1 /\ UNCHANGED answer
       \/ /\ url = mirrors
          /\ fpc' = "idle" /\ answer' = "failed" /\ UNCHANGED url
    /\ UNCHANGED <<dest, mirrors>>

\* The script ends in the middle of the call: it is killed, or mv or rm fails
\* under the set -e of every caller.
FetchKilled ==
    /\ fpc # "idle"
    /\ fpc' = "idle" /\ answer' = "none"
    /\ UNCHANGED <<dest, part, mirrors, url, failed>>

\* The caller removes a destination it cannot use.
Remove ==
    /\ fpc = "idle"
    /\ dest' = "absent"
    /\ UNCHANGED <<part, fpc, mirrors, url, failed, answer>>

\* The steps of a call that is under way.
Step ==
    \/ CurlWrites
    \/ \E body \in Contents \ {"absent"} : CurlSucceeds(body)
    \/ CurlFails \/ Check \/ MoveIntoPlace \/ Drop

FetchNext ==
    \/ \E n \in 1 .. MaxMirrors : Call(n)
    \/ CallWithoutMirrors \/ Step \/ FetchKilled \/ Remove

FetchSpec == FetchInit /\ [][FetchNext]_fetchVars

-----------------------------------------------------------------------------
(* Properties                                                              *)

Abstract == INSTANCE AtomicFetch WITH Absent <- "absent"

\* fetch_source implements the atomic fetch: through kills, torn downloads
\* and pages served with HTTP 200, the destination only ever changes from
\* what it was to a whole archive, in the step that returns success.
IsAtomicFetch == Abstract!Spec

\* A call that returns, with success or without, leaves no partial download,
\* even if an earlier call was killed in the middle of one.
NoPartAfterReturn == answer \in {"ok", "failed"} => part = "absent"

\* Mirrors are tried in order and none is left out: success comes from the
\* first mirror that delivers an archive, failure only after all have failed.
MirrorsInOrder ==
    /\ answer = "ok"     => failed = 1 .. url - 1
    /\ answer = "failed" => failed = 1 .. mirrors
=============================================================================
