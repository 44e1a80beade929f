---------------------------- MODULE AtomicFetch ----------------------------
(***************************************************************************)
(* What the callers of fetch_source rely on: while a call is under way the *)
(* destination is what it was, and the call ends either by replacing it,   *)
(* in one step, by a whole archive, or by leaving it alone and saying so.  *)
(* Between calls the caller may remove the destination.                    *)
(***************************************************************************)
CONSTANTS Archives,   \* whole archives, the wanted one among them
          Absent

VARIABLES dest,       \* what is at the destination
          answer      \* "none", "busy", "ok", "failed", "usage"

Init ==
    /\ dest \in Archives \cup {Absent}
    /\ answer = "none"

Call    == answer # "busy" /\ answer' = "busy" /\ UNCHANGED dest
Refuse  == answer # "busy" /\ answer' = "usage" /\ UNCHANGED dest
Deliver == answer = "busy" /\ answer' = "ok" /\ dest' \in Archives
GiveUp  == answer = "busy" /\ answer' = "failed" /\ UNCHANGED dest
Killed  == answer = "busy" /\ answer' = "none" /\ UNCHANGED dest
Remove  == answer # "busy" /\ dest' = Absent /\ UNCHANGED answer

Next == Call \/ Refuse \/ Deliver \/ GiveUp \/ Killed \/ Remove

Spec == Init /\ [][Next]_<<dest, answer>>
=============================================================================
