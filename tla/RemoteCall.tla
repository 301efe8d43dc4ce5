----------------------------- MODULE RemoteCall -----------------------------
(***************************************************************************)
(* What one call of the crate's API promises, seen from outside, whichever *)
(* side makes it: the operation runs on the other side at most once, an    *)
(* outcome is reported once and for good, success is reported only for an  *)
(* operation that succeeded, and a call that was refused never ran and     *)
(* never will.  A call that failed or was cancelled says nothing about the *)
(* operation, which may still be running: no call is retried.              *)
(***************************************************************************)
VARIABLES
    effect,   \* the operation, far away: "none", "running", "ok", "err"
    outcome   \* what the caller was told, "none" while the call runs

callVars == <<effect, outcome>>

\* Outcomes that promise the operation does not run.
Refusals == {"Rejected", "Denied", "Refused"}

Outcomes == Refusals \cup {"Sent", "Ok", "Failed", "Cancelled"}

Init == effect = "none" /\ outcome = "none"

Run ==
    /\ effect = "none" /\ outcome \notin Refusals
    /\ effect' = "running"
    /\ UNCHANGED outcome

Complete ==
    /\ effect \in {"none", "running"} /\ outcome \notin Refusals
    /\ effect' \in {"ok", "err"}
    /\ UNCHANGED outcome

Report(o) ==
    /\ outcome = "none"
    /\ o = "Ok" => effect = "ok"
    /\ o \in Refusals => effect = "none"
    /\ outcome' = o
    /\ UNCHANGED effect

Next == Run \/ Complete \/ \E o \in Outcomes : Report(o)

Spec ==
    /\ Init /\ [][Next]_callVars
    /\ WF_callVars(\E o \in Outcomes : Report(o))
=============================================================================
