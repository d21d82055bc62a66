-------------------------- MODULE RequestLifecycle --------------------------
(***************************************************************************)
(* What the API promises about the state of a request, whoever asks for a  *)
(* change and in whatever order: it is submitted once, it gets at most one *)
(* outcome, an outcome can only be replaced by "stale", and "stale" is for *)
(* ever.                                                                   *)
(***************************************************************************)
CONSTANT Requests

VARIABLE status   \* the state of each request, "none" before submission

Status == {"none", "in_progress", "complete", "failed", "stale"}

TypeOK == status \in [Requests -> Status]

Init == status = [r \in Requests |-> "none"]

Submit(r) ==
    /\ status[r] = "none"
    /\ status' = [status EXCEPT ![r] = "in_progress"]

Settle(r, outcome) ==
    /\ status[r] = "in_progress"
    /\ outcome \in {"complete", "failed"}
    /\ status' = [status EXCEPT ![r] = outcome]

Expire(r) ==
    /\ status[r] \in {"in_progress", "complete", "failed"}
    /\ status' = [status EXCEPT ![r] = "stale"]

Next == \E r \in Requests :
            \/ Submit(r)
            \/ \E outcome \in {"complete", "failed"} : Settle(r, outcome)
            \/ Expire(r)

Spec == Init /\ [][Next]_status

=============================================================================
