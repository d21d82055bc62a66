--------------------------- MODULE RequestStates ---------------------------
(***************************************************************************)
(* The states of a Cachito request and the transitions the API accepts     *)
(* (cachito/web/models.py).                                                *)
(***************************************************************************)

States == {"in_progress", "complete", "failed", "stale"}

\* States that end the processing of a request.
FinalStates == {"complete", "failed"}

\* Mutation: an expired request is finished by a late task.
AllowedFromStale ==
    [in_progress |-> {"in_progress"},
     complete    |-> {"in_progress", "stale"},
     failed      |-> {"in_progress"},
     stale       |-> {"complete", "failed", "in_progress"}]

\* to_state: from_states
AllowedFrom ==
    [in_progress |-> {"in_progress"},
     complete    |-> {"in_progress"},
     failed      |-> {"in_progress"},
     stale       |-> {"complete", "failed", "in_progress"}]

\* Mutation: the target is not looked up, only a stale request refuses a change.
AllowTransitionUnlessStale(from, to) == from # "stale"

\* A state name that is not one of States is never a legal target.
AllowTransition(from, to) == to \in States /\ from \in AllowedFrom[to]

=============================================================================
