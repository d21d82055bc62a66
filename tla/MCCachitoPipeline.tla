-------------------------- MODULE MCCachitoPipeline --------------------------
(* Instances of CachitoPipeline for TLC. *)
EXTENDS CachitoPipeline, TLC

\* Each PATCH step gives its own reason.
TaskReasons == PatchSteps \cup {"error", "expired"}

\* Only for runs without liveness properties.
Symmetry == Permutations(Handlers) \cup Permutations(Workers)
=============================================================================
