---------------------------- MODULE MCRequestApi ----------------------------
(* Instances of RequestApi for TLC. *)
EXTENDS RequestApi, TLC

Symmetry == Permutations(Handlers)
=============================================================================
