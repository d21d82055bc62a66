---------------------------- MODULE MCScmArchive ----------------------------
(* Instances of ScmArchive for TLC. *)
EXTENDS ScmArchive, TLC

Symmetry == Permutations(Fetchers) \cup Permutations(Commits)

=============================================================================
