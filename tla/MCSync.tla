------------------------------- MODULE MCSync -------------------------------
(* Sync for TLC. *)
EXTENDS Sync, TLC

Symmetry == Permutations(Clones) \cup Permutations(Procs) \cup Permutations(Keys)
=============================================================================
