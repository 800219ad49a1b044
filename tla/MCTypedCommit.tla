--------------------------- MODULE MCTypedCommit ---------------------------
(* TypedCommit on small instances. *)
EXTENDS TypedCommit, TLC

Symmetry == Permutations(Tx) \cup Permutations(Keys) \cup Permutations(Values)
=============================================================================
