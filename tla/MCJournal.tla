----------------------------- MODULE MCJournal -----------------------------
(* Journal for TLC: processes are interchangeable. *)
EXTENDS Journal, TLC

Symmetry == Permutations(Procs) \cup Permutations(Inodes)
=============================================================================
