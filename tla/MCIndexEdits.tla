---------------------------- MODULE MCIndexEdits ----------------------------
EXTENDS IndexEdits, TLC

\* Sessions, tables and primary keys are only compared for equality.
Symmetry == Permutations(Sessions) \cup Permutations(Tables) \cup Permutations(Keys)
=============================================================================
