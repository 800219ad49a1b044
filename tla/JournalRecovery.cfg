SPECIFICATION Spec
CONSTANTS
  Procs = {p1, p2}
  Publishers = {}
  Kinds = {"typed-prepare", "prepare"}
  PrepareSizes = {2}
  Inodes = {i1, i2}
  Faults = {"compaction"}
  Levels = {"full"}
  Nil = Nil
  MaxTx = 3
  MaxCommit = 3
SYMMETRY Symmetry
INVARIANTS
  ReplayAgrees
  
  RecoveryTruthful
 
