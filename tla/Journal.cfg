SPECIFICATION Spec
CONSTANTS
  Procs = {p1, p2}
  Publishers = {p1, p2}
  Kinds = {"typed-prepare"}
  PrepareSizes = {4}
  Inodes = {i1, i2}
  Faults = {"append", "ref", "compaction", "power"}
  Levels = {"full", "off"}
  Nil = Nil
  MaxTx = 2
  MaxCommit = 2
SYMMETRY Symmetry
INVARIANTS
  TypeOK
  ReplayAgrees
  AckedSurvives
  RecoveryTruthful
  RecordsInOrder
