SPECIFICATION Spec
CONSTANTS
  Sessions = {s1, s2}
  Tables = {t1, t2}
  Keys = {k1, k2}
  Values = {v1}
  Null = Null
  Absent = Absent
  NoEdit = NoEdit
  Deleted = Deleted
  Nil = Nil
  IndexNames = {"u", "n"}
  Unique = {"u"}
  Alters = {"create", "drop", "modify"}
  Ignoring = FALSE
  MaxGeneration = 2
  MaxCommit = 2
  MaxOps = 2
  MaxRows = 1
  MaxTx = 3
SYMMETRY Symmetry
INVARIANTS
  IndexesExact
  CacheExact
  UndoExact
  UniqueHolds
  TreesExact
CHECK_DEADLOCK FALSE
