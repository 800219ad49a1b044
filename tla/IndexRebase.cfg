SPECIFICATION Spec
CONSTANTS
  Sessions = {s1, s2}
  Tables = {t1}
  Keys = {k1, k2}
  Values = {v1}
  Null = Null
  Absent = Absent
  NoEdit = NoEdit
  Deleted = Deleted
  Nil = Nil
  IndexNames = {"u", "n"}
  Unique = {"u"}
  Alters = {}
  Ignoring = FALSE
  MaxGeneration = 2
  MaxCommit = 2
  MaxOps = 3
  MaxRows = 1
  MaxTx = 3
INVARIANT RebasedEditsRight
CHECK_DEADLOCK FALSE
