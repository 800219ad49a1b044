SPECIFICATION Spec
CONSTANTS
  Tables = {t1}
  Keys = {k1, k2}
  NoTable = NoTable
  Absent = Absent
  Null = Null
  Clones = {c1, c2}
  Remotes = {r1}
  Procs = {p1}
  EditKinds = {"put", "delete", "schema", "drop"}
  IndexKeys = {u1}
  Options = {FALSE}
  Nil = Nil
  MaxEdits = 3
  MaxFaults = 0
SYMMETRY Symmetry
INVARIANTS
  HistoryUnique
  NothingLost
  
