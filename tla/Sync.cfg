SPECIFICATION Spec
CONSTANTS
  Tables = {t1}
  Keys = {k1}
  NoTable = NoTable
  Absent = Absent
  Null = Null
  Clones = {c1, c2}
  Remotes = {r1}
  Procs = {p1, p2}
  EditKinds = {"put"}
  IndexKeys = {}
  Options = {FALSE, TRUE}
  Nil = Nil
  MaxEdits = 2
  MaxFaults = 1
SYMMETRY Symmetry
INVARIANTS
  TypeOK
  JournalBased
PROPERTY HeadsAdvance
