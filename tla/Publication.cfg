SPECIFICATION Spec
CONSTANTS
  Threads = {a, b}
  Tables = {t1, t2}
  Versions = {v1}
  Nil = Nil
  Kinds = {"native", "checkpoint"}
  Faults = {"git", "interrupt", "resolve", "crash"}
  MaxOps = 3
  MaxFaults = 1
  Times = {1}
INVARIANTS
  TypeOK
  HeadFresh
  CommittedIsPublished
  RecoveryFinds
  DataComplete
PROPERTIES
  NothingOverwritten
  RecoverySettles
  EveryCommitEnds
CHECK_DEADLOCK FALSE
