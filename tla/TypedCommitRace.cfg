SPECIFICATION Spec
CONSTANTS
  Tx = {x1, x2}
  Tables = {t1}
  Keys = {k1, k2}
  Values = {v1}
  Null = Null
  Absent = Absent
  NoEdit = NoEdit
  NoLog = NoLog
  MaxGeneration = 2
  MaxCommit = 2
PROPERTY CheckpointKeepsWorkingState
