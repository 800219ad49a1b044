SPECIFICATION Spec
CONSTANTS
  Top = 3
  Width = 2
  Radix = 2
  Space = 2
  Weight <- MCWeight
  Layouts <- MCLayouts
  Domain <- MCDomain
  Bounds <- MCBounds
  Null = Null
  Nil = Nil
  MaxRanges = 2
INVARIANTS
  KeysOrdered
  
CHECK_DEADLOCK FALSE
