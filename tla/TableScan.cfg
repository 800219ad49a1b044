SPECIFICATION Spec
CONSTANTS
  MinChunkEntries = 2
  MaxChunkEntries = 3
  Gone = 0
  Keys = {1, 2, 3, 4, 5}
  Values = {2}
  Bases <- MCBases
  Journals <- MCJournals
  CutSets <- MCCutSets
  Ranges <- MCRanges
  Midscan = TRUE
  Nil = Nil
  MaxEdits = 2
  MaxTx = 2
INVARIANTS
  
  ReadsExact
  ScanExact
CHECK_DEADLOCK FALSE
