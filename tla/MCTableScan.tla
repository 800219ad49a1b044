---- MODULE MCTableScan ----
EXTENDS TableScan

MCRanges ==
  {<<[start |-> 0, end |-> 0]>>, <<[start |-> 0, end |-> 2], [start |-> 3, end |-> 5]>>}
MCCutSets == {{2, 4}, Keys}
MCBases == {{}, Keys}
MCJournals == {<<>>, <<[key |-> 5, row |-> 3], [key |-> 1, row |-> Gone], [key |-> 3, row |-> 3]>>}
====
