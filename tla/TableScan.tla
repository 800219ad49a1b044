----------------------------- MODULE TableScan -----------------------------
(***************************************************************************)
(* Reading and writing one table: the rows of its Prolly tree, below the    *)
(* journal's pending edits, below the edits of the open transaction         *)
(* (tableState in engine/catalog.go, the cursors of engine/ranges.go), and  *)
(* the checkpoints and merges that rebuild the tree (engine.go, merge.go).  *)
(*                                                                         *)
(* A scan is a lazy iterator: between two of its rows its statement may     *)
(* edit the table, and an index lookup may materialize every row.           *)
(***************************************************************************)
EXTENDS Prolly, PendingRows

CONSTANTS
  Keys,        \* a set of numbers above 0
  Values,      \* rows that edits write, numbers above 1
  Bases,       \* sets of the keys of the table's first rows
  Journals,    \* the edits of an earlier transaction, as sequences
  CutSets,     \* sets of the keys whose hashes end chunks
  Ranges,      \* what scans ask for: sequences of intervals, [start, end)
  Midscan,     \* whether rows are materialized under an open scan
  Nil,
  MaxEdits,    \* bound on row edits, merged ones included
  MaxTx        \* bound on transactions and checkpoints

ASSUME TableAssumption ==
  /\ Keys \subseteq Nat \ {0} /\ Values \subseteq Nat \ {0, 1}
  /\ Gone = 0
  /\ Bases \subseteq SUBSET Keys /\ CutSets \subseteq SUBSET Keys
  /\ Midscan \in BOOLEAN
  /\ MaxEdits \in Nat /\ MaxTx \in Nat

VARIABLES
  cuts,       \* the keys whose hashes end chunks
  root,       \* the checkpointed tree, or NoTree
  base,       \* its rows, as a map
  pending,    \* the journal's edits since the checkpoint
  committed,  \* the rows after them
  edits,      \* the transaction's own edits
  rows,       \* every row, once materialized, or Nil
  scan,       \* the open scan, or Nil
  edited, txs

vars == <<cuts, root, base, pending, committed, edits, rows, scan, edited, txs>>

-----------------------------------------------------------------------------
(* The transaction's view.                                                  *)

\* A map of rows after some edits.
Overlaid(map, over) ==
  LET all == over @@ map
  IN [k \in {x \in DOMAIN all : all[x] # Gone} |-> all[k]]

AsMap(seq) == [k \in {e.key : e \in ToSet(seq)} |->
                 (CHOOSE e \in ToSet(seq) : e.key = k).row]

\* ensureRows: the tree's rows, then the winning edits (forEachEdit).
Materialized ==
  LET stored == IF root = NoTree THEN <<>> ELSE Entries(root)
      overlay == SelectSeq(Drain(Iter(pending, 0, 0, FALSE)), LAMBDA e : e.key \notin DOMAIN edits)
  IN Overlaid([k \in {e.key : e \in ToSet(stored)} |->
                 (CHOOSE e \in ToSet(stored) : e.key = k).value],
              edits @@ AsMap(overlay))

\* lookupRow: a row of the transaction's view, or Gone.
lookupRow(k) ==
  IF rows # Nil THEN IF k \in DOMAIN rows THEN rows[k] ELSE Gone
  ELSE IF k \in DOMAIN edits THEN edits[k]
  ELSE IF Get(pending, k) # NoEdit THEN Get(pending, k).row
  ELSE IF root = NoTree THEN Gone
  ELSE TreeGet(root, k)

\* setEdit, for an insert, an update or a delete of an existing row.
SetEdit(k, row) ==
  /\ edited < MaxEdits
  /\ row = Gone => lookupRow(k) # Gone
  /\ edits' = (k :> row) @@ edits
  /\ rows' = IF rows = Nil THEN Nil ELSE Overlaid(rows, k :> row)
  /\ scan' = IF scan = Nil THEN Nil ELSE [scan EXCEPT !.touched = @ \cup {k}]
  /\ edited' = edited + 1
  /\ UNCHANGED <<cuts, root, base, pending, committed, txs>>

EnsureRows ==
  /\ rows = Nil
  /\ scan # Nil => Midscan
  /\ rows' = Materialized
  /\ scan' = IF scan = Nil THEN Nil ELSE [scan EXCEPT !.cut = TRUE]
  /\ UNCHANGED <<cuts, root, base, pending, committed, edits, edited, txs>>

-----------------------------------------------------------------------------
(* Transactions, checkpoints and merges.                                    *)

\* The journal takes the transaction's edits.
Commit ==
  /\ scan = Nil /\ edits # <<>> /\ txs < MaxTx
  /\ pending' = with(pending, [i \in 1..Cardinality(DOMAIN edits) |->
       LET k == SetToSeq(DOMAIN edits)[i] IN [key |-> k, row |-> edits[k]]])
  /\ committed' = Overlaid(committed, edits)
  /\ edits' = <<>> /\ rows' = Nil
  /\ txs' = txs + 1
  /\ UNCHANGED <<cuts, root, base, scan, edited>>

Rollback ==
  /\ edits # <<>> \/ rows # Nil
  /\ edits' = <<>> /\ rows' = Nil /\ scan' = Nil
  /\ UNCHANGED <<cuts, root, base, pending, committed, edited, txs>>

\* The edits of the journal as edits of a tree.
TreeEdits ==
  LET all == Drain(Iter(pending, 0, 0, FALSE))
  IN [i \in 1..Len(all) |->
        [key |-> all[i].key, value |-> all[i].row, delete |-> all[i].row = Gone]]

\* checkpointTypedEdits, with no transaction open.
Checkpoint ==
  /\ scan = Nil /\ edits = <<>> /\ rows = Nil
  /\ pending # Empty /\ txs < MaxTx
  /\ root' = IF root # NoTree THEN Apply(root, TreeEdits, cuts)
             ELSE Build(Sorted(Overlaid(<<>>, AsMap(Drain(Iter(pending, 0, 0, FALSE))))), cuts)
  /\ pending' = Empty
  /\ base' = committed
  /\ txs' = txs + 1
  /\ UNCHANGED <<cuts, committed, edits, rows, scan, edited>>

\* A merge takes another clone's version of a row: every row of the result
\* passes through a SortedBuilder.
MergeTable(k, row) ==
  LET merged == Overlaid(base, k :> row)
      entries == Sorted(merged)
  IN /\ scan = Nil /\ edits = <<>> /\ rows = Nil
     /\ pending = Empty /\ root # NoTree
     /\ edited < MaxEdits /\ txs < MaxTx
     /\ edited' = edited + 1
     /\ root' = Finish(FoldLeft(LAMBDA b, e : Add(b, e, cuts), NewSortedBuilder, entries), cuts)
     /\ base' = merged /\ committed' = merged
     /\ txs' = txs + 1
     /\ UNCHANGED <<cuts, pending, edits, rows, scan>>

-----------------------------------------------------------------------------
(* Scans.                                                                   *)

\* An interval [start, end); an end of 0 is unbounded.
contains(iv, k) == iv.start <= k /\ (iv.end = 0 \/ k < iv.end)

before(a, b, reverse) == IF reverse THEN a > b ELSE a < b

sortedOverlayKeys(keys, iv, reverse) ==
  SetToSortSeq({k \in keys : contains(iv, k)}, LAMBDA a, b : before(a, b, reverse))

scanOrder(intervals, reverse) == IF reverse THEN Reverse(intervals) ELSE intervals

\* rowOverlayCursor: the transaction's edited keys when the interval was
\* opened, and the journal's edits.
newRowOverlayCursor(iv, reverse) ==
  LET n == PendingNext(Iter(pending, iv.start, iv.end, reverse))
  IN [local |-> sortedOverlayKeys(DOMAIN edits, iv, reverse), it |-> n.it, row |-> n.edit]

\* Whether the next edit of the overlay is the transaction's.
LocalFirst(c, reverse) ==
  /\ c.local # <<>>
  /\ c.row = NoEdit \/ ~before(c.row.key, Head(c.local), reverse)

\* The key of the next edit, or 0.
peek(c, reverse) == IF LocalFirst(c, reverse) THEN Head(c.local) ELSE c.row.key

\* rowOverlayCursor.advance: past the next edit, whose row is as it is now.
advanceOverlay(c, reverse) ==
  LET n == PendingNext(c.it)
      past == [c EXCEPT !.it = n.it, !.row = n.edit]
  IN IF LocalFirst(c, reverse)
     THEN [edit |-> edits[Head(c.local)],
           c |-> [(IF Head(c.local) = c.row.key THEN past ELSE c) EXCEPT !.local = Tail(@)]]
     ELSE [edit |-> c.row.row, c |-> past]

\* mergedEntries: a tree's entries merged with an overlay in one interval.
advanceTree(m, reverse) ==
  LET n == TreeNext(m.tree)
      inside == IF reverse THEN n.entry.key >= m.iv.start
                ELSE m.iv.end = 0 \/ n.entry.key < m.iv.end
  IN [m EXCEPT !.tree = n.it, !.next = IF inside THEN n.entry ELSE NoEntry]

newMergedEntries(iv, reverse) ==
  LET it == NewIterator(reverse)
      m == [iv |-> iv, overlay |-> newRowOverlayCursor(iv, reverse), next |-> NoEntry,
            tree |-> IF root = NoTree THEN [it EXCEPT !.done = TRUE]
                     ELSE IF reverse THEN seekBelow(it, root, iv.end)
                     ELSE seekTo(it, root, iv.start)]
  IN advanceTree(m, reverse)

\* Seeded fault: a tree entry with the key of an edit is not passed over.
MergedNextKeepsTree(m, reverse) ==
  LET key == peek(m.overlay, reverse)
      over == advanceOverlay(m.overlay, reverse)
  IN IF key = 0 /\ m.next = NoEntry THEN [m |-> m, key |-> 0, row |-> Gone]
     ELSE IF key # 0 /\ (m.next = NoEntry \/ ~before(m.next.key, key, reverse))
     THEN [m |-> [m EXCEPT !.overlay = over.c], key |-> key, row |-> over.edit]
     ELSE [m |-> advanceTree(m, reverse), key |-> m.next.key, row |-> m.next.value]

\* mergedEntries.next: the next key with its row, Gone when the overlay deletes
\* it; key 0 at the end.
MergedNext(m, reverse) ==
  LET key == peek(m.overlay, reverse)
      over == advanceOverlay(m.overlay, reverse)
      took == [m EXCEPT !.overlay = over.c]
  IN IF key = 0 /\ m.next = NoEntry THEN [m |-> m, key |-> 0, row |-> Gone]
     ELSE IF key # 0 /\ (m.next = NoEntry \/ ~before(m.next.key, key, reverse))
     THEN [m |-> IF m.next # NoEntry /\ m.next.key = key THEN advanceTree(took, reverse) ELSE took,
           key |-> key, row |-> over.edit]
     ELSE [m |-> advanceTree(m, reverse), key |-> m.next.key, row |-> m.next.value]

RECURSIVE Streamed(_)

\* The next row of a streaming primaryRowIter: deleted rows are skipped, and an
\* interval that has ended gives way to the next.
Streamed(s) ==
  IF s.cur = Nil
  THEN IF s.next > Len(s.intervals) THEN [s |-> s, key |-> 0, row |-> Gone]
       ELSE Streamed([s EXCEPT !.next = @ + 1,
                        !.cur = newMergedEntries(s.intervals[s.next], s.reverse)])
  ELSE LET n == MergedNext(s.cur, s.reverse)
           moved == [s EXCEPT !.cur = IF n.key = 0 THEN Nil ELSE n.m]
       IN IF n.row = Gone THEN Streamed(moved)
          ELSE [s |-> moved, key |-> n.key, row |-> n.row]

\* primaryRowIter.Next; out of materialized rows once there are any.
IterNext(s) ==
  IF rows = Nil THEN Streamed(s)
  ELSE IF s.next > Len(s.keys) THEN [s |-> s, key |-> 0, row |-> Gone]
  ELSE LET k == s.keys[s.next]
       IN [s |-> [s EXCEPT !.next = @ + 1], key |-> k,
           row |-> IF k \in DOMAIN rows THEN rows[k] ELSE Gone]

\* The rows that a range asks for, in the order of its scan.
Answer(range, reverse) ==
  LET view == Overlaid(committed, edits)
      keys == {k \in DOMAIN view : \E i \in 1..Len(range) : contains(range[i], k)}
      order == SetToSortSeq(keys, LAMBDA a, b : before(a, b, reverse))
  IN [i \in 1..Len(order) |-> [key |-> order[i], row |-> view[order[i]]]]

\* newPrimaryRowIter.
OpenScan(range, reverse) ==
  LET order == scanOrder(range, reverse)
  IN /\ scan = Nil
     /\ scan' = [intervals |-> order, reverse |-> reverse, next |-> 1, cur |-> Nil,
                 keys |-> IF rows = Nil THEN <<>>
                          ELSE FlattenSeq([i \in 1..Len(order) |->
                                 sortedOverlayKeys(DOMAIN rows, order[i], reverse)]),
                 answer |-> Answer(range, reverse), out |-> <<>>, touched |-> {},
                 cut |-> FALSE, done |-> FALSE]
     /\ UNCHANGED <<cuts, root, base, pending, committed, edits, rows, edited, txs>>

ScanNext ==
  /\ scan # Nil /\ ~scan.done
  /\ LET n == IterNext(scan)
     IN scan' = [n.s EXCEPT !.done = n.key = 0,
                            !.out = IF n.key = 0 THEN @ ELSE Append(@, [key |-> n.key, row |-> n.row])]
  /\ UNCHANGED <<cuts, root, base, pending, committed, edits, rows, edited, txs>>

\* At the end, or earlier (LIMIT).
CloseScan ==
  /\ scan # Nil
  /\ scan' = Nil
  /\ UNCHANGED <<cuts, root, base, pending, committed, edits, rows, edited, txs>>

-----------------------------------------------------------------------------

\* A table without a tree, or one that a checkpoint built, and what an earlier
\* transaction left in the journal.
Init ==
  /\ cuts \in CutSets
  /\ \E keys \in Bases : base = [k \in keys |-> 1]
  /\ root \in {Build(Sorted(base), cuts)} \cup (IF base = <<>> THEN {NoTree} ELSE {})
  /\ \E first \in Journals :
       /\ pending = with(Empty, first)
       /\ committed = Overlaid(base, AsMap(first))
  /\ edits = <<>> /\ rows = Nil /\ scan = Nil
  /\ edited = 0 /\ txs = 0

Next ==
  \/ \E k \in Keys, row \in Values \cup {Gone} : SetEdit(k, row)
  \/ EnsureRows
  \/ Commit
  \/ Rollback
  \/ Checkpoint
  \/ \E k \in Keys, row \in Values \cup {Gone} : MergeTable(k, row)
  \/ \E range \in Ranges, reverse \in BOOLEAN : OpenScan(range, reverse)
  \/ ScanNext
  \/ CloseScan

Spec == Init /\ [][Next]_vars

-----------------------------------------------------------------------------
(* Properties.                                                              *)


\* A lookup through tree, runs and own edits, or in the materialized rows, finds
\* the row that the committed edits and the transaction's own leave.
ReadsExact ==
  LET view == Overlaid(committed, edits)
  IN /\ \A k \in Keys : lookupRow(k) = IF k \in DOMAIN view THEN view[k] ELSE Gone
     /\ rows # Nil => rows = view

Untouched(seq) == SelectSeq(seq, LAMBDA r : r.key \notin scan.touched)

\* A scan returns the rows of its range, each once and in order; what its
\* statement edits meanwhile disturbs no other row.
ScanExact ==
  scan # Nil =>
    /\ IsPrefix(Untouched(scan.out), Untouched(scan.answer))
    /\ \A i \in 2..Len(scan.out) :
         before(scan.out[i-1].key, scan.out[i].key, scan.reverse)
    /\ scan.done /\ ~scan.cut => Untouched(scan.out) = Untouched(scan.answer)

\* "A full scan streams every row in primary-key order" (partitionRows).
FullScanComplete ==
  scan # Nil /\ scan.done => Untouched(scan.out) = Untouched(scan.answer)
=============================================================================
