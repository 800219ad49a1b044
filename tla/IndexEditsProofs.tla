-------------------------- MODULE IndexEditsProofs --------------------------
(***************************************************************************)
(* What IndexEdits promises for every number of sessions, tables, keys,     *)
(* values and indexes: index trees updated in place by a checkpoint are the  *)
(* trees a rebuild gives, and a statement can be undone at any point.        *)
(***************************************************************************)
EXTENDS IndexEdits, TLAPS

-----------------------------------------------------------------------------
(* Index trees of a checkpoint.                                             *)

\* No two rows share a key of an index of the schema.
NoDuplicates(sch, rows) == \A i \in Indexes(sch) : ~Duplicate(sch, i, rows)

\* What is published: the trees are those of the rows, of which no two collide.
DiskExact ==
  \A t \in Tables :
    /\ disk[t].trees = Rebuilt(disk[t].schema, disk[t].rows)
    /\ NoDuplicates(disk[t].schema, disk[t].rows)

\* An index key leads to the one row that has it.
LEMMA IndexOfRow ==
  ASSUME NEW sch, NEW i, NEW rows, ~Duplicate(sch, i, rows),
         NEW k \in Present(rows)
  PROVE  LET e == encodeIndexKey(sch, i, k, rows[k])
         IN  /\ e \in DOMAIN IndexOf(sch, i, rows)
             /\ IndexOf(sch, i, rows)[e] = k
<1> DEFINE key(l) == encodeIndexKey(sch, i, l, rows[l])
           S == Present(rows)
<1>1. \A l \in S : key(l) = key(k) => l = k
  BY DEF Duplicate
<1>2. IndexOf(sch, i, rows) = [e \in {key(l) : l \in S} |-> CHOOSE l \in S : key(l) = e]
  BY DEF IndexOf
<1>3. (CHOOSE l \in S : key(l) = key(k)) = k
  BY <1>1
<1> HIDE DEF key, S
<1>4. key(k) \in {key(l) : l \in S}
  BY DEF S
<1>5. IndexOf(sch, i, rows)[key(k)] = k
  BY <1>2, <1>3, <1>4
<1> QED
  BY <1>2, <1>4, <1>5 DEF key

\* Every entry of an index is the entry of a row.
LEMMA IndexOfKeys ==
  ASSUME NEW sch, NEW i, NEW rows
  PROVE  \A e \in DOMAIN IndexOf(sch, i, rows) :
           \E k \in Present(rows) : e = encodeIndexKey(sch, i, k, rows[k])
BY DEF IndexOf

\* The derived edits, applied to the index of the old rows, give the index of the
\* new ones: additions win over removals, and neither hides an entry that stays.
LEMMA DerivedEditsExact ==
  ASSUME NEW table, NEW sch, NEW i, NEW edits,
         ~Duplicate(sch, i, table.rows),
         ~Duplicate(sch, i, Patched(table.rows, edits))
  PROVE  Applied(IndexOf(sch, i, table.rows), deriveIndexEdits(table, sch, i, edits))
           = IndexOf(sch, i, Patched(table.rows, edits))
<1> DEFINE R == table.rows
           N == Patched(R, edits)
           K(k, v) == encodeIndexKey(sch, i, k, v)
           edited == {k \in Keys : edits[k] # NoEdit}
           moved == {k \in edited : R[k] # edits[k]}
           removed == {K(k, R[k]) : k \in {k \in moved : R[k] # Absent}}
           added == {k \in moved : edits[k] # Absent}
           come == {K(k, edits[k]) : k \in added}
           view == deriveIndexEdits(table, sch, i, edits)
           tree == IndexOf(sch, i, R)
           new == IndexOf(sch, i, N)
<1>1. view = [e \in removed \cup come |->
                IF \E k \in added : K(k, edits[k]) = e
                THEN CHOOSE k \in added : K(k, edits[k]) = e ELSE Deleted]
  BY DEF deriveIndexEdits
<1>2. \A k \in Keys : N[k] = IF edits[k] = NoEdit THEN R[k] ELSE edits[k]
  BY DEF Patched
<1>3. \A k, l \in Keys : R[k] # Absent /\ R[l] # Absent /\ K(k, R[k]) = K(l, R[l]) => k = l
  BY DEF Duplicate, Present
<1>4. \A k, l \in Keys : N[k] # Absent /\ N[l] # Absent /\ K(k, N[k]) = K(l, N[l]) => k = l
  BY DEF Duplicate, Present
<1>5. \A k \in added : k \in Keys /\ N[k] = edits[k] /\ N[k] # Absent
  BY <1>2
<1>6. \A k \in Keys : k \notin moved => N[k] = R[k]
  BY <1>2
<1>7. \A k \in Keys : R[k] # Absent => K(k, R[k]) \in DOMAIN tree /\ tree[K(k, R[k])] = k
  BY IndexOfRow DEF Present
<1>8. \A k \in Keys : N[k] # Absent => K(k, N[k]) \in DOMAIN new /\ new[K(k, N[k])] = k
  BY IndexOfRow DEF Present
<1>9. \A e \in DOMAIN tree : \E k \in Keys : R[k] # Absent /\ e = K(k, R[k])
  BY IndexOfKeys DEF Present
<1>10. \A e \in DOMAIN new : \E k \in Keys : N[k] # Absent /\ e = K(k, N[k])
  BY IndexOfKeys DEF Present
<1>11. Deleted \notin Keys
  BY IndexAssumption
<1>12. new = [e \in DOMAIN new |-> new[e]]
  BY DEF IndexOf
<1>m. \A k \in Keys : k \in moved => k \in edited /\ R[k] # edits[k]
  OBVIOUS
<1>r. \A e \in removed : \E k \in moved : R[k] # Absent /\ e = K(k, R[k])
  OBVIOUS
<1>s. \A k \in moved : R[k] # Absent => K(k, R[k]) \in removed
  OBVIOUS
<1>c. \A e \in come : \E k \in added : e = K(k, edits[k])
  OBVIOUS
<1>d. \A k \in added : K(k, edits[k]) \in come
  OBVIOUS
<1>a. \A k \in moved : N[k] # Absent => k \in added
  BY <1>2
<1>k. moved \subseteq Keys /\ added \subseteq moved
  OBVIOUS
<1>13. ASSUME NEW k \in added
       PROVE  /\ K(k, edits[k]) \in DOMAIN view
              /\ view[K(k, edits[k])] = k
  <2> HIDE DEF K, N
  <2>1. \A l \in added : K(l, edits[l]) = K(k, edits[k]) => l = k
    BY <1>4, <1>5
  <2>2. (CHOOSE l \in added : K(l, edits[l]) = K(k, edits[k])) = k
    BY <2>1
  <2> HIDE DEF view, added, come, removed
  <2> QED
    BY <1>1, <1>d, <2>2
<1> HIDE DEF R, N, K, edited, moved, removed, added, come, view, tree, new
<1>14. \A e \in DOMAIN view : e \notin come => view[e] = Deleted
  BY <1>1, <1>d DEF come
<1>15. DOMAIN view = removed \cup come
  BY <1>1
\* An entry of a row that did not move is not edited.
<1>16. ASSUME NEW k \in Keys, k \notin moved, N[k] # Absent
       PROVE  K(k, N[k]) \notin DOMAIN view
  <2>1. K(k, N[k]) \notin come
    BY <1>16, <1>c, <1>5, <1>4, <1>k
  <2>2. K(k, N[k]) \notin removed
    BY <1>16, <1>r, <1>6, <1>3, <1>k
  <2> QED
    BY <2>1, <2>2, <1>15
<1> DEFINE D == {e \in DOMAIN tree \cup DOMAIN view : e \in DOMAIN view => view[e] # Deleted}
<1>17. ASSUME NEW e \in DOMAIN new
       PROVE  e \in D /\ new[e] = (IF e \in DOMAIN view THEN view[e] ELSE tree[e])
  <2>1. PICK k \in Keys : N[k] # Absent /\ e = K(k, N[k])
    BY <1>17, <1>10
  <2>2. CASE k \in moved
    <3>1. k \in added /\ N[k] = edits[k]
      BY <2>1, <2>2, <1>a, <1>5
    <3>2. e \in DOMAIN view /\ view[e] = k
      BY <3>1, <2>1, <1>13
    <3> QED
      BY <3>2, <2>1, <1>8, <1>11
  <2>3. CASE k \notin moved
    <3>1. e \notin DOMAIN view
      BY <2>1, <2>3, <1>16
    <3>2. e \in DOMAIN tree /\ tree[e] = k
      BY <2>1, <2>3, <1>6, <1>7
    <3> QED
      BY <3>1, <3>2, <2>1, <1>8
  <2> QED
    BY <2>2, <2>3
<1>18. ASSUME NEW e \in D
       PROVE  e \in DOMAIN new
  <2>1. CASE e \in DOMAIN view
    <3>1. PICK k \in added : e = K(k, edits[k])
      BY <1>18, <2>1, <1>14, <1>c
    <3> QED
      BY <3>1, <1>5, <1>8
  <2>2. CASE e \notin DOMAIN view
    <3>1. PICK k \in Keys : R[k] # Absent /\ e = K(k, R[k])
      BY <1>18, <2>2, <1>9
    <3>2. k \notin moved
      BY <3>1, <2>2, <1>s, <1>15
    <3> QED
      BY <3>1, <3>2, <1>6, <1>8
  <2> QED
    BY <2>1, <2>2
<1>19. D = DOMAIN new
  BY <1>17, <1>18
<1>20. Applied(tree, view) = [e \in D |-> IF e \in DOMAIN view THEN view[e] ELSE tree[e]]
  BY DEF Applied
<1> HIDE DEF D
<1>21. Applied(tree, view) = new
  BY <1>20, <1>19, <1>17, <1>12
<1> QED
  BY <1>21 DEF tree, view, new, N, R

\* The checkpoint of a table whose rows hold no duplicate unique key writes exactly the index
\* trees a rebuild from its rows would write, whether it derived edits or rebuilt.
LEMMA CheckpointedExact ==
  ASSUME DiskExact, NEW t \in Tables,
         NoDuplicates(schema[t], Patched(disk[t].rows, pending[t]))
  PROVE  /\ Checkpointed(t).trees = Rebuilt(Checkpointed(t).schema, Checkpointed(t).rows)
         /\ NoDuplicates(Checkpointed(t).schema, Checkpointed(t).rows)
<1> DEFINE rows == Patched(disk[t].rows, pending[t])
           sch == schema[t]
           derived(i) == deriveIndexEdits(disk[t], sch, i, pending[t])
<1>1. CASE Untouched(t)
  BY <1>1 DEF Checkpointed, DiskExact
<1>2. CASE ~Untouched(t)
  <2>1. /\ Checkpointed(t).schema = sch
        /\ Checkpointed(t).rows = rows
        /\ Checkpointed(t).trees = checkpointIndexTrees(t, rows)
    BY <1>2 DEF Checkpointed
  <2>2. checkpointIndexTrees(t, rows) = Rebuilt(sch, rows)
    <3>1. CASE ~usable(t) \/ Present(rows) = {}
      BY <3>1 DEF checkpointIndexTrees
    <3>2. CASE usable(t) /\ Present(rows) # {}
      <4>1. disk[t].schema = sch /\ Indexes(sch) \subseteq DOMAIN disk[t].trees
        BY <3>2 DEF usable
      <4>2. ASSUME NEW i \in Indexes(sch)
            PROVE  Applied(disk[t].trees[i], derived(i)) = IndexOf(sch, i, rows)
        <5>1. Rebuilt(sch, disk[t].rows) = disk[t].trees
          BY <4>1 DEF DiskExact
        <5>2. i \in DOMAIN Rebuilt(sch, disk[t].rows)
          BY <4>1, <5>1
        <5>3. Present(disk[t].rows) # {}
          BY <5>2 DEF Rebuilt, Empty
        <5>4. disk[t].trees[i] = IndexOf(sch, i, disk[t].rows)
          BY <5>1, <5>3 DEF Rebuilt
        <5>5. ~Duplicate(sch, i, disk[t].rows) /\ ~Duplicate(sch, i, rows)
          BY <4>1 DEF DiskExact, NoDuplicates
        <5> QED
          BY <5>4, <5>5, DerivedEditsExact
      <4>3. checkpointIndexTrees(t, rows)
              = [i \in Indexes(sch) |-> Applied(disk[t].trees[i], derived(i))]
        BY <3>2 DEF checkpointIndexTrees
      <4>4. Rebuilt(sch, rows) = [i \in Indexes(sch) |-> IndexOf(sch, i, rows)]
        BY <3>2 DEF Rebuilt
      <4> HIDE DEF rows, sch, derived
      <4> QED
        BY <4>2, <4>3, <4>4
    <3> QED
      BY <3>1, <3>2
  <2> QED
    BY <2>1, <2>2
<1> QED
  BY <1>1, <1>2

\* The tables on disk are exact at the start.
LEMMA DiskExactInit == Init => DiskExact
<1> SUFFICES ASSUME Init PROVE DiskExact
  OBVIOUS
<1>1. PICK rows \in [Tables -> [Keys -> Cells \cup {Absent}]] :
        /\ \A t \in Tables : \A i \in Indexes(schema[t]) : ~Duplicate(schema[t], i, rows[t])
        /\ disk = [t \in Tables |-> [schema |-> schema[t], rows |-> rows[t],
                                     trees |-> Rebuilt(schema[t], rows[t])]]
  BY DEF Init
<1> QED
  BY <1>1 DEF DiskExact, NoDuplicates

\* Only Checkpoint writes the tables on disk, and it writes exact ones.
LEMMA DiskExactNext == DiskExact /\ [Next]_vars => DiskExact'
<1> SUFFICES ASSUME DiskExact, [Next]_vars PROVE DiskExact'
  OBVIOUS
<1>1. CASE Checkpoint
  <2>1. disk' = [t \in Tables |-> Checkpointed(t)]
    BY <1>1 DEF Checkpoint
  <2>2. \A t \in Tables : NoDuplicates(schema[t], Patched(disk[t].rows, pending[t]))
    BY <1>1 DEF Checkpoint, NoDuplicates
  <2>3. \A t \in Tables :
          /\ disk'[t].trees = Rebuilt(disk'[t].schema, disk'[t].rows)
          /\ NoDuplicates(disk'[t].schema, disk'[t].rows)
    BY <2>1, <2>2, CheckpointedExact
  <2> QED
    BY <2>3 DEF DiskExact
<1>2. CASE UNCHANGED disk
  BY <1>2 DEF DiskExact
<1>3. Checkpoint \/ UNCHANGED disk
  <2>1. ASSUME NEW s \in Sessions, NEW k \in Keys
        PROVE  Delete(s, k) => UNCHANGED shared
    BY DEF Delete, RowOp
  <2>2. ASSUME NEW s \in Sessions, NEW k \in Keys, NEW v \in Cells
        PROVE  Insert(s, k, v) => UNCHANGED shared
    BY DEF Insert, RowOp
  <2>3. ASSUME NEW s \in Sessions, NEW k \in Keys, NEW l \in Keys, NEW v \in Cells
        PROVE  Update(s, k, l, v) => UNCHANGED shared
    BY DEF Update, RowOp
  <2>4. ASSUME NEW s \in Sessions, NEW t \in Tables, NEW i \in IndexNames
        PROVE  CreateIndex(s, t, i) \/ DropIndex(s, t, i) => UNCHANGED shared
    BY DEF CreateIndex, DropIndex, Alter
  <2>5. ASSUME NEW s \in Sessions
        PROVE  StartTransaction(s) \/ StatementComplete(s) \/ DiscardChanges(s)
                 \/ EndWithoutCommit(s) => UNCHANGED shared
    BY DEF StartTransaction, StatementComplete, DiscardChanges, EndWithoutCommit
  <2>6. ASSUME NEW s \in Sessions, NEW t \in Tables
        PROVE  Lookup(s, t) \/ StatementBegin(s, t) \/ ModifyColumn(s, t) => UNCHANGED shared
    BY DEF Lookup, StatementBegin, ModifyColumn, Alter
  <2>7. ASSUME NEW s \in Sessions
        PROVE  EndClean(s) \/ (\E stored \in BOOLEAN : CommitTypedEdits(s, stored))
                 => UNCHANGED disk
    BY DEF EndClean, CommitTypedEdits
  <2>8. UNCHANGED vars => UNCHANGED shared
    BY DEF vars
  <2>9. UNCHANGED shared => UNCHANGED disk
    BY DEF shared
  <2> QED
    BY <2>1, <2>2, <2>3, <2>4, <2>5, <2>6, <2>7, <2>8, <2>9 DEF Next
<1> QED
  BY <1>1, <1>2, <1>3

\* A checkpoint that applies derived edits to the index trees publishes the trees
\* a rebuild from the rows would (checkpointIndexTrees, applyIndexEdits): it never
\* merges edits into trees of other rows, whatever transactions committed.
THEOREM TreesExactHolds == Spec => []TreesExact
<1>1. DiskExact => TreesExact
  BY DEF DiskExact, TreesExact
<1> QED
  BY <1>1, DiskExactInit, DiskExactNext, PTL DEF Spec

-----------------------------------------------------------------------------
(* The undo of a statement.                                                 *)

\* What an edit of a key makes of its row, over a snapshot.
Through(snap, t, edit, k) ==
  LET over == IF edit # NoEdit THEN edit ELSE snap.pending[t][k]
  IN  IF over = NoEdit THEN snap.disk[t].rows[k] ELSE over

\* The table of a transaction: its fields, and materialized rows that are the
\* rows its edits make visible.  DDL, behind which no statement runs, is exempt.
TableSound(snap, t, st) ==
  /\ st = [schema |-> st.schema, edits |-> st.edits, rows |-> st.rows, idx |-> st.idx,
           dirty |-> st.dirty, schemaDirty |-> st.schemaDirty]
  /\ st.edits = [k \in Keys |-> st.edits[k]]
  /\ st.rows # Nil /\ ~st.schemaDirty =>
       /\ st.rows = [k \in Keys |-> st.rows[k]]
       /\ \A k \in Keys : st.rows[k] = Through(snap, t, st.edits[k], k)

\* The undo information of a statement: with the first edit and the first row of
\* every key it touched, and the present ones of the others, the table is the one
\* the statement found.
Restores(snap, t, st, stmt) ==
  /\ ~st.schemaDirty
  /\ stmt.seen = [k \in Keys |-> stmt.seen[k]]
  /\ stmt.before = [k \in DOMAIN stmt.before |-> stmt.before[k]]
  /\ \A k \in Keys :
       IF k \in DOMAIN stmt.before
       THEN /\ Through(snap, t, stmt.before[k].edit, k) = stmt.seen[k]
            /\ st.rows # Nil => stmt.before[k].row = stmt.seen[k]
       ELSE /\ Through(snap, t, st.edits[k], k) = stmt.seen[k]
            /\ st.rows # Nil => st.rows[k] = stmt.seen[k]

StmtShape(stmt) ==
  /\ stmt = [table |-> stmt.table, failed |-> stmt.failed, before |-> stmt.before,
             lens |-> stmt.lens, seen |-> stmt.seen]
  /\ stmt.table \in Tables

\* A transaction with every table and its statement sound.
TxSound(x) ==
  /\ x = [snap |-> x.snap, tables |-> x.tables, stmt |-> x.stmt]
  /\ x.tables = [t \in Tables |-> x.tables[t]]
  /\ \A t \in Tables : TableSound(x.snap, t, x.tables[t])
  /\ x.stmt # NoStmt =>
       /\ StmtShape(x.stmt)
       /\ Restores(x.snap, x.stmt.table, x.tables[x.stmt.table], x.stmt)

SessionsSound ==
  /\ session = [s \in Sessions |-> session[s]]
  /\ \A s \in Sessions : session[s] # Nil => TxSound(session[s])

\* The rows a statement sees are, key by key, its last edit or else the row under it.
LEMMA VisibleThrough ==
  ASSUME NEW snap, NEW t, NEW st
  PROVE  Visible(snap, t, st) = [k \in Keys |-> Through(snap, t, st.edits[k], k)]
BY DEF Visible, Patched, Overlay, Through

\* Neither a deletion nor a row value reads as the absence of an edit.
LEMMA EditsAreEdits == Absent # NoEdit /\ NoEdit \notin Cells
BY IndexAssumption

\* lookupRow finds what the edits make visible.
LEMMA LookupThrough ==
  ASSUME NEW snap, NEW t, NEW st, TableSound(snap, t, st), ~st.schemaDirty, NEW k \in Keys
  PROVE  lookupRow(snap, t, st, k) = Through(snap, t, st.edits[k], k)
BY VisibleThrough DEF lookupRow, TableSound

\* editor.remember keeps what can be undone, and covers the key.
LEMMA RememberRestores ==
  ASSUME NEW snap, NEW t, NEW st, NEW stmt, NEW k \in Keys,
         TableSound(snap, t, st), StmtShape(stmt), Restores(snap, t, st, stmt),
         NEW row, row = lookupRow(snap, t, st, k)
  PROVE  LET kept == remember(stmt, st, k, row)
         IN  /\ StmtShape(kept) /\ kept.table = stmt.table
             /\ Restores(snap, t, st, kept)
             /\ DOMAIN kept.before = DOMAIN stmt.before \cup {k}
<1>1. CASE k \in DOMAIN stmt.before
  BY <1>1 DEF remember
<1>2. CASE k \notin DOMAIN stmt.before
  <2> DEFINE kept == remember(stmt, st, k, row)
             before == [l \in DOMAIN stmt.before \cup {k} |->
                          IF l = k THEN [row |-> row, edit |-> st.edits[k]] ELSE stmt.before[l]]
  <2>1. kept = [stmt EXCEPT !.before = before]
    BY <1>2 DEF remember
  <2> HIDE DEF kept
  <2>2. kept = [table |-> stmt.table, failed |-> stmt.failed, before |-> before,
                lens |-> stmt.lens, seen |-> stmt.seen]
    BY <2>1 DEF StmtShape
  <2>3. /\ kept.table = stmt.table /\ kept.before = before /\ kept.seen = stmt.seen
        /\ kept.failed = stmt.failed /\ kept.lens = stmt.lens
    BY <2>2
  <2>4. StmtShape(kept)
    BY <2>2, <2>3 DEF StmtShape
  <2>5. row = Through(snap, t, st.edits[k], k)
    BY LookupThrough DEF Restores
  <2>6. /\ Through(snap, t, st.edits[k], k) = stmt.seen[k]
        /\ st.rows # Nil => st.rows[k] = stmt.seen[k]
    BY <1>2 DEF Restores
  <2>7. DOMAIN before = DOMAIN stmt.before \cup {k}
    OBVIOUS
  <2>8. before[k].row = row /\ before[k].edit = st.edits[k]
    OBVIOUS
  <2>9. \A l \in DOMAIN stmt.before : before[l] = stmt.before[l]
    BY <1>2
  <2>10. before = [l \in DOMAIN before |-> before[l]]
    OBVIOUS
  <2> HIDE DEF before
  <2>11. Restores(snap, t, st, kept)
    <3>1. ASSUME NEW l \in Keys, l \in DOMAIN before
          PROVE  /\ Through(snap, t, before[l].edit, l) = stmt.seen[l]
                 /\ st.rows # Nil => before[l].row = stmt.seen[l]
      <4>1. CASE l = k
        BY <4>1, <2>5, <2>6, <2>8
      <4>2. CASE l # k
        BY <3>1, <4>2, <2>7, <2>9 DEF Restores
      <4> QED
        BY <4>1, <4>2
    <3>2. ASSUME NEW l \in Keys, l \notin DOMAIN before
          PROVE  /\ Through(snap, t, st.edits[l], l) = stmt.seen[l]
                 /\ st.rows # Nil => st.rows[l] = stmt.seen[l]
      BY <3>2, <2>7 DEF Restores
    <3> QED
      BY <3>1, <3>2, <2>3, <2>10 DEF Restores
  <2> QED
    BY <2>3, <2>4, <2>7, <2>11 DEF kept
<1> QED
  BY <1>1, <1>2

\* setEdit of a remembered key.
LEMMA SetEditRestores ==
  ASSUME NEW snap, NEW t, NEW st, NEW stmt, NEW k \in Keys,
         NEW v \in Cells \cup {Absent},
         TableSound(snap, t, st), Restores(snap, t, st, stmt), k \in DOMAIN stmt.before
  PROVE  /\ TableSound(snap, t, setEdit(st, k, v))
         /\ Restores(snap, t, setEdit(st, k, v), stmt)
<1> DEFINE new == setEdit(st, k, v)
           edits == [st.edits EXCEPT ![k] = v]
           rows == IF st.rows = Nil THEN Nil ELSE [st.rows EXCEPT ![k] = v]
<1>1. new = [schema |-> st.schema, edits |-> edits, rows |-> rows, idx |-> st.idx,
             dirty |-> st.dirty, schemaDirty |-> st.schemaDirty]
  <2>1. st = [schema |-> st.schema, edits |-> st.edits, rows |-> st.rows, idx |-> st.idx,
              dirty |-> st.dirty, schemaDirty |-> st.schemaDirty]
    BY DEF TableSound
  <2>2. new = [st EXCEPT !.edits = edits, !.rows = rows]
    BY <2>1 DEF setEdit
  <2> HIDE DEF new, edits, rows
  <2> QED
    BY <2>1, <2>2
<1>2. /\ new.edits = edits /\ new.rows = rows /\ new.schemaDirty = st.schemaDirty
      /\ new.schema = st.schema /\ new.idx = st.idx /\ new.dirty = st.dirty
  BY <1>1
<1>3. edits = [l \in Keys |-> IF l = k THEN v ELSE st.edits[l]]
  BY DEF TableSound
<1>4. v # NoEdit
  BY EditsAreEdits
<1>5. Through(snap, t, v, k) = v
  BY <1>4 DEF Through
<1>6. ASSUME rows # Nil
      PROVE  st.rows # Nil /\ rows = [l \in Keys |-> IF l = k THEN v ELSE st.rows[l]]
  BY <1>6 DEF TableSound, Restores
<1> HIDE DEF edits, rows, new
<1>7. TableSound(snap, t, new)
  <2>1. ASSUME rows # Nil
        PROVE  /\ rows = [l \in Keys |-> rows[l]]
               /\ \A l \in Keys : rows[l] = Through(snap, t, edits[l], l)
    BY <2>1, <1>3, <1>5, <1>6 DEF TableSound, Restores
  <2>2. edits = [l \in Keys |-> edits[l]]
    BY <1>3
  <2> QED
    BY <1>1, <1>2, <2>1, <2>2 DEF TableSound
<1>8. Restores(snap, t, new, stmt)
  BY <1>2, <1>3, <1>6 DEF Restores
<1> QED
  BY <1>7, <1>8 DEF new

\* Index edits have no part in either.
LEMMA SameRows ==
  ASSUME NEW snap, NEW t, NEW st, NEW stmt, NEW idx,
         TableSound(snap, t, st), Restores(snap, t, st, stmt)
  PROVE  LET new == [st EXCEPT !.idx = idx]
         IN  TableSound(snap, t, new) /\ Restores(snap, t, new, stmt)
<1> DEFINE new == [st EXCEPT !.idx = idx]
<1>1. new = [schema |-> st.schema, edits |-> st.edits, rows |-> st.rows, idx |-> idx,
             dirty |-> st.dirty, schemaDirty |-> st.schemaDirty]
  BY DEF TableSound
<1> HIDE DEF new
<1>2. /\ new.edits = st.edits /\ new.rows = st.rows /\ new.schemaDirty = st.schemaDirty
      /\ new.schema = st.schema /\ new.idx = idx /\ new.dirty = st.dirty
  BY <1>1
<1>3. TableSound(snap, t, new)
  BY <1>1, <1>2 DEF TableSound
<1>4. Restores(snap, t, new, stmt)
  BY <1>2 DEF Restores
<1> QED
  BY <1>3, <1>4 DEF new

\* Nor have the flags an operation sets.
LEMMA SameFlags ==
  ASSUME NEW snap, NEW t, NEW st, NEW stmt, NEW dirty, NEW failed,
         TableSound(snap, t, st), StmtShape(stmt), Restores(snap, t, st, stmt)
  PROVE  LET new == [st EXCEPT !.dirty = dirty]
             after == [stmt EXCEPT !.failed = failed]
         IN  /\ TableSound(snap, t, new) /\ Restores(snap, t, new, after)
             /\ StmtShape(after) /\ after.table = stmt.table
<1> DEFINE new == [st EXCEPT !.dirty = dirty]
           after == [stmt EXCEPT !.failed = failed]
<1>1. new = [schema |-> st.schema, edits |-> st.edits, rows |-> st.rows, idx |-> st.idx,
             dirty |-> dirty, schemaDirty |-> st.schemaDirty]
  BY DEF TableSound
<1>2. after = [table |-> stmt.table, failed |-> failed, before |-> stmt.before,
               lens |-> stmt.lens, seen |-> stmt.seen]
  BY DEF StmtShape
<1> HIDE DEF new, after
<1>3. /\ new.edits = st.edits /\ new.rows = st.rows
      /\ new.schemaDirty = st.schemaDirty
      /\ new.schema = st.schema /\ new.idx = st.idx /\ new.dirty = dirty
  BY <1>1
<1>4. /\ after.table = stmt.table /\ after.failed = failed /\ after.before = stmt.before
      /\ after.lens = stmt.lens /\ after.seen = stmt.seen
  BY <1>2
<1>5. TableSound(snap, t, new)
  BY <1>1, <1>3 DEF TableSound
<1>6. Restores(snap, t, new, after)
  BY <1>3, <1>4 DEF Restores
<1>7. StmtShape(after)
  BY <1>2, <1>4 DEF StmtShape
<1> QED
  BY <1>4, <1>5, <1>6, <1>7 DEF new, after

-----------------------------------------------------------------------------
(* Steps of a transaction.                                                  *)

\* Replacing one table's state and the open statement keeps a transaction sound when the table
\* is sound and the statement's undo information restores it.
LEMMA TxPut ==
  ASSUME NEW x, TxSound(x), NEW t \in Tables, NEW st, TableSound(x.snap, t, st), NEW stmt,
         stmt # NoStmt => StmtShape(stmt) /\ stmt.table = t /\ Restores(x.snap, t, st, stmt)
  PROVE  TxSound([snap |-> x.snap, tables |-> [x.tables EXCEPT ![t] = st], stmt |-> stmt])
<1> DEFINE tables == [x.tables EXCEPT ![t] = st]
           y == [snap |-> x.snap, tables |-> tables, stmt |-> stmt]
<1>1. tables = [r \in Tables |-> IF r = t THEN st ELSE x.tables[r]]
  BY DEF TxSound
<1>2. y.snap = x.snap /\ y.tables = tables /\ y.stmt = stmt
  OBVIOUS
<1>3. y = [snap |-> y.snap, tables |-> y.tables, stmt |-> y.stmt]
  OBVIOUS
<1> HIDE DEF tables, y
<1>4. tables = [r \in Tables |-> tables[r]] /\ tables[t] = st
  BY <1>1
<1>5. \A r \in Tables : TableSound(x.snap, r, tables[r])
  BY <1>1 DEF TxSound
<1>6. TxSound(y)
  BY <1>2, <1>3, <1>4, <1>5 DEF TxSound
<1> QED
  BY <1>6 DEF y, tables

\* A step that replaces one session's transaction by a sound one, or by none, keeps every
\* session sound.
LEMMA TxStep ==
  ASSUME SessionsSound, NEW s \in Sessions, NEW y, y # Nil => TxSound(y),
         session' = [session EXCEPT ![s] = y]
  PROVE  SessionsSound'
<1>1. session' = [r \in Sessions |-> IF r = s THEN y ELSE session[r]]
  BY DEF SessionsSound
<1>2. session' = [r \in Sessions |-> session'[r]]
  BY <1>1
<1>3. \A r \in Sessions : session'[r] # Nil => TxSound(session'[r])
  BY <1>1 DEF SessionsSound
<1> QED
  BY <1>2, <1>3 DEF SessionsSound

\* The forms in which actions write a transaction.
LEMMA TxWrite ==
  ASSUME SessionsSound, NEW s \in Sessions, NEW x, x = session[s], x # Nil,
         NEW t \in Tables, NEW st, TableSound(x.snap, t, st), NEW stmt,
         stmt # NoStmt => StmtShape(stmt) /\ stmt.table = t /\ Restores(x.snap, t, st, stmt),
         \/ session' = [session EXCEPT ![s].tables[t] = st, ![s].stmt = stmt]
         \/ session' = [session EXCEPT ![s].tables[t] = st] /\ stmt = x.stmt
  PROVE  SessionsSound'
<1>1. TxSound(x) /\ session = [r \in Sessions |-> session[r]]
  BY DEF SessionsSound
<1>2. x = [snap |-> x.snap, tables |-> x.tables, stmt |-> x.stmt]
  BY <1>1 DEF TxSound
<1>3. PICK tables : tables = [x.tables EXCEPT ![t] = st]
  OBVIOUS
<1>4. PICK y : y = [snap |-> x.snap, tables |-> tables, stmt |-> stmt]
  OBVIOUS
<1>5. TxSound(y)
  BY <1>1, <1>3, <1>4, TxPut
<1>6. PICK z : z = [x EXCEPT !.tables = tables]
  OBVIOUS
<1>7. z = [snap |-> x.snap, tables |-> tables, stmt |-> x.stmt]
  BY <1>2, <1>6
<1>8. [z EXCEPT !.stmt = stmt] = y
  BY <1>4, <1>7
<1>9. stmt = x.stmt => z = y
  BY <1>4, <1>7
<1>10. CASE session' = [session EXCEPT ![s].tables[t] = st, ![s].stmt = stmt]
  <2>1. session' = [session EXCEPT ![s] = [z EXCEPT !.stmt = stmt]]
    BY <1>1, <1>3, <1>6, <1>10
  <2> QED
    BY <2>1, <1>5, <1>8, TxStep
<1>11. CASE session' = [session EXCEPT ![s].tables[t] = st] /\ stmt = x.stmt
  <2>1. session' = [session EXCEPT ![s] = z]
    BY <1>1, <1>3, <1>6, <1>11
  <2>2. session' = [session EXCEPT ![s] = y]
    BY <2>1, <1>9, <1>11
  <2> QED
    BY <2>2, <1>5, TxStep
<1> QED
  BY <1>10, <1>11

\* ensureIndexEdits materializes at most the rows that are visible.
LEMMA EnsureSound ==
  ASSUME NEW snap, NEW t, NEW st, TableSound(snap, t, st), ~st.schemaDirty
  PROVE  LET new == ensureIndexEdits(snap, t, st)
         IN  /\ TableSound(snap, t, new)
             /\ ~new.schemaDirty
             /\ new.edits = st.edits
<1> DEFINE new == ensureIndexEdits(snap, t, st)
<1>1. CASE st.idx # Empty \/ st.schema.indexes = <<>>
  BY <1>1 DEF ensureIndexEdits
<1>2. CASE ~(st.idx # Empty \/ st.schema.indexes = <<>>)
  <2>1. PICK idx, rows :
          /\ new = [st EXCEPT !.idx = idx, !.rows = rows]
          /\ rows = st.rows \/ rows = ensureRows(snap, t, st)
    BY <1>2 DEF ensureIndexEdits
  <2>2. rows # Nil => /\ rows = [k \in Keys |-> rows[k]]
                      /\ \A k \in Keys : rows[k] = Through(snap, t, st.edits[k], k)
    BY <2>1, VisibleThrough DEF ensureRows, TableSound
  <2> HIDE DEF new
  <2>3. new = [schema |-> st.schema, edits |-> st.edits, rows |-> rows, idx |-> idx,
               dirty |-> st.dirty, schemaDirty |-> st.schemaDirty]
    BY <2>1 DEF TableSound
  <2>4. /\ new.edits = st.edits /\ new.rows = rows /\ new.schemaDirty = st.schemaDirty
        /\ new.schema = st.schema /\ new.idx = idx /\ new.dirty = st.dirty
    BY <2>3
  <2>5. TableSound(snap, t, new)
    BY <2>2, <2>3, <2>4 DEF TableSound
  <2> QED
    BY <2>4, <2>5 DEF new
<1> QED
  BY <1>1, <1>2

\* A new transaction has no edits, no cached rows and no statement.
LEMMA StartSound ==
  ASSUME SessionsSound, NEW s \in Sessions, StartTransaction(s)
  PROVE  SessionsSound'
<1> DEFINE tables == [t \in Tables |-> FreshTable(t)]
           y == [snap |-> Snapshot, tables |-> tables, stmt |-> NoStmt]
<1>1. session' = [session EXCEPT ![s] = y]
  BY DEF StartTransaction
<1>2. \A t \in Tables : TableSound(Snapshot, t, FreshTable(t))
  <2> TAKE t \in Tables
  <2>1. PICK idx : FreshTable(t) = [schema |-> schema[t], edits |-> NoEdits, rows |-> Nil,
                                    idx |-> idx, dirty |-> FALSE, schemaDirty |-> FALSE]
    BY DEF FreshTable
  <2>2. PICK st : st = FreshTable(t)
    OBVIOUS
  <2>3. TableSound(Snapshot, t, st)
    BY <2>1, <2>2 DEF TableSound, NoEdits
  <2> QED
    BY <2>2, <2>3
<1>3. TxSound(y)
  BY <1>2 DEF TxSound
<1> QED
  BY <1>1, <1>3, TxStep

\* An index lookup fills the table's index edits and changes no row or edit.
LEMMA LookupSound ==
  ASSUME SessionsSound, NEW s \in Sessions, NEW t \in Tables, Lookup(s, t)
  PROVE  SessionsSound'
<1>1. PICK x : x = session[s]
  OBVIOUS
<1>2. session[s] # Nil /\ x # Nil /\ x.stmt = NoStmt /\ ~x.tables[t].schemaDirty
  BY <1>1 DEF Lookup, Changeable, OnCurrent, Table
<1>3. TxSound(x)
  BY <1>1, <1>2 DEF SessionsSound
<1>4. PICK st : st = ensureIndexEdits(x.snap, t, x.tables[t])
  OBVIOUS
<1>5. session' = [session EXCEPT ![s].tables[t] = st]
  BY <1>1, <1>4 DEF Lookup
<1>6. TableSound(x.snap, t, st)
  BY <1>2, <1>3, <1>4, EnsureSound DEF TxSound
<1> QED
  BY <1>1, <1>2, <1>5, <1>6, TxWrite

\* A statement that has touched nothing finds the table as it is.
LEMMA BeginSound ==
  ASSUME SessionsSound, NEW s \in Sessions, NEW t \in Tables, StatementBegin(s, t)
  PROVE  SessionsSound'
<1>1. PICK x : x = session[s]
  OBVIOUS
<1>2. session[s] # Nil /\ x # Nil /\ x.stmt = NoStmt /\ ~x.tables[t].schemaDirty
  BY <1>1 DEF StatementBegin, Changeable, OnCurrent, Table
<1>3. TxSound(x)
  BY <1>1, <1>2 DEF SessionsSound
<1>4. PICK st : st = ensureIndexEdits(x.snap, t, x.tables[t])
  OBVIOUS
<1>5. TableSound(x.snap, t, st) /\ ~st.schemaDirty
  BY <1>2, <1>3, <1>4, EnsureSound DEF TxSound
<1>6. PICK lens, stmt :
        /\ stmt = [table |-> t, failed |-> FALSE, before |-> Empty, lens |-> lens,
                   seen |-> Visible(x.snap, t, st)]
        /\ session' = [session EXCEPT ![s].tables[t] = st, ![s].stmt = stmt]
  BY <1>1, <1>4 DEF StatementBegin, Table
<1>7. /\ stmt.table = t /\ stmt.before = Empty /\ stmt.seen = Visible(x.snap, t, st)
      /\ stmt.failed = FALSE /\ stmt.lens = lens
  BY <1>6
<1>8. StmtShape(stmt)
  BY <1>6, <1>7 DEF StmtShape
<1>9. Restores(x.snap, t, st, stmt)
  BY <1>5, <1>7, VisibleThrough DEF Restores, TableSound, Empty
<1> QED
  BY <1>1, <1>2, <1>5, <1>6, <1>7, <1>8, <1>9, TxWrite

\* DiscardChanges gives the table the statement found.
LEMMA UndoneSound ==
  ASSUME NEW snap, NEW t, NEW st, NEW stmt, TableSound(snap, t, st),
         Restores(snap, t, st, stmt)
  PROVE  LET back == Undone(st, stmt)
         IN  /\ TableSound(snap, t, back)
             /\ Visible(snap, t, back) = stmt.seen
             /\ back.rows # Nil => back.rows = stmt.seen
<1> DEFINE back == Undone(st, stmt)
           touched == DOMAIN stmt.before
           edits == [k \in Keys |-> IF k \in touched THEN stmt.before[k].edit ELSE st.edits[k]]
           rows == IF st.rows = Nil THEN Nil
                   ELSE [k \in Keys |-> IF k \in touched THEN stmt.before[k].row ELSE st.rows[k]]
<1>1. PICK idx : back = [st EXCEPT !.edits = edits, !.rows = rows, !.idx = idx]
  BY DEF Undone
<1> HIDE DEF back, edits, rows
<1>2. back = [schema |-> st.schema, edits |-> edits, rows |-> rows, idx |-> idx,
              dirty |-> st.dirty, schemaDirty |-> st.schemaDirty]
  BY <1>1 DEF TableSound
<1>3. /\ back.edits = edits /\ back.rows = rows /\ back.schemaDirty = st.schemaDirty
      /\ back.schema = st.schema /\ back.idx = idx /\ back.dirty = st.dirty
  BY <1>2
<1>4. edits = [k \in Keys |-> edits[k]]
  BY DEF edits
<1>5. \A k \in Keys : Through(snap, t, edits[k], k) = stmt.seen[k]
  BY DEF edits, Restores
<1>6. stmt.seen = [k \in Keys |-> stmt.seen[k]]
  BY DEF Restores
<1>7. rows # Nil => rows = stmt.seen
  <2> SUFFICES ASSUME rows # Nil PROVE rows = stmt.seen
    OBVIOUS
  <2>1. /\ st.rows # Nil
        /\ rows = [k \in Keys |-> IF k \in touched THEN stmt.before[k].row ELSE st.rows[k]]
    BY DEF rows
  <2>2. \A k \in Keys :
          (IF k \in touched THEN stmt.before[k].row ELSE st.rows[k]) = stmt.seen[k]
    BY <2>1 DEF Restores
  <2> QED
    BY <2>1, <2>2, <1>6
<1>8. TableSound(snap, t, back)
  BY <1>2, <1>3, <1>4, <1>5, <1>6, <1>7 DEF TableSound
<1>9. Visible(snap, t, back) = stmt.seen
  BY <1>3, <1>5, <1>6, VisibleThrough
<1> QED
  BY <1>3, <1>7, <1>8, <1>9 DEF back

\* DiscardChanges puts back the first edit and the first row of every touched key: the table is
\* sound and no statement is open.
LEMMA DiscardSound ==
  ASSUME SessionsSound, NEW s \in Sessions, DiscardChanges(s)
  PROVE  SessionsSound'
<1>1. PICK x : x = session[s]
  OBVIOUS
<1>2. PICK t : t = x.stmt.table
  OBVIOUS
<1>3. x # Nil /\ x.stmt # NoStmt
  BY <1>1 DEF DiscardChanges
<1>4. TxSound(x) /\ t \in Tables
  BY <1>1, <1>2, <1>3 DEF SessionsSound, TxSound, StmtShape
<1>5. PICK st : st = Undone(x.tables[t], x.stmt)
  OBVIOUS
<1>6. TableSound(x.snap, t, st)
  <2>1. TableSound(x.snap, t, x.tables[t]) /\ Restores(x.snap, t, x.tables[t], x.stmt)
    BY <1>2, <1>3, <1>4 DEF TxSound
  <2> QED
    BY <2>1, <1>5, UndoneSound
<1>7. session' = [session EXCEPT ![s].tables[t] = st, ![s].stmt = NoStmt]
  BY <1>1, <1>2, <1>5 DEF DiscardChanges
<1> QED
  BY <1>1, <1>3, <1>4, <1>6, <1>7, TxWrite

\* StatementComplete keeps the edits and forgets the undo information.
LEMMA CompleteSound ==
  ASSUME SessionsSound, NEW s \in Sessions, StatementComplete(s)
  PROVE  SessionsSound'
<1>1. PICK x : x = session[s]
  OBVIOUS
<1>2. x # Nil /\ session' = [session EXCEPT ![s].stmt = NoStmt]
  BY <1>1 DEF StatementComplete
<1>3. TxSound(x) /\ session = [r \in Sessions |-> session[r]]
  BY <1>1, <1>2 DEF SessionsSound
<1>4. x = [snap |-> x.snap, tables |-> x.tables, stmt |-> x.stmt]
  BY <1>3 DEF TxSound
<1>5. PICK y : y = [x EXCEPT !.stmt = NoStmt]
  OBVIOUS
<1>6. y = [snap |-> x.snap, tables |-> x.tables, stmt |-> NoStmt]
  BY <1>4, <1>5
<1>7. y.snap = x.snap /\ y.tables = x.tables /\ y.stmt = NoStmt
  BY <1>6
<1>8. TxSound(y)
  BY <1>3, <1>6, <1>7 DEF TxSound
<1>9. session' = [session EXCEPT ![s] = y]
  BY <1>1, <1>2, <1>3, <1>5
<1> QED
  BY <1>8, <1>9, TxStep

\* A row operation, failing or not, that leaves a sound table and undo information that restores
\* it keeps the sessions sound.
LEMMA RowOpSound ==
  ASSUME SessionsSound, NEW s \in Sessions, NEW x, x = session[s], x # Nil,
         NEW t \in Tables, NEW st, NEW stmt, stmt.table = t,
         TableSound(x.snap, t, st), StmtShape(stmt), Restores(x.snap, t, st, stmt),
         NEW failed, RowOp(s, st, stmt, failed)
  PROVE  SessionsSound'
<1> DEFINE d == st.dirty \/ ~failed
           f == failed /\ ~Ignoring
           new == [st EXCEPT !.dirty = d]
           after == [stmt EXCEPT !.failed = f]
<1>2. session' = [session EXCEPT ![s].tables[t] = new, ![s].stmt = after]
  BY DEF RowOp
<1> HIDE DEF d, f
<1>3. /\ TableSound(x.snap, t, new) /\ Restores(x.snap, t, new, after)
      /\ StmtShape(after) /\ after.table = t
  BY SameFlags
<1> HIDE DEF new, after
<1> QED
  BY <1>2, <1>3, TxWrite

\* The edits of an operation to the indexes leave the rows alone.
LEMMA EditIndexesRows ==
  ASSUME NEW snap, NEW t, NEW st, NEW k, NEW old, NEW l, NEW new, NEW stmt,
         TableSound(snap, t, st), StmtShape(stmt), Restores(snap, t, st, stmt)
  PROVE  LET made == EditIndexes(snap, t, st, k, old, l, new)
         IN  TableSound(snap, t, made.st) /\ Restores(snap, t, made.st, stmt)
<1> DEFINE made == EditIndexes(snap, t, st, k, old, l, new)
<1>1. PICK idx : made.st = st \/ made.st = [st EXCEPT !.idx = idx]
  BY DEF EditIndexes
<1> HIDE DEF made
<1>2. TableSound(snap, t, [st EXCEPT !.idx = idx]) /\ Restores(snap, t, [st EXCEPT !.idx = idx], stmt)
  BY SameRows
<1>3. TableSound(snap, t, made.st) /\ Restores(snap, t, made.st, stmt)
  BY <1>1, <1>2
<1> QED
  BY <1>3 DEF made

\* What a row operation starts from.
LEMMA EditingSound ==
  ASSUME SessionsSound, NEW s \in Sessions, Editing(s), NEW x, x = session[s]
  PROVE  /\ x # Nil /\ x.stmt.table \in Tables
         /\ TableSound(x.snap, x.stmt.table, x.tables[x.stmt.table])
         /\ StmtShape(x.stmt)
         /\ Restores(x.snap, x.stmt.table, x.tables[x.stmt.table], x.stmt)
BY DEF Editing, SessionsSound, TxSound, StmtShape

\* Insert saves the key's first edit and row before it changes them.
LEMMA InsertSound ==
  ASSUME SessionsSound, NEW s \in Sessions, NEW k \in Keys, NEW v \in Cells, Insert(s, k, v)
  PROVE  SessionsSound'
<1>1. PICK x : x = session[s]
  OBVIOUS
<1>2. PICK stmt, t, st, made :
        /\ stmt = x.stmt /\ t = stmt.table /\ st = x.tables[t]
        /\ made = EditIndexes(x.snap, t, st, k, Absent, k, v)
  OBVIOUS
<1>3. /\ Editing(s) /\ lookupRow(x.snap, t, st, k) = Absent
      /\ \/ RowOp(s, setEdit(made.st, k, v), remember(stmt, st, k, Absent), FALSE)
         \/ RowOp(s, made.st, stmt, TRUE)
  BY <1>1, <1>2 DEF Insert, Table
<1>4. /\ x # Nil /\ t \in Tables /\ TableSound(x.snap, t, st) /\ StmtShape(stmt)
      /\ Restores(x.snap, t, st, stmt)
  BY <1>1, <1>2, <1>3, EditingSound
<1>5. TableSound(x.snap, t, made.st) /\ Restores(x.snap, t, made.st, stmt)
  BY <1>2, <1>4, EditIndexesRows
<1>6. CASE RowOp(s, made.st, stmt, TRUE)
  BY <1>1, <1>2, <1>4, <1>5, <1>6, RowOpSound
<1>7. CASE RowOp(s, setEdit(made.st, k, v), remember(stmt, st, k, Absent), FALSE)
  <2>1. PICK kept : kept = remember(stmt, st, k, Absent)
    OBVIOUS
  <2>2. /\ StmtShape(kept) /\ kept.table = t /\ k \in DOMAIN kept.before
        /\ Restores(x.snap, t, st, kept)
    BY <2>1, <1>2, <1>3, <1>4, RememberRestores
  <2>3. TableSound(x.snap, t, made.st) /\ Restores(x.snap, t, made.st, kept)
    BY <2>2, <1>2, <1>4, EditIndexesRows
  <2>4. PICK new : new = setEdit(made.st, k, v)
    OBVIOUS
  <2>5. TableSound(x.snap, t, new) /\ Restores(x.snap, t, new, kept)
    BY <2>2, <2>3, <2>4, SetEditRestores
  <2> QED
    BY <1>1, <1>4, <1>7, <2>1, <2>2, <2>4, <2>5, RowOpSound
<1> QED
  BY <1>3, <1>6, <1>7

\* So does Delete.
LEMMA DeleteSound ==
  ASSUME SessionsSound, NEW s \in Sessions, NEW k \in Keys, Delete(s, k)
  PROVE  SessionsSound'
<1>1. PICK x : x = session[s]
  OBVIOUS
<1>2. PICK stmt, t, st, row, made :
        /\ stmt = x.stmt /\ t = stmt.table /\ st = x.tables[t]
        /\ row = lookupRow(x.snap, t, st, k)
        /\ made = EditIndexes(x.snap, t, st, k, row, k, Absent)
  OBVIOUS
<1>3. Editing(s) /\ RowOp(s, setEdit(made.st, k, Absent), remember(stmt, st, k, row), FALSE)
  BY <1>1, <1>2 DEF Delete, Table
<1>4. /\ x # Nil /\ t \in Tables /\ TableSound(x.snap, t, st) /\ StmtShape(stmt)
      /\ Restores(x.snap, t, st, stmt)
  BY <1>1, <1>2, <1>3, EditingSound
<1>5. PICK kept : kept = remember(stmt, st, k, row)
  OBVIOUS
<1>6. /\ StmtShape(kept) /\ kept.table = t /\ k \in DOMAIN kept.before
      /\ Restores(x.snap, t, st, kept)
  BY <1>2, <1>4, <1>5, RememberRestores
<1>7. TableSound(x.snap, t, made.st) /\ Restores(x.snap, t, made.st, kept)
  BY <1>2, <1>4, <1>6, EditIndexesRows
<1>8. PICK new : new = setEdit(made.st, k, Absent)
  OBVIOUS
<1>9. TableSound(x.snap, t, new) /\ Restores(x.snap, t, new, kept)
  BY <1>6, <1>7, <1>8, SetEditRestores
<1> QED
  BY <1>1, <1>3, <1>4, <1>5, <1>6, <1>8, <1>9, RowOpSound

\* So does Update, of both keys when it moves a row from one to another.
LEMMA UpdateSound ==
  ASSUME SessionsSound, NEW s \in Sessions, NEW k \in Keys, NEW l \in Keys, NEW v \in Cells,
         Update(s, k, l, v)
  PROVE  SessionsSound'
<1>1. PICK x : x = session[s]
  OBVIOUS
<1>2. PICK stmt, t, st, row, kept :
        /\ stmt = x.stmt /\ t = stmt.table /\ st = x.tables[t]
        /\ row = lookupRow(x.snap, t, st, k)
        /\ kept = remember(stmt, st, k, row)
  OBVIOUS
<1>3. PICK both, cut :
        /\ both = IF k = l THEN kept ELSE remember(kept, st, l, Absent)
        /\ cut = IF k = l THEN st ELSE setEdit(st, k, Absent)
  OBVIOUS
<1>4. PICK made : made = EditIndexes(x.snap, t, cut, k, row, l, v)
  OBVIOUS
<1>5. /\ Editing(s)
      /\ k # l => lookupRow(x.snap, t, st, l) = Absent
      /\ \/ RowOp(s, setEdit(made.st, l, v), both, FALSE)
         \/ RowOp(s, made.st, both, TRUE)
  BY <1>1, <1>2, <1>3, <1>4 DEF Update, Table
<1>6. /\ x # Nil /\ t \in Tables /\ TableSound(x.snap, t, st) /\ StmtShape(stmt)
      /\ Restores(x.snap, t, st, stmt)
  BY <1>1, <1>2, <1>5, EditingSound
<1>7. /\ StmtShape(kept) /\ kept.table = t /\ k \in DOMAIN kept.before
      /\ Restores(x.snap, t, st, kept)
  BY <1>2, <1>6, RememberRestores
<1>8. /\ StmtShape(both) /\ both.table = t /\ k \in DOMAIN both.before
      /\ l \in DOMAIN both.before /\ Restores(x.snap, t, st, both)
  <2>1. CASE k = l
    BY <2>1, <1>3, <1>7
  <2>2. CASE k # l
    BY <2>2, <1>3, <1>5, <1>6, <1>7, RememberRestores
  <2> QED
    BY <2>1, <2>2
<1>9. TableSound(x.snap, t, cut) /\ Restores(x.snap, t, cut, both)
  <2>1. CASE k = l
    BY <2>1, <1>3, <1>6, <1>8
  <2>2. CASE k # l
    BY <2>2, <1>3, <1>6, <1>8, SetEditRestores
  <2> QED
    BY <2>1, <2>2
<1>10. TableSound(x.snap, t, made.st) /\ Restores(x.snap, t, made.st, both)
  BY <1>4, <1>8, <1>9, EditIndexesRows
<1>11. CASE RowOp(s, made.st, both, TRUE)
  BY <1>1, <1>6, <1>8, <1>10, <1>11, RowOpSound
<1>12. CASE RowOp(s, setEdit(made.st, l, v), both, FALSE)
  <2>1. PICK new : new = setEdit(made.st, l, v)
    OBVIOUS
  <2>2. TableSound(x.snap, t, new) /\ Restores(x.snap, t, new, both)
    BY <2>1, <1>8, <1>10, SetEditRestores
  <2> QED
    BY <1>1, <1>6, <1>8, <1>12, <2>1, <2>2, RowOpSound
<1> QED
  BY <1>5, <1>11, <1>12

\* DDL leaves a table of the same fields, behind which no statement runs.
LEMMA AlterSound ==
  ASSUME SessionsSound, NEW s \in Sessions, NEW t \in Tables, NEW x, x = session[s],
         x # Nil, x.stmt = NoStmt, NEW sch, NEW edits, NEW rows, NEW idx, NEW d, NEW e,
         edits = [k \in Keys |-> edits[k]],
         Alter(s, t, [schema |-> sch, edits |-> edits, rows |-> rows, idx |-> idx,
                      dirty |-> d, schemaDirty |-> e])
  PROVE  SessionsSound'
<1>1. PICK yes : yes = TRUE
  OBVIOUS
<1>2. PICK st, st1, new :
        /\ st = [schema |-> sch, edits |-> edits, rows |-> rows, idx |-> idx,
                 dirty |-> d, schemaDirty |-> e]
        /\ st1 = [st EXCEPT !.dirty = yes]
        /\ new = [st1 EXCEPT !.schemaDirty = yes]
  OBVIOUS
<1>3. st1 = [schema |-> sch, edits |-> edits, rows |-> rows, idx |-> idx,
             dirty |-> yes, schemaDirty |-> e]
  BY <1>2
<1>4. new = [schema |-> sch, edits |-> edits, rows |-> rows, idx |-> idx,
             dirty |-> yes, schemaDirty |-> yes]
  BY <1>2, <1>3
<1>5. session' = [session EXCEPT ![s].tables[t] = new]
  BY <1>1, <1>2 DEF Alter
<1>6. /\ new.edits = edits /\ new.rows = rows /\ new.schemaDirty = yes
      /\ new.schema = sch /\ new.idx = idx /\ new.dirty = yes
  BY <1>4
<1>7. TableSound(x.snap, t, new)
  BY <1>1, <1>4, <1>6 DEF TableSound
<1> QED
  BY <1>5, <1>7, TxWrite

\* A schema change happens with no statement open, so there is nothing to restore, and marks the
\* table schemaDirty.
LEMMA DDLSound ==
  ASSUME SessionsSound, NEW s \in Sessions, NEW t \in Tables,
         \/ ModifyColumn(s, t)
         \/ \E i \in IndexNames : CreateIndex(s, t, i) \/ DropIndex(s, t, i)
  PROVE  SessionsSound'
<1>1. PICK x, st : x = session[s] /\ st = x.tables[t]
  OBVIOUS
<1>2. x # Nil /\ x.stmt = NoStmt
  BY <1>1 DEF ModifyColumn, CreateIndex, DropIndex, Unedited, Changeable, OnCurrent
<1>3. TableSound(x.snap, t, st)
  BY <1>1, <1>2 DEF SessionsSound, TxSound
<1>4. /\ st = [schema |-> st.schema, edits |-> st.edits, rows |-> st.rows, idx |-> st.idx,
               dirty |-> st.dirty, schemaDirty |-> st.schemaDirty]
      /\ st.edits = [k \in Keys |-> st.edits[k]]
  BY <1>3 DEF TableSound
<1>5. ASSUME NEW i \in IndexNames, CreateIndex(s, t, i)
      PROVE  SessionsSound'
  <2>1. PICK sch, rows, st1 : /\ st1 = [st EXCEPT !.schema = sch]
                              /\ Alter(s, t, [st1 EXCEPT !.rows = rows])
    BY <1>1, <1>5 DEF CreateIndex, Table
  <2>2. st1 = [schema |-> sch, edits |-> st.edits, rows |-> st.rows, idx |-> st.idx,
               dirty |-> st.dirty, schemaDirty |-> st.schemaDirty]
    BY <1>4, <2>1
  <2>3. [st1 EXCEPT !.rows = rows]
          = [schema |-> sch, edits |-> st.edits, rows |-> rows, idx |-> st.idx,
             dirty |-> st.dirty, schemaDirty |-> st.schemaDirty]
    BY <2>2
  <2> QED
    BY <1>1, <1>2, <1>4, <2>1, <2>3, AlterSound
<1>6. ASSUME NEW i \in IndexNames, DropIndex(s, t, i)
      PROVE  SessionsSound'
  <2>1. PICK sch, idx, st1 : /\ st1 = [st EXCEPT !.schema = sch]
                             /\ Alter(s, t, [st1 EXCEPT !.idx = idx])
    BY <1>1, <1>6 DEF DropIndex, Table
  <2>2. st1 = [schema |-> sch, edits |-> st.edits, rows |-> st.rows, idx |-> st.idx,
               dirty |-> st.dirty, schemaDirty |-> st.schemaDirty]
    BY <1>4, <2>1
  <2>3. [st1 EXCEPT !.idx = idx]
          = [schema |-> sch, edits |-> st.edits, rows |-> st.rows, idx |-> idx,
             dirty |-> st.dirty, schemaDirty |-> st.schemaDirty]
    BY <2>2
  <2> QED
    BY <1>1, <1>2, <1>4, <2>1, <2>3, AlterSound
<1>7. ASSUME ModifyColumn(s, t)
      PROVE  SessionsSound'
  <2>1. PICK sch, rows, edits, st1, st2, st3 :
          /\ edits = [k \in Keys |-> IF rows[k] = Absent THEN NoEdit ELSE rows[k]]
          /\ st1 = [st EXCEPT !.schema = sch]
          /\ st2 = [st1 EXCEPT !.idx = Empty]
          /\ st3 = [st2 EXCEPT !.rows = rows]
          /\ Alter(s, t, [st3 EXCEPT !.edits = edits])
    BY <1>1, <1>7 DEF ModifyColumn, Table
  <2>2. st1 = [schema |-> sch, edits |-> st.edits, rows |-> st.rows, idx |-> st.idx,
               dirty |-> st.dirty, schemaDirty |-> st.schemaDirty]
    BY <1>4, <2>1
  <2>3. st2 = [schema |-> sch, edits |-> st.edits, rows |-> st.rows, idx |-> Empty,
               dirty |-> st.dirty, schemaDirty |-> st.schemaDirty]
    BY <2>1, <2>2
  <2>4. st3 = [schema |-> sch, edits |-> st.edits, rows |-> rows, idx |-> Empty,
               dirty |-> st.dirty, schemaDirty |-> st.schemaDirty]
    BY <2>1, <2>3
  <2>5. [st3 EXCEPT !.edits = edits]
          = [schema |-> sch, edits |-> edits, rows |-> rows, idx |-> Empty,
             dirty |-> st.dirty, schemaDirty |-> st.schemaDirty]
    BY <2>4
  <2>6. edits = [k \in Keys |-> edits[k]]
    BY <2>1
  <2> QED
    BY <1>1, <1>2, <2>1, <2>5, <2>6, AlterSound
<1> QED
  BY <1>5, <1>6, <1>7

\* Every step keeps every session's transaction sound, one case per action.
LEMMA SessionsSoundNext == SessionsSound /\ [Next]_vars => SessionsSound'
<1> SUFFICES ASSUME SessionsSound, [Next]_vars PROVE SessionsSound'
  OBVIOUS
<1>1. CASE UNCHANGED vars \/ Checkpoint
  <2>1. UNCHANGED session
    BY <1>1 DEF vars, Checkpoint
  <2> QED
    BY <2>1 DEF SessionsSound
<1>2. ASSUME NEW s \in Sessions,
             EndClean(s) \/ EndWithoutCommit(s)
               \/ \E stored \in BOOLEAN : CommitTypedEdits(s, stored)
      PROVE  SessionsSound'
  <2>1. session' = [session EXCEPT ![s] = Nil]
    BY <1>2 DEF EndClean, EndWithoutCommit, CommitTypedEdits
  <2> QED
    BY <2>1, TxStep
<1> QED
  BY <1>1, <1>2, StartSound, CompleteSound, DiscardSound, LookupSound, BeginSound, DDLSound,
     InsertSound, DeleteSound, UpdateSound DEF Next

\* A statement that fails at any point, behind any of its row operations, can be
\* undone: the first states it remembered restore the rows it began with, among the
\* edits and among the materialized rows (editor.remember, editor.DiscardChanges).
THEOREM UndoExactHolds == Spec => []UndoExact
<1>1. Init => SessionsSound
  BY DEF Init, SessionsSound
<1>2. SessionsSound => UndoExact
  <2> SUFFICES ASSUME SessionsSound, NEW s \in Sessions, session[s] # Nil,
                      session[s].stmt # NoStmt
               PROVE  LET stmt == session[s].stmt
                          back == Undone(Table(s, stmt.table), stmt)
                      IN  /\ Visible(session[s].snap, stmt.table, back) = stmt.seen
                          /\ back.rows # Nil => back.rows = stmt.seen
    BY DEF UndoExact
  <2>1. PICK x, stmt, t : x = session[s] /\ stmt = x.stmt /\ t = stmt.table
    OBVIOUS
  <2>2. TableSound(x.snap, t, x.tables[t]) /\ Restores(x.snap, t, x.tables[t], stmt)
    BY <2>1 DEF SessionsSound, TxSound, StmtShape
  <2> QED
    BY <2>1, <2>2, UndoneSound DEF Table
<1> QED
  BY <1>1, <1>2, SessionsSoundNext, PTL DEF Spec

=============================================================================
