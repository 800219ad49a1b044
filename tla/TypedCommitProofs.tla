------------------------- MODULE TypedCommitProofs -------------------------
(* Proofs about TypedCommit, for every set of transactions, tables, keys and
   values and every bound. *)
EXTENDS TypedCommit, TLAPS

-----------------------------------------------------------------------------
(* Type correctness.                                                        *)

\* The log writeLog.recorded returns is a write log.
LEMMA RecordedType ==
  ASSUME NEW log \in WriteLog \cup {NoLog}, NEW edits \in [Tables -> TableEdit],
         NEW gen \in Nat, gen > 0
  PROVE  Recorded(log, edits, gen) \in WriteLog
<1>1. EmptyLog(gen - 1) \in WriteLog
  BY DEF EmptyLog, WriteLog
<1>2. (IF log = NoLog THEN EmptyLog(gen - 1) ELSE log) \in WriteLog
  BY <1>1
<1> DEFINE l == IF log = NoLog THEN EmptyLog(gen - 1) ELSE log
<1> HIDE DEF l
<1>3. l \in WriteLog
  BY <1>2 DEF l
<1>4. [from |-> l.from,
       schema |-> [t \in Tables |->
         IF edits[t].kind \in {"schema", "drop"} THEN gen ELSE l.schema[t]],
       touched |-> [t \in Tables |->
         IF edits[t].kind # "none" THEN gen ELSE l.touched[t]],
       claims |-> [t \in Tables |-> [v \in Values |->
         IF v \in edits[t].claims THEN gen ELSE l.claims[t][v]]]] \in WriteLog
  BY <1>3 DEF WriteLog
<1> QED
  BY <1>4 DEF Recorded, l

\* The rows, pending edits and tables after applyTypedEditsToSnapshot.
LEMMA AppliedType ==
  ASSUME TypeOK, NEW edits \in [Tables -> TableEdit], NEW gen \in Nat
  PROVE  /\ AppliedRows(edits) \in RowSet
         /\ AppliedPending(edits, gen) \in [Tables -> [Keys -> Nat]]
         /\ AppliedTables(edits) \in SUBSET Tables
<1>1. ASSUME NEW t \in Tables
      PROVE  Overlay(rows[t], edits[t].rows) \in [Keys -> Cells]
  BY DEF TypeOK, RowSet, TableEdit, Overlay
<1>2. NoRows \in [Keys -> Cells]
  BY DEF NoRows, Cells
<1>3. AppliedRows(edits) \in RowSet
  BY <1>1, <1>2 DEF AppliedRows, RowSet
<1>4. AppliedPending(edits, gen) \in [Tables -> [Keys -> Nat]]
  BY DEF AppliedPending, TypeOK
<1> QED
  BY <1>3, <1>4 DEF AppliedTables

\* The snapshot a transaction is given, and the absence of one, are snapshots.
LEMMA SnapshotTypes ==
  ASSUME TypeOK
  PROVE  CurrentSnapshot \in Snapshot /\ NoSnapshot \in Snapshot
  BY DEF TypeOK, CurrentSnapshot, NoSnapshot, Snapshot, RowSet, NoRows, Cells

\* What a session hands to the journal is an edit per table.
LEMMA SessionEditsType ==
  ASSUME NEW s, NEW edits \in SessionEdits(s)
  PROVE  edits \in [Tables -> TableEdit]
  BY DEF SessionEdits

\* The footprint a commit writes into the log has the log's type.
LEMMA FootprintType ==
  ASSUME TypeOK, NEW x \in Tx, NEW edits \in [Tables -> TableEdit]
  PROVE  FootprintOf(x, edits, generation + 1) \in Footprint
  BY DEF TypeOK, Snapshot, FootprintOf, Footprint

\* Every operation keeps the state well formed.
LEMMA TypeStep == TypeOK /\ [Next]_vars => TypeOK'
<1> SUFFICES ASSUME TypeOK, [Next]_vars PROVE TypeOK'
  OBVIOUS
<1>0. NoPending \in [Tables -> [Keys -> Nat]]
  BY DEF NoPending
<1>1. ASSUME NEW x \in Tx, StartTransaction(x) PROVE TypeOK'
  BY <1>1, SnapshotTypes DEF StartTransaction, TypeOK, view
<1>2. ASSUME NEW x \in Tx, CommitTypedEdits(x) PROVE TypeOK'
  <2>1. PICK edits \in SessionEdits(snap[x]) :
          /\ generation' = generation + 1
          /\ dirty' = TRUE
          /\ rows' = AppliedRows(edits)
          /\ tables' = AppliedTables(edits)
          /\ pending' = AppliedPending(edits, generation + 1)
          /\ writes' = Recorded(writes, edits, generation + 1)
          /\ history' = history \cup {FootprintOf(x, edits, generation + 1)}
    BY <1>2 DEF CommitTypedEdits
  <2>2. edits \in [Tables -> TableEdit]
    BY SessionEditsType
  <2>3. generation + 1 \in Nat /\ generation + 1 > 0 /\ writes \in WriteLog \cup {NoLog}
    BY DEF TypeOK
  <2>4. /\ rows' \in RowSet
        /\ pending' \in [Tables -> [Keys -> Nat]]
        /\ tables' \in SUBSET Tables
    BY <2>1, <2>2, <2>3, AppliedType
  <2>5. writes' \in WriteLog
    BY <2>1, <2>2, <2>3, RecordedType
  <2>6. history' \in SUBSET Footprint
    BY <2>1, <2>2, FootprintType DEF TypeOK
  <2>7. active' \in SUBSET Tx /\ snap' \in [Tx -> Snapshot]
    BY <1>2, SnapshotTypes DEF CommitTypedEdits, Finish, TypeOK
  <2> QED
    BY <1>2, <2>1, <2>3, <2>4, <2>5, <2>6, <2>7 DEF CommitTypedEdits, TypeOK
<1>3. ASSUME NEW x \in Tx, EndTransaction(x) PROVE TypeOK'
  BY <1>3, SnapshotTypes DEF EndTransaction, Finish, TypeOK, view
<1>4. ASSUME NEW x \in Tx, CommitManifest(x) PROVE TypeOK'
  <2>1. active' \in SUBSET Tx /\ snap' \in [Tx -> Snapshot]
    BY <1>4, SnapshotTypes DEF CommitManifest, Finish, TypeOK
  <2>2. [base |-> generation, generation |-> generation + 1,
         rows |-> Tables \X Keys, claims |-> Tables \X Values,
         ddl |-> Tables, touched |-> Tables] \in Footprint
    BY DEF TypeOK, Footprint
  <2>3. history' \in SUBSET Footprint
    BY <1>4, <2>2 DEF CommitManifest, TypeOK
  <2>4. /\ generation' \in Nat /\ baseCommit' \in Nat
        /\ capture' \in Capture \cup {NoLog}
    BY <1>4 DEF CommitManifest, TypeOK
  <2>5. /\ dirty' = TRUE /\ tables' \in SUBSET Tables /\ rows' \in RowSet
        /\ pending' = NoPending /\ writes' = NoLog
    BY <1>4 DEF CommitManifest
  <2> QED
    BY <1>0, <2>1, <2>3, <2>4, <2>5 DEF TypeOK
<1>5. CASE CheckpointCapture
  BY <1>5, SnapshotTypes DEF CheckpointCapture, TypeOK, view, Capture
<1>6. CASE CheckpointPrepared
  <2>1. capture.snapshot.tables \in SUBSET Tables /\ capture.snapshot.rows \in RowSet
    BY <1>6 DEF CheckpointPrepared, TypeOK, Capture, Snapshot
  <2>2. CASE RecordCheckpoint(capture.snapshot.tables, capture.snapshot.rows)
    <3>1. /\ baseCommit' \in Nat /\ generation' \in Nat /\ dirty' = FALSE
          /\ tables' \in SUBSET Tables /\ rows' \in RowSet
          /\ pending' = NoPending /\ writes' = NoLog
      BY <2>1, <2>2 DEF RecordCheckpoint, TypeOK
    <3> QED
      BY <1>6, <1>0, <3>1 DEF CheckpointPrepared, TypeOK
  <2>3. CASE UNCHANGED view
    BY <1>6, <2>3 DEF CheckpointPrepared, TypeOK, view
  <2> QED
    BY <1>6, <2>2, <2>3 DEF CheckpointPrepared
<1>7. CASE Checkpoint
  <2>1. CASE RecordCheckpoint(tables, rows)
    <3>1. /\ baseCommit' \in Nat /\ generation' \in Nat /\ dirty' = FALSE
          /\ tables' \in SUBSET Tables /\ rows' \in RowSet
          /\ pending' = NoPending /\ writes' = NoLog
      BY <2>1 DEF RecordCheckpoint, TypeOK
    <3> QED
      BY <1>7, <1>0, <3>1 DEF Checkpoint, TypeOK
  <2>2. CASE UNCHANGED view
    BY <1>7, <2>2 DEF Checkpoint, TypeOK, view
  <2> QED
    BY <1>7, <2>1, <2>2 DEF Checkpoint
<1>8. CASE ReconcileHead
  BY <1>8 DEF ReconcileHead, TypeOK
<1>9. CASE UNCHANGED vars
  BY <1>9 DEF vars, view, TypeOK
<1> QED
  BY <1>1, <1>2, <1>3, <1>4, <1>5, <1>6, <1>7, <1>8, <1>9 DEF Next

\* The working state, the write log, the pinned snapshots and the captured
\* checkpoint stay well formed in every behaviour.
THEOREM TypeCorrect == Spec => []TypeOK
<1>1. Init => TypeOK
  <2> SUFFICES ASSUME Init PROVE TypeOK
    OBVIOUS
  <2>1. NoSnapshot \in Snapshot
    BY DEF NoSnapshot, Snapshot, RowSet, NoRows, Cells
  <2> QED
    BY <2>1 DEF Init, TypeOK, NoPending
<1> QED
  BY <1>1, TypeStep, PTL DEF Spec

-----------------------------------------------------------------------------
(* A journal commit.                                                        *)

\* What an accepted transaction wrote, it read: the rows it edits, the rows
\* that hold a key it claims, and whether each table it touches exists are
\* now as they were in its snapshot.
LEMMA CommitReadsCurrent ==
  ASSUME IInv, NEW x \in active, snap[x].commit = baseCommit,
         NEW edits \in SessionEdits(snap[x]),
         ~WriteConflict(snap[x].generation, edits),
         NEW t \in Tables, edits[t].kind # "none"
  PROVE  /\ t \in snap[x].tables <=> t \in tables
         /\ \A k \in Keys : edits[t].rows[k] # NoEdit =>
              snap[x].rows[t][k] = rows[t][k]
         /\ \A k \in Keys : rows[t][k] \in edits[t].claims =>
              snap[x].rows[t][k] = rows[t][k]
<1> DEFINE s == snap[x]
<1>1. s \in Snapshot /\ edits[t] \in TableEdit /\ SnapshotAgrees(s)
  BY SessionEditsType DEF IInv, TypeOK, SnapshotsAgree
<1>2. CASE s.generation = generation
  BY <1>1, <1>2 DEF SnapshotAgrees
<1>3. CASE s.generation # generation
  <2>1. writes \in WriteLog /\ s.generation >= writes.from
    BY <1>1, <1>3 DEF WriteConflict, IInv, TypeOK, Snapshot, WriteLog
  <2>2. ~TableConflict(s.generation, t, edits[t])
    BY <1>1, <1>3, <2>1, NoLogAssumption DEF WriteConflict
  <2>3. /\ writes.touched[t] \in Nat /\ writes.schema[t] \in Nat
        /\ s.generation \in Nat
        /\ \A k \in Keys : pending[t][k] \in Nat
        /\ \A v \in Values : writes.claims[t][v] \in Nat
    BY <1>1, <2>1 DEF WriteLog, Snapshot, IInv, TypeOK
  <2>4. /\ writes.schema[t] <= writes.touched[t]
        /\ \A k \in Keys : pending[t][k] <= writes.touched[t]
        /\ \A v \in Values : writes.claims[t][v] <= writes.touched[t]
    BY <2>1, NoLogAssumption DEF IInv, LogBounds
  <2>5. /\ writes.schema[t] <= s.generation
        /\ \A k \in Keys : edits[t].rows[k] # NoEdit => pending[t][k] <= s.generation
        /\ \A v \in edits[t].claims : v \in Values /\ writes.claims[t][v] <= s.generation
    <3>1. edits[t].claims \subseteq Values
      BY <1>1 DEF TableEdit
    <3>2. CASE writes.touched[t] <= s.generation
      BY <2>3, <2>4, <3>1, <3>2
    <3>3. CASE writes.touched[t] > s.generation
      BY <2>2, <2>3, <3>1, <3>3 DEF TableConflict
    <3> QED
      BY <2>3, <3>2, <3>3
  <2> QED
    BY <1>1, <2>1, <2>5, NoLogAssumption DEF SnapshotAgrees
<1> QED
  BY <1>2, <1>3

\* A rebased commit keeps unique keys unique although the transaction checked
\* them against its own, older snapshot.
LEMMA CommitConsistent ==
  ASSUME IInv, NEW x \in active, snap[x].commit = baseCommit,
         NEW edits \in SessionEdits(snap[x]),
         ~WriteConflict(snap[x].generation, edits)
  PROVE  Consistent(AppliedTables(edits), AppliedRows(edits))
<1> DEFINE s == snap[x]
<1>0. edits \in [Tables -> TableEdit] /\ rows \in RowSet /\ s \in Snapshot
  BY SessionEditsType DEF IInv, TypeOK
<1>1. ASSUME NEW t \in Tables PROVE UniqueRows(AppliedRows(edits)[t])
  <2> DEFINE e == edits[t]
             r == AppliedRows(edits)[t]
  <2>0. UniqueRows(rows[t])
    BY DEF IInv, WorkingConsistent, Consistent
  <2>1. CASE e.kind = "drop"
    <3>1. r = NoRows
      BY <2>1 DEF AppliedRows
    <3> QED
      BY <3>1, ConstantsAssumption DEF NoRows, UniqueRows
  <2>2. CASE e.kind = "none"
    <3>1. \A k \in Keys : e.rows[k] = NoEdit
      BY <2>2 DEF SessionEdits, TableEditOf
    <3>2. \A k \in Keys : r[k] = rows[t][k]
      BY <2>2, <3>1 DEF AppliedRows, Overlay
    <3> QED
      BY <2>0, <3>2 DEF UniqueRows
  <2>3. CASE e.kind \in {"rows", "schema"}
    <3>1. /\ UniqueRows(Overlay(s.rows[t], e.rows))
          /\ MustClaim(s.rows[t], e.rows) \subseteq e.claims
      BY <2>3 DEF SessionEdits, TableEditOf
    <3>2. /\ \A k \in Keys : e.rows[k] # NoEdit => s.rows[t][k] = rows[t][k]
          /\ \A k \in Keys : rows[t][k] \in e.claims => s.rows[t][k] = rows[t][k]
      BY <2>3, CommitReadsCurrent
    <3>3. \A k \in Keys : r[k] = IF e.rows[k] = NoEdit THEN rows[t][k] ELSE e.rows[k]
      BY <2>3 DEF AppliedRows, Overlay
    <3>4. \A k \in Keys : Overlay(s.rows[t], e.rows)[k] =
            IF e.rows[k] = NoEdit THEN s.rows[t][k] ELSE e.rows[k]
      BY DEF Overlay
    <3>5. ASSUME NEW k \in Keys, NEW l \in Keys, r[k] = r[l], r[k] \in Values,
                 e.rows[k] # NoEdit, e.rows[l] = NoEdit
          PROVE  k = l
      <4>1. r[k] = e.rows[k] /\ r[l] = rows[t][l]
        BY <3>3, <3>5
      <4>2. CASE e.rows[k] = s.rows[t][k]
        BY <2>0, <3>2, <3>5, <4>1, <4>2 DEF UniqueRows
      <4>3. CASE e.rows[k] # s.rows[t][k]
        <5>1. e.rows[k] \in e.claims
          BY <3>1, <3>5, <4>1, <4>3 DEF MustClaim
        <5>2. s.rows[t][l] = rows[t][l]
          BY <3>2, <3>5, <4>1, <5>1
        <5> QED
          BY <3>1, <3>4, <3>5, <4>1, <5>2 DEF UniqueRows
      <4> QED
        BY <4>2, <4>3
    <3>6. ASSUME NEW k \in Keys, NEW l \in Keys, r[k] = r[l], r[k] \in Values
          PROVE  k = l
      <4>1. CASE e.rows[k] # NoEdit /\ e.rows[l] # NoEdit
        BY <3>1, <3>3, <3>4, <3>6, <4>1 DEF UniqueRows
      <4>2. CASE e.rows[k] = NoEdit /\ e.rows[l] = NoEdit
        BY <2>0, <3>3, <3>6, <4>2 DEF UniqueRows
      <4> QED
        BY <3>5, <3>6, <4>1, <4>2
    <3> QED
      BY <3>6 DEF UniqueRows
  <2> QED
    BY <1>0, <2>1, <2>2, <2>3 DEF TableEdit
<1>2. ASSUME NEW t \in Tables, t \notin AppliedTables(edits), NEW k \in Keys
      PROVE  AppliedRows(edits)[t][k] = Absent
  <2>1. CASE edits[t].kind = "drop"
    BY <2>1 DEF AppliedRows, NoRows
  <2>2. CASE edits[t].kind # "drop"
    <3>1. t \notin tables /\ edits[t].kind # "schema"
      BY <1>2, <2>2 DEF AppliedTables
    <3>2. edits[t].kind # "rows"
      BY <3>1, CommitReadsCurrent DEF SessionEdits, TableEditOf
    <3>3. edits[t].kind = "none"
      BY <1>0, <2>2, <3>1, <3>2 DEF TableEdit
    <3>4. edits[t].rows[k] = NoEdit
      BY <3>3 DEF SessionEdits, TableEditOf
    <3>5. rows[t][k] = Absent
      BY <3>1 DEF IInv, WorkingConsistent, Consistent
    <3> QED
      BY <2>2, <3>4, <3>5 DEF AppliedRows, Overlay
  <2> QED
    BY <2>1, <2>2
<1> QED
  BY <1>1, <1>2 DEF Consistent

\* Where a commit's footprint comes from: the edits it made.
LEMMA FootprintFields ==
  ASSUME NEW x, NEW edits, NEW gen
  PROVE  LET f == FootprintOf(x, edits, gen) IN
         /\ f.base = snap[x].generation
         /\ f.generation = gen
         /\ \A t \in Tables, k \in Keys :
              <<t, k>> \in f.rows <=> edits[t].rows[k] # NoEdit
         /\ \A t \in Tables, v \in Values :
              <<t, v>> \in f.claims <=> v \in edits[t].claims
         /\ \A t : t \in f.ddl <=> t \in Tables /\ edits[t].kind \in {"schema", "drop"}
         /\ \A t : t \in f.touched <=> t \in Tables /\ edits[t].kind # "none"
         /\ f.rows \subseteq Tables \X Keys
         /\ f.claims \subseteq Tables \X Values
  BY DEF FootprintOf

\* A commit disjoint from everything the log covers is disjoint from every
\* commit since its base.
LEMMA CommitDisjoint ==
  ASSUME IInv, NEW x \in active,
         NEW edits \in SessionEdits(snap[x]),
         ~WriteConflict(snap[x].generation, edits),
         NEW a \in history, a.generation > snap[x].generation
  PROVE  Disjoint(a, FootprintOf(x, edits, generation + 1))
<1> DEFINE b == FootprintOf(x, edits, generation + 1)
           g == snap[x].generation
<1>1. /\ a \in Footprint /\ g \in Nat /\ generation \in Nat
      /\ edits \in [Tables -> TableEdit]
      /\ a.generation \in Nat /\ a.generation <= generation
  BY SessionEditsType DEF IInv, TypeOK, PastOnly, Snapshot, Footprint
<1>2. writes \in WriteLog /\ g >= writes.from /\ a.generation > writes.from
  BY <1>1 DEF WriteConflict, IInv, TypeOK, WriteLog
<1>3. /\ \A t \in a.touched : writes.touched[t] >= a.generation
      /\ \A t \in a.ddl : writes.schema[t] >= a.generation
      /\ \A t \in Tables, k \in Keys : <<t, k>> \in a.rows =>
           pending[t][k] >= a.generation \/ writes.schema[t] >= a.generation
      /\ \A t \in Tables, v \in Values : <<t, v>> \in a.claims =>
           writes.claims[t][v] >= a.generation
  BY <1>2, NoLogAssumption DEF IInv, LogCoversHistory
<1>4. \A t \in Tables : ~TableConflict(g, t, edits[t])
  BY <1>1, <1>2, NoLogAssumption DEF WriteConflict
<1>5. \A t \in Tables :
        /\ writes.touched[t] \in Nat /\ writes.schema[t] \in Nat
        /\ \A k \in Keys : pending[t][k] \in Nat
        /\ \A v \in Values : writes.claims[t][v] \in Nat
  BY <1>2 DEF WriteLog, IInv, TypeOK
<1>6. ASSUME NEW t \in Tables, t \in a.touched, edits[t].kind # "none"
      PROVE  /\ writes.schema[t] <= g
             /\ edits[t].kind \notin {"schema", "drop"}
             /\ \A k \in Keys : edits[t].rows[k] # NoEdit => pending[t][k] <= g
             /\ \A v \in edits[t].claims : v \in Values => writes.claims[t][v] <= g
  <2>1. writes.touched[t] > g
    BY <1>1, <1>3, <1>5, <1>6
  <2> QED
    BY <1>1, <1>4, <1>5, <1>6, <2>1 DEF TableConflict
<1>7. /\ \A t \in Tables, k \in Keys : <<t, k>> \in a.rows => t \in a.touched
      /\ \A t \in Tables, v \in Values : <<t, v>> \in a.claims => t \in a.touched
      /\ a.ddl \subseteq a.touched
      /\ a.rows \subseteq Tables \X Keys /\ a.claims \subseteq Tables \X Values
      /\ a.touched \subseteq Tables
  BY <1>1 DEF IInv, PastOnly, Footprint
<1>8. \A t \in Tables : /\ edits[t].kind = "none" =>
                            /\ edits[t].claims = {}
                            /\ \A k \in Keys : edits[t].rows[k] = NoEdit
  BY DEF SessionEdits, TableEditOf
<1>9. a.ddl \cap b.touched = {} /\ a.touched \cap b.ddl = {}
  <2>1. ASSUME NEW t \in a.ddl, t \in b.touched PROVE FALSE
    <3>1. t \in Tables /\ edits[t].kind # "none" /\ t \in a.touched
      BY <1>7, <2>1, FootprintFields
    <3> QED
      BY <1>1, <1>3, <1>5, <1>6, <3>1
  <2>2. ASSUME NEW t \in a.touched, t \in b.ddl PROVE FALSE
    <3>1. t \in Tables /\ edits[t].kind \in {"schema", "drop"}
      BY <2>2, FootprintFields
    <3> QED
      BY <1>6, <2>2, <3>1
  <2> QED
    BY <2>1, <2>2
<1>10. a.rows \cap b.rows = {}
  <2>1. ASSUME NEW t \in Tables, NEW k \in Keys, <<t, k>> \in a.rows, <<t, k>> \in b.rows
        PROVE  FALSE
    <3>1. edits[t].rows[k] # NoEdit /\ t \in a.touched
      BY <1>7, <2>1, FootprintFields
    <3>2. edits[t].kind # "none"
      BY <1>8, <3>1
    <3> QED
      BY <1>1, <1>3, <1>5, <1>6, <2>1, <3>1, <3>2
  <2> QED
    BY <1>7, <2>1
<1>11. a.claims \cap b.claims = {}
  <2>1. ASSUME NEW t \in Tables, NEW v \in Values, <<t, v>> \in a.claims, <<t, v>> \in b.claims
        PROVE  FALSE
    <3>1. v \in edits[t].claims /\ t \in a.touched
      BY <1>7, <2>1, FootprintFields
    <3>2. edits[t].kind # "none"
      BY <1>8, <3>1
    <3> QED
      BY <1>1, <1>3, <1>5, <1>6, <2>1, <3>1, <3>2
  <2> QED
    BY <1>7, <2>1
<1> QED
  BY <1>9, <1>10, <1>11 DEF Disjoint

\* CommitTypedEdits preserves the inductive invariant.
LEMMA CommitStep ==
  ASSUME IInv, TypeOK', NEW x \in Tx, CommitTypedEdits(x)
  PROVE  IInv'
<1>1. PICK edits \in SessionEdits(snap[x]) :
        /\ ~WriteConflict(snap[x].generation, edits)
        /\ generation' = generation + 1
        /\ dirty' = TRUE
        /\ rows' = AppliedRows(edits)
        /\ tables' = AppliedTables(edits)
        /\ pending' = AppliedPending(edits, generation + 1)
        /\ writes' = Recorded(writes, edits, generation + 1)
        /\ history' = history \cup {FootprintOf(x, edits, generation + 1)}
  BY DEF CommitTypedEdits
<1> DEFINE new == FootprintOf(x, edits, generation + 1)
<1>2. /\ x \in active /\ snap[x].commit = baseCommit
      /\ active' = active \ {x}
      /\ \A y \in active' : snap'[y] = snap[y]
      /\ baseCommit' = baseCommit /\ capture' = capture
  BY DEF CommitTypedEdits, Finish, IInv, TypeOK
<1>3. /\ edits \in [Tables -> TableEdit] /\ generation \in Nat
      /\ writes \in WriteLog \cup {NoLog}
      /\ writes' \in WriteLog /\ writes' # NoLog
  BY <1>1, SessionEditsType, RecordedType, NoLogAssumption DEF IInv, TypeOK
<1>4. /\ writes'.from = IF writes = NoLog THEN generation ELSE writes.from
      /\ \A t \in Tables :
           /\ writes'.schema[t] =
                IF edits[t].kind \in {"schema", "drop"} THEN generation + 1
                ELSE IF writes = NoLog THEN 0 ELSE writes.schema[t]
           /\ writes'.touched[t] =
                IF edits[t].kind # "none" THEN generation + 1
                ELSE IF writes = NoLog THEN 0 ELSE writes.touched[t]
           /\ \A v \in Values :
                writes'.claims[t][v] =
                  IF v \in edits[t].claims THEN generation + 1
                  ELSE IF writes = NoLog THEN 0 ELSE writes.claims[t][v]
  <2>1. writes' = Recorded(writes, edits, generation + 1)
    BY <1>1
  <2>2. (generation + 1) - 1 = generation
    BY <1>3
  <2>3. CASE writes = NoLog
    BY <2>1, <2>2, <2>3 DEF Recorded, EmptyLog
  <2>4. CASE writes # NoLog
    BY <2>1, <2>4 DEF Recorded
  <2> QED
    BY <2>3, <2>4
<1>5. \A t \in Tables, k \in Keys :
        pending'[t][k] = IF edits[t].kind = "drop" THEN 0
                         ELSE IF edits[t].rows[k] # NoEdit THEN generation + 1
                         ELSE pending[t][k]
  BY <1>1 DEF AppliedPending
<1>6. \A t \in Tables : edits[t].kind = "none" =>
        /\ edits[t].claims = {}
        /\ \A k \in Keys : edits[t].rows[k] = NoEdit
  BY DEF SessionEdits, TableEditOf
<1>7. /\ \A t \in Tables, k \in Keys : pending[t][k] \in Nat
      /\ writes # NoLog => /\ writes.from \in Nat /\ writes.from <= generation
                           /\ \A t \in Tables :
                                /\ writes.touched[t] \in Nat
                                /\ writes.touched[t] <= generation
                                /\ writes.schema[t] \in Nat
                                /\ writes.schema[t] <= writes.touched[t]
                                /\ \A k \in Keys : pending[t][k] <= writes.touched[t]
                                /\ \A v \in Values :
                                     /\ writes.claims[t][v] \in Nat
                                     /\ writes.claims[t][v] <= writes.touched[t]
      /\ writes = NoLog => \A t \in Tables, k \in Keys : pending[t][k] = 0
  BY <1>3 DEF IInv, TypeOK, LogBounds, WriteLog, NoPending
<1>8. LogBounds'
  <2>1. writes'.from <= generation'
    BY <1>1, <1>3, <1>4, <1>7
  <2>2. ASSUME NEW t \in Tables
        PROVE  /\ writes'.touched[t] <= generation'
               /\ writes'.schema[t] <= writes'.touched[t]
               /\ \A k \in Keys : pending'[t][k] <= writes'.touched[t]
               /\ \A v \in Values : writes'.claims[t][v] <= writes'.touched[t]
    BY <1>1, <1>3, <1>4, <1>5, <1>6, <1>7
  <2> QED
    BY <1>1, <1>3, <2>1, <2>2 DEF LogBounds
<1>9. PastOnly'
  <2>1. new.generation <= generation'
    BY <1>1, <1>3, FootprintFields
  <2>2. /\ \A t \in Tables, k \in Keys : <<t, k>> \in new.rows => t \in new.touched
        /\ \A t \in Tables, v \in Values : <<t, v>> \in new.claims => t \in new.touched
        /\ new.ddl \subseteq new.touched
    BY <1>6, FootprintFields
  <2>3. \A a \in history : a.generation \in Nat /\ a.generation <= generation
    BY DEF IInv, PastOnly, TypeOK, Footprint
  <2>4. \A a \in history' : a.generation <= generation'
    BY <1>1, <1>3, <2>1, <2>3
  <2>5. \A y \in active' : /\ snap'[y].generation <= generation'
                           /\ snap'[y].commit <= baseCommit'
    BY <1>1, <1>2, <1>3 DEF IInv, PastOnly, TypeOK, Snapshot
  <2>6. capture' # NoLog =>
          Consistent(capture'.snapshot.tables, capture'.snapshot.rows)
    BY <1>2 DEF IInv, PastOnly
  <2>7. \A a \in history :
          /\ \A t \in Tables, k \in Keys : <<t, k>> \in a.rows => t \in a.touched
          /\ \A t \in Tables, v \in Values : <<t, v>> \in a.claims => t \in a.touched
          /\ a.ddl \subseteq a.touched
    BY DEF IInv, PastOnly
  <2>8. \A a \in history' : a \in history \/ a = new
    BY <1>1
  <2>9. \A a \in history' :
          /\ \A t \in Tables, k \in Keys : <<t, k>> \in a.rows => t \in a.touched
          /\ \A t \in Tables, v \in Values : <<t, v>> \in a.claims => t \in a.touched
          /\ a.ddl \subseteq a.touched
    BY <2>2, <2>7, <2>8
  <2> QED
    BY <2>4, <2>5, <2>6, <2>9, Zenon DEF PastOnly, Consistent, UniqueRows
<1>10. LogCoversHistory'
  <2> SUFFICES ASSUME NEW a \in history', a.generation > writes'.from
               PROVE  /\ \A t \in a.touched : writes'.touched[t] >= a.generation
                      /\ \A t \in a.ddl : writes'.schema[t] >= a.generation
                      /\ \A t \in Tables, k \in Keys : <<t, k>> \in a.rows =>
                           \/ pending'[t][k] >= a.generation
                           \/ writes'.schema[t] >= a.generation
                      /\ \A t \in Tables, v \in Values : <<t, v>> \in a.claims =>
                           writes'.claims[t][v] >= a.generation
    BY DEF LogCoversHistory
  <2>1. CASE a = new
    <3>1. a.generation = generation + 1
      BY <2>1, FootprintFields
    <3>2. \A t \in a.touched : t \in Tables /\ writes'.touched[t] = generation + 1
      BY <1>4, <2>1, FootprintFields
    <3>3. \A t \in a.ddl : t \in Tables /\ writes'.schema[t] = generation + 1
      BY <1>4, <2>1, FootprintFields
    <3>4. \A t \in Tables, k \in Keys : <<t, k>> \in a.rows =>
            pending'[t][k] = generation + 1 \/ writes'.schema[t] = generation + 1
      BY <1>4, <1>5, <2>1, FootprintFields
    <3>5. \A t \in Tables, v \in Values : <<t, v>> \in a.claims =>
            writes'.claims[t][v] = generation + 1
      BY <1>4, <2>1, FootprintFields
    <3> QED
      BY <1>3, <3>1, <3>2, <3>3, <3>4, <3>5
  <2>2. CASE a \in history
    <3>1. a \in Footprint /\ a.generation \in Nat /\ a.generation <= generation
      BY <2>2 DEF IInv, PastOnly, TypeOK, Footprint
    <3>2. writes # NoLog /\ a.generation > writes.from
      BY <1>3, <1>4, <3>1
    <3>3. /\ \A t \in a.touched : writes.touched[t] >= a.generation
          /\ \A t \in a.ddl : writes.schema[t] >= a.generation
          /\ \A t \in Tables, k \in Keys : <<t, k>> \in a.rows =>
               pending[t][k] >= a.generation \/ writes.schema[t] >= a.generation
          /\ \A t \in Tables, v \in Values : <<t, v>> \in a.claims =>
               writes.claims[t][v] >= a.generation
      BY <2>2, <3>2 DEF IInv, LogCoversHistory
    <3>4. a.touched \subseteq Tables /\ a.ddl \subseteq Tables
      BY <3>1 DEF Footprint
    <3> QED
      BY <1>3, <1>4, <1>5, <1>7, <3>1, <3>2, <3>3, <3>4
  <2> QED
    BY <1>1, <2>1, <2>2
<1>11. SnapshotsAgree'
  <2> SUFFICES ASSUME NEW y \in active', snap'[y].commit = baseCommit'
               PROVE  SnapshotAgrees(snap[y])'
    BY <1>2 DEF SnapshotsAgree, SnapshotAgrees
  <2> DEFINE s == snap[y]
  <2>1. /\ y \in active /\ s.commit = baseCommit /\ snap'[y] = s
        /\ s \in Snapshot /\ s.generation \in Nat /\ s.generation <= generation
        /\ SnapshotAgrees(s)
    BY <1>2 DEF IInv, SnapshotsAgree, PastOnly, TypeOK, Snapshot
  <2>2. s.generation # generation'
    BY <1>1, <1>3, <2>1
  <2>3. ASSUME s.generation >= writes'.from, NEW t \in Tables,
               writes'.schema[t] <= s.generation
        PROVE  /\ t \in s.tables <=> t \in tables'
               /\ \A k \in Keys :
                    /\ pending'[t][k] <= s.generation => rows'[t][k] = s.rows[t][k]
                    /\ rows'[t][k] \in Values
                         /\ writes'.claims[t][rows'[t][k]] <= s.generation
                       => s.rows[t][k] = rows'[t][k]
    <3>1. edits[t].kind \in {"none", "rows"}
      BY <1>3, <1>4, <2>1, <2>3 DEF TableEdit
    <3>2. /\ t \in tables' <=> t \in tables
          /\ \A k \in Keys : rows'[t][k] =
               IF edits[t].rows[k] = NoEdit THEN rows[t][k] ELSE edits[t].rows[k]
      BY <1>1, <3>1 DEF AppliedTables, AppliedRows, Overlay
    <3>3. /\ t \in s.tables <=> t \in tables
          /\ \A k \in Keys :
               /\ pending[t][k] <= s.generation => rows[t][k] = s.rows[t][k]
               /\ rows[t][k] \in Values
                    /\ (writes = NoLog \/ writes.claims[t][rows[t][k]] <= s.generation)
                  => s.rows[t][k] = rows[t][k]
      <4>1. CASE writes = NoLog
        BY <1>3, <1>4, <2>1, <2>3, <4>1 DEF SnapshotAgrees
      <4>2. CASE writes # NoLog
        BY <1>4, <2>1, <2>3, <3>1, <4>2 DEF SnapshotAgrees
      <4> QED
        BY <4>1, <4>2
    <3>4. ASSUME NEW k \in Keys, pending'[t][k] <= s.generation
          PROVE  rows'[t][k] = s.rows[t][k]
      <4>1. edits[t].rows[k] = NoEdit /\ pending'[t][k] = pending[t][k]
        BY <1>3, <1>5, <2>1, <3>1, <3>4
      <4> QED
        BY <3>2, <3>3, <3>4, <4>1
    <3>5. ASSUME NEW k \in Keys, rows'[t][k] \in Values,
                 writes'.claims[t][rows'[t][k]] <= s.generation
          PROVE  s.rows[t][k] = rows'[t][k]
      <4>1. /\ rows'[t][k] \notin edits[t].claims
            /\ writes = NoLog \/ writes.claims[t][rows'[t][k]] <= s.generation
        BY <1>3, <1>4, <2>1, <3>5
      <4>2. rows'[t][k] = rows[t][k]
        <5>1. CASE edits[t].rows[k] = NoEdit
          BY <3>2, <5>1
        <5>2. CASE edits[t].rows[k] # NoEdit
          <6>1. edits[t].kind = "rows" /\ rows'[t][k] = edits[t].rows[k]
            BY <1>6, <3>1, <3>2, <5>2
          <6>2. MustClaim(snap[x].rows[t], edits[t].rows) \subseteq edits[t].claims
            BY <6>1 DEF SessionEdits, TableEditOf
          <6>3. edits[t].rows[k] = snap[x].rows[t][k]
            BY <3>5, <4>1, <6>1, <6>2 DEF MustClaim
          <6>4. snap[x].rows[t][k] = rows[t][k]
            BY <1>1, <1>2, <5>2, <6>1, CommitReadsCurrent
          <6> QED
            BY <6>1, <6>3, <6>4
        <5> QED
          BY <5>1, <5>2
      <4> QED
        BY <3>3, <3>5, <4>1, <4>2
    <3> QED
      BY <3>2, <3>3, <3>4, <3>5
  <2> QED
    BY <2>1, <2>2, <2>3 DEF SnapshotAgrees
<1>12. WorkingConsistent'
  <2>1. Consistent(AppliedTables(edits), AppliedRows(edits))
    BY <1>1, <1>2, CommitConsistent
  <2> QED
    BY <1>1, <2>1 DEF WorkingConsistent, Consistent, UniqueRows
<1>13. FirstCommitterWins'
  <2> SUFFICES ASSUME NEW a \in history', NEW b \in history',
                      b.base < a.generation, a.generation < b.generation
               PROVE  Disjoint(a, b)
    BY DEF FirstCommitterWins, Disjoint
  <2>1. a # new
    <3>1. \A c \in history' : c.generation \in Nat /\ c.generation <= generation + 1
      BY <1>1, <1>3, <1>9 DEF PastOnly, TypeOK, Footprint
    <3> QED
      BY <1>3, <3>1, FootprintFields
  <2>2. CASE b = new
    BY <1>1, <1>2, <2>1, <2>2, CommitDisjoint, FootprintFields
  <2>3. CASE b # new
    BY <1>1, <2>1, <2>3 DEF IInv, FirstCommitterWins
  <2> QED
    BY <2>2, <2>3
<1> QED
  BY <1>8, <1>9, <1>10, <1>11, <1>12, <1>13 DEF IInv

-----------------------------------------------------------------------------
(* The other operations.                                                    *)

\* A transaction begins with a snapshot that agrees with the log.
LEMMA StartStep ==
  ASSUME IInv, TypeOK', NEW x \in Tx, StartTransaction(x)
  PROVE  IInv'
<1> USE DEF StartTransaction, view
<1>1. /\ snap'[x] = CurrentSnapshot /\ \A y \in active : snap'[y] = snap[y]
      /\ active' = active \cup {x}
  BY DEF IInv, TypeOK
<1>2. /\ LogBounds' /\ LogCoversHistory' /\ WorkingConsistent' /\ FirstCommitterWins'
  BY DEF IInv, LogBounds, LogCoversHistory, WorkingConsistent, Consistent,
         UniqueRows, FirstCommitterWins, Disjoint
<1>3. CurrentSnapshot.generation = generation /\ CurrentSnapshot.commit = baseCommit
      /\ CurrentSnapshot.tables = tables /\ CurrentSnapshot.rows = rows
  BY DEF CurrentSnapshot
<1>4. PastOnly'
  <2>1. \A y \in active' : /\ snap'[y].generation <= generation
                           /\ snap'[y].commit <= baseCommit
    BY <1>1, <1>3 DEF IInv, PastOnly, TypeOK
  <2> QED
    BY <2>1 DEF IInv, PastOnly, Consistent, UniqueRows
<1>5. SnapshotsAgree'
  <2> SUFFICES ASSUME NEW y \in active', snap'[y].commit = baseCommit
               PROVE  SnapshotAgrees(snap[y])'
    BY DEF SnapshotsAgree, SnapshotAgrees
  <2>1. CASE y = x
    BY <1>1, <1>3, <2>1 DEF SnapshotAgrees
  <2>2. CASE y # x
    BY <1>1, <2>2 DEF IInv, SnapshotsAgree, SnapshotAgrees
  <2> QED
    BY <2>1, <2>2
<1> QED
  BY <1>2, <1>4, <1>5 DEF IInv

\* Ending a transaction without a commit keeps the inductive invariant.
LEMMA EndStep ==
  ASSUME IInv, TypeOK', NEW x \in Tx, EndTransaction(x)
  PROVE  IInv'
<1> USE DEF EndTransaction, view
<1>1. active' = active \ {x} /\ \A y \in active' : snap'[y] = snap[y]
  BY DEF IInv, TypeOK, Finish
<1>2. /\ LogBounds' /\ LogCoversHistory' /\ WorkingConsistent' /\ FirstCommitterWins'
  BY DEF IInv, LogBounds, LogCoversHistory, WorkingConsistent, Consistent,
         UniqueRows, FirstCommitterWins, Disjoint
<1>3. PastOnly'
  BY <1>1 DEF IInv, PastOnly, Consistent, UniqueRows
<1>4. SnapshotsAgree'
  BY <1>1 DEF IInv, SnapshotsAgree, SnapshotAgrees
<1> QED
  BY <1>2, <1>3, <1>4 DEF IInv

\* A whole-manifest commit restarts the log; its footprint is everything, and
\* nothing committed since its base.
LEMMA ManifestStep ==
  ASSUME IInv, TypeOK', NEW x \in Tx, CommitManifest(x)
  PROVE  IInv'
<1> DEFINE new == [base |-> generation, generation |-> generation + 1,
                   rows |-> Tables \X Keys, claims |-> Tables \X Values,
                   ddl |-> Tables, touched |-> Tables]
<1>1. /\ active' = active \ {x} /\ \A y \in active' : snap'[y] = snap[y]
      /\ generation' = generation + 1 /\ generation \in Nat
      /\ dirty' = TRUE /\ pending' = NoPending /\ writes' = NoLog
      /\ history' = history \cup {new} /\ baseCommit' = baseCommit
      /\ capture' = capture
  BY DEF CommitManifest, Finish, IInv, TypeOK
<1>2. \A a \in history' : a \in history \/ a = new
  BY <1>1
<1>3. LogBounds' /\ LogCoversHistory'
  BY <1>1 DEF LogBounds, LogCoversHistory, NoPending
<1>4. WorkingConsistent'
  BY DEF CommitManifest, WorkingConsistent, Consistent, UniqueRows
<1>5. PastOnly'
  <2>1. \A a \in history : a.generation \in Nat /\ a.generation <= generation
    BY DEF IInv, PastOnly, TypeOK, Footprint
  <2>2. \A a \in history' : a.generation <= generation'
    BY <1>1, <1>2, <2>1
  <2>3. \A a \in history' :
          /\ \A t \in Tables, k \in Keys : <<t, k>> \in a.rows => t \in a.touched
          /\ \A t \in Tables, v \in Values : <<t, v>> \in a.claims => t \in a.touched
          /\ a.ddl \subseteq a.touched
    BY <1>2 DEF IInv, PastOnly
  <2>4. \A y \in active' : /\ snap'[y].generation <= generation'
                           /\ snap'[y].commit <= baseCommit'
    BY <1>1 DEF IInv, PastOnly, TypeOK, Snapshot
  <2>5. capture' # NoLog =>
          Consistent(capture'.snapshot.tables, capture'.snapshot.rows)
    BY <1>1 DEF IInv, PastOnly
  <2> QED
    BY <2>2, <2>3, <2>4, <2>5, Zenon DEF PastOnly, Consistent, UniqueRows
<1>6. SnapshotsAgree'
  <2>1. \A y \in active' : snap'[y].generation # generation'
    BY <1>1 DEF IInv, PastOnly, TypeOK, Snapshot
  <2> QED
    BY <1>1, <2>1 DEF SnapshotsAgree, SnapshotAgrees
<1>7. FirstCommitterWins'
  <2> SUFFICES ASSUME NEW a \in history', NEW b \in history',
                      b.base < a.generation, a.generation < b.generation
               PROVE  Disjoint(a, b)
    BY DEF FirstCommitterWins, Disjoint
  <2>1. \A c \in history : c.generation \in Nat /\ c.generation <= generation
    BY DEF IInv, PastOnly, TypeOK, Footprint
  <2>2. a \in history /\ b \in history
    BY <1>1, <1>2, <2>1
  <2> QED
    BY <2>2 DEF IInv, FirstCommitterWins
<1> QED
  BY <1>3, <1>4, <1>5, <1>6, <1>7 DEF IInv

\* Capturing the working state for a checkpoint keeps the inductive invariant.
LEMMA CaptureStep ==
  ASSUME IInv, TypeOK', CheckpointCapture
  PROVE  IInv'
<1> USE DEF CheckpointCapture, view
<1>1. /\ LogBounds' /\ LogCoversHistory' /\ WorkingConsistent' /\ FirstCommitterWins'
  BY DEF IInv, LogBounds, LogCoversHistory, WorkingConsistent, Consistent,
         UniqueRows, FirstCommitterWins, Disjoint
<1>2. SnapshotsAgree'
  BY DEF IInv, SnapshotsAgree, SnapshotAgrees
<1>3. capture'.snapshot.tables = tables /\ capture'.snapshot.rows = rows
  BY DEF CurrentSnapshot
<1>4. PastOnly'
  BY <1>3 DEF IInv, PastOnly, WorkingConsistent, Consistent, UniqueRows
<1> QED
  BY <1>1, <1>2, <1>4 DEF IInv

\* A new data commit with consistent rows, clean and without a log: every
\* transaction that was running belongs to the old commit.
LEMMA NewCommitStep ==
  ASSUME IInv, TypeOK', baseCommit' = baseCommit + 1, writes' = NoLog,
         pending' = NoPending, dirty' = FALSE, Consistent(tables, rows)',
         PastOnly', UNCHANGED <<generation, active, snap, history>>
  PROVE  IInv'
<1>1. LogBounds' /\ LogCoversHistory'
  BY DEF LogBounds, LogCoversHistory, NoPending
<1>2. \A x \in active' : snap'[x].commit # baseCommit'
  BY DEF IInv, PastOnly, TypeOK, Snapshot
<1>3. SnapshotsAgree'
  BY <1>2 DEF SnapshotsAgree
<1>4. FirstCommitterWins'
  BY DEF IInv, FirstCommitterWins, Disjoint
<1>5. WorkingConsistent'
  BY DEF WorkingConsistent
<1> QED
  BY <1>1, <1>3, <1>4, <1>5 DEF IInv

\* Dropping the captured snapshot, and moving to a later commit, leave
\* snapshots and footprints in the past.
LEMMA PastStep ==
  ASSUME IInv, baseCommit' \in {baseCommit, baseCommit + 1},
         capture' \in {capture, NoLog},
         UNCHANGED <<generation, active, snap, history>>
  PROVE  PastOnly'
<1>1. \A x \in active' : /\ snap'[x].generation <= generation'
                         /\ snap'[x].commit <= baseCommit'
  BY DEF IInv, PastOnly, TypeOK, Snapshot
<1>2. capture' # NoLog =>
        Consistent(capture'.snapshot.tables, capture'.snapshot.rows)
  BY DEF IInv, PastOnly
<1> QED
  BY <1>1, <1>2 DEF IInv, PastOnly, Consistent, UniqueRows

\* A step that leaves the view and the transactions alone.
LEMMA IdleStep ==
  ASSUME IInv, TypeOK', capture' \in {capture, NoLog},
         UNCHANGED <<view, active, snap, history>>
  PROVE  IInv'
<1> USE DEF view
<1>1. PastOnly'
  BY PastStep
<1>2. /\ LogBounds' /\ LogCoversHistory' /\ WorkingConsistent' /\ FirstCommitterWins'
  BY DEF IInv, LogBounds, LogCoversHistory, WorkingConsistent, Consistent,
         UniqueRows, FirstCommitterWins, Disjoint
<1>3. SnapshotsAgree'
  BY DEF IInv, SnapshotsAgree, SnapshotAgrees
<1> QED
  BY <1>1, <1>2, <1>3 DEF IInv

\* Every operation preserves the inductive invariant.
LEMMA InvStep == IInv /\ [Next]_vars => IInv'
<1> SUFFICES ASSUME IInv, [Next]_vars PROVE IInv'
  OBVIOUS
<1>0. TypeOK'
  BY TypeStep DEF IInv
<1>1. ASSUME NEW x \in Tx, StartTransaction(x) PROVE IInv'
  BY <1>0, <1>1, StartStep
<1>2. ASSUME NEW x \in Tx, CommitTypedEdits(x) PROVE IInv'
  BY <1>0, <1>2, CommitStep
<1>3. ASSUME NEW x \in Tx, EndTransaction(x) PROVE IInv'
  BY <1>0, <1>3, EndStep
<1>4. ASSUME NEW x \in Tx, CommitManifest(x) PROVE IInv'
  BY <1>0, <1>4, ManifestStep
<1>5. CASE CheckpointCapture
  BY <1>0, <1>5, CaptureStep
<1>6. CASE CheckpointPrepared
  <2>0. capture' = NoLog /\ UNCHANGED <<active, snap, history>>
    BY <1>6 DEF CheckpointPrepared
  <2>1. CASE RecordCheckpoint(capture.snapshot.tables, capture.snapshot.rows)
    <3>1. /\ baseCommit' = baseCommit + 1 /\ writes' = NoLog /\ dirty' = FALSE
          /\ pending' = NoPending /\ generation' = generation
          /\ tables' = capture.snapshot.tables /\ rows' = capture.snapshot.rows
      BY <2>1 DEF RecordCheckpoint
    <3>2. Consistent(tables, rows)'
      BY <1>6, <3>1 DEF CheckpointPrepared, IInv, PastOnly, Consistent, UniqueRows
    <3>3. PastOnly'
      BY <2>0, <3>1, PastStep
    <3> QED
      BY <1>0, <2>0, <3>1, <3>2, <3>3, NewCommitStep
  <2>2. CASE UNCHANGED view
    BY <1>0, <2>0, <2>2, IdleStep
  <2> QED
    BY <1>6, <2>1, <2>2 DEF CheckpointPrepared
<1>7. CASE Checkpoint
  <2>0. capture' = NoLog /\ UNCHANGED <<active, snap, history>>
    BY <1>7 DEF Checkpoint
  <2>1. CASE RecordCheckpoint(tables, rows)
    <3>1. /\ baseCommit' = baseCommit + 1 /\ writes' = NoLog /\ dirty' = FALSE
          /\ pending' = NoPending /\ generation' = generation
          /\ tables' = tables /\ rows' = rows
      BY <2>1 DEF RecordCheckpoint
    <3>2. Consistent(tables, rows)'
      BY <3>1 DEF IInv, WorkingConsistent, Consistent, UniqueRows
    <3>3. PastOnly'
      BY <2>0, <3>1, PastStep
    <3> QED
      BY <1>0, <2>0, <3>1, <3>2, <3>3, NewCommitStep
  <2>2. CASE UNCHANGED view
    BY <1>0, <2>0, <2>2, IdleStep
  <2> QED
    BY <1>7, <2>1, <2>2 DEF Checkpoint
<1>8. CASE ReconcileHead
  <2>1. /\ baseCommit' = baseCommit + 1 /\ writes' = NoLog /\ capture' = capture
        /\ UNCHANGED <<generation, active, snap, history>>
    BY <1>8 DEF ReconcileHead
  <2>2. pending' = NoPending /\ dirty' = FALSE
    BY <1>8 DEF ReconcileHead, IInv, TypeOK, LogBounds
  <2>3. Consistent(tables, rows)'
    BY <1>8 DEF ReconcileHead, Consistent, UniqueRows
  <2>4. PastOnly'
    BY <2>1, PastStep
  <2> QED
    BY <1>0, <2>1, <2>2, <2>3, <2>4, NewCommitStep
<1>9. CASE UNCHANGED vars
  BY <1>0, <1>9, IdleStep DEF vars
<1> QED
  BY <1>1, <1>2, <1>3, <1>4, <1>5, <1>6, <1>7, <1>8, <1>9 DEF Next

\* The inductive invariant holds before any transaction.
LEMMA InitInv == Init => IInv
<1> SUFFICES ASSUME Init PROVE IInv
  OBVIOUS
<1>1. TypeOK
  <2>1. NoSnapshot \in Snapshot
    BY DEF NoSnapshot, Snapshot, RowSet, NoRows, Cells
  <2> QED
    BY <2>1 DEF Init, TypeOK, NoPending
<1>2. LogBounds /\ PastOnly /\ LogCoversHistory /\ SnapshotsAgree
  BY DEF Init, LogBounds, PastOnly, LogCoversHistory, SnapshotsAgree
<1>3. WorkingConsistent /\ FirstCommitterWins
  BY DEF Init, WorkingConsistent, FirstCommitterWins
<1> QED
  BY <1>1, <1>2, <1>3 DEF IInv

\* The inductive invariant holds of every behaviour.
THEOREM Invariance == Spec => []IInv
  BY InitInv, InvStep, PTL DEF Spec

\* No two accepted transactions that overlap in time wrote the same row, the
\* same unique key or a table the other altered (writeConflict), whatever
\* checkpoints, whole-manifest commits and publications came in between.
THEOREM FirstCommitterWinsHolds == Spec => []FirstCommitterWins
<1>1. IInv => FirstCommitterWins
  BY DEF IInv
<1> QED
  BY <1>1, Invariance, PTL

\* Rebased commits keep unique keys unique and dropped tables empty, although
\* every check they make is against a snapshot that may be out of date.
THEOREM WorkingConsistentHolds == Spec => []WorkingConsistent
<1>1. IInv => WorkingConsistent
  BY DEF IInv
<1> QED
  BY <1>1, Invariance, PTL

\* What the write log says of the keys a running transaction read is true.
THEOREM SnapshotsAgreeHolds == Spec => []SnapshotsAgree
<1>1. IInv => SnapshotsAgree
  BY DEF IInv
<1> QED
  BY <1>1, Invariance, PTL

\* The write log omits no write of a commit that it claims to cover.
THEOREM LogCoversHistoryHolds == Spec => []LogCoversHistory
<1>1. IInv => LogCoversHistory
  BY DEF IInv
<1> QED
  BY <1>1, Invariance, PTL

-----------------------------------------------------------------------------
(* The journal's transactions are snapshot transactions.                    *)

\* What a commit writes, in cells of SnapshotIsolation.
LEMMA WrittenCells ==
  ASSUME NEW a, a.rows \subseteq Tables \X Keys, NEW t \in Tables, NEW k \in Keys
  PROVE  /\ <<t, k>> \in Written(a) <=> <<t, k>> \in a.rows \/ t \in a.ddl
         /\ Written(a) \subseteq Tables \X Keys
  BY DEF Written

\* A transaction misses nothing of the view that it pinned.
LEMMA CurrentMissesNothing ==
  ASSUME IInv, NEW s, s.commit = baseCommit, s.generation = generation
  PROVE  MissedBy(s) = {}
<1>1. \A a \in history : ~(a.generation > generation)
  BY DEF IInv, TypeOK, PastOnly, Footprint
<1> QED
  BY <1>1 DEF MissedBy

\* StartTransaction begins a transaction on the database as it is.
LEMMA StartRefines ==
  ASSUME IInv, NEW x \in Tx, StartTransaction(x)
  PROVE  SI!Begin(x)
<1>1. /\ x \notin active /\ active' = active \cup {x} /\ x \in Tx /\ active \in SUBSET Tx
      /\ snap' = [snap EXCEPT ![x] = CurrentSnapshot] /\ snap \in [Tx -> Snapshot]
      /\ rows' = rows /\ baseCommit' = baseCommit /\ history' = history
  BY DEF StartTransaction, view, IInv, TypeOK
<1>2. /\ CurrentSnapshot.commit = baseCommit /\ CurrentSnapshot.generation = generation
      /\ CurrentSnapshot.rows = rows
  BY DEF CurrentSnapshot
<1>3. /\ snap'[x] = CurrentSnapshot
      /\ \A y \in active : y # x /\ snap'[y] = snap[y]
  BY <1>1
<1>4. \A s : MissedBy(s)' = MissedBy(s)
  BY <1>1 DEF MissedBy
<1>5. MissedBy(CurrentSnapshot) = {}
  BY <1>2, CurrentMissesNothing
<1>6. [y \in active |-> CellsOf(snap[y].rows)]' =
        [y \in active' |-> IF y = x THEN CellsOf(rows)
                           ELSE [z \in active |-> CellsOf(snap[z].rows)][y]]
  BY <1>1, <1>2, <1>3
<1>7. \A y \in active' : MissedBy(snap[y])' =
        IF y = x THEN {} ELSE [z \in active |-> MissedBy(snap[z])][y]
  BY <1>1, <1>3, <1>4, <1>5
<1> QED
  BY <1>1, <1>6, <1>7 DEF SI!Begin, CellsOf

\* EndTransaction aborts: the others read and miss what they did.
LEMMA EndRefines ==
  ASSUME IInv, NEW x \in Tx, EndTransaction(x)
  PROVE  SI!Abort(x)
<1>1. /\ x \in active /\ active' = active \ {x} /\ active \in SUBSET Tx
      /\ snap' = [snap EXCEPT ![x] = NoSnapshot] /\ snap \in [Tx -> Snapshot]
      /\ rows' = rows /\ baseCommit' = baseCommit /\ history' = history
  BY DEF EndTransaction, Finish, view, IInv, TypeOK
<1>2. \A y \in active' : y \in active /\ y # x /\ snap'[y] = snap[y]
  BY <1>1
<1>3. \A s : MissedBy(s)' = MissedBy(s)
  BY <1>1 DEF MissedBy
<1>4. /\ \A y \in active' : MissedBy(snap[y])' = [z \in active |-> MissedBy(snap[z])][y]
      /\ \A y \in active' : CellsOf(snap'[y].rows) = [z \in active |-> CellsOf(snap[z].rows)][y]
  BY <1>2, <1>3
<1> QED
  BY <1>1, <1>4 DEF SI!Abort, SI!Leave, CellsOf

\* An accepted commit of footprint f is a Commit of the cells that f writes.
LEMMA CommitRefines ==
  ASSUME IInv, NEW x \in Tx, x \in active, Finish(x), rows' \in RowSet,
         baseCommit' = baseCommit, NEW f, history' = history \cup {f},
         f.generation = generation + 1, f.rows \subseteq Tables \X Keys,
         Written(f) \cap MissedBy(snap[x]) = {},
         \A t \in Tables, k \in Keys : <<t, k>> \notin Written(f) => rows'[t][k] = rows[t][k]
  PROVE  SI!Commit(x)
<1>1. /\ active' = active \ {x} /\ active \in SUBSET Tx /\ snap \in [Tx -> Snapshot]
      /\ snap' = [snap EXCEPT ![x] = NoSnapshot] /\ generation \in Nat
  BY DEF Finish, IInv, TypeOK
<1>2. \A y \in active' : y \in active /\ y # x /\ snap'[y] = snap[y]
  BY <1>1
<1>3. Written(f) \in SUBSET (Tables \X Keys)
  BY DEF Written
<1>4. ASSUME NEW y \in active' PROVE MissedBy(snap[y])' = MissedBy(snap[y]) \cup Written(f)
  <2>1. PICK s \in Snapshot : s = snap[y] /\ s = snap'[y]
    BY <1>1, <1>2, <1>4
  <2>2. MissedBy(s)' = MissedBy(s) \cup Written(f)
    <3>1. CASE s.commit # baseCommit
      BY <1>3, <3>1 DEF MissedBy
    <3>2. CASE s.commit = baseCommit
      <4>1. f.generation > s.generation
        BY <1>1, <1>2, <1>4, <2>1 DEF IInv, PastOnly, Snapshot
      <4>2. {b \in history' : b.generation > s.generation} =
              {b \in history : b.generation > s.generation} \cup {f}
        BY <4>1
      <4>3. \A a : Written(a)' = Written(a)
        BY DEF Written
      <4> QED
        BY <3>2, <4>2, <4>3 DEF MissedBy
    <3> QED
      BY <3>1, <3>2
  <2> QED
    BY <2>1, <2>2
<1>5. CellsOf(rows') \in [Tables \X Keys -> Cells]
  BY DEF CellsOf, RowSet
<1>6. \A c \in (Tables \X Keys) \ Written(f) : CellsOf(rows')[c] = CellsOf(rows)[c]
  BY DEF CellsOf
<1>7. /\ \A y \in active' : MissedBy(snap[y])' = [z \in active |-> MissedBy(snap[z])][y] \cup Written(f)
      /\ \A y \in active' : CellsOf(snap'[y].rows) = [z \in active |-> CellsOf(snap[z].rows)][y]
  BY <1>2, <1>4
<1>8. Written(f) \cap [z \in active |-> MissedBy(snap[z])][x] = {}
  OBVIOUS
<1>9. \E cells \in SUBSET (Tables \X Keys) :
        /\ cells \cap [z \in active |-> MissedBy(snap[z])][x] = {}
        /\ CellsOf(rows)' \in [Tables \X Keys -> Cells]
        /\ \A c \in (Tables \X Keys) \ cells : CellsOf(rows)'[c] = CellsOf(rows)[c]
        /\ [z \in active |-> MissedBy(snap[z])]' =
             [y \in active \ {x} |-> [z \in active |-> MissedBy(snap[z])][y] \cup cells]
  <2>1. [z \in active |-> MissedBy(snap[z])]' =
          [y \in active \ {x} |-> [z \in active |-> MissedBy(snap[z])][y] \cup Written(f)]
    BY <1>1, <1>7
  <2>2. CellsOf(rows)' = CellsOf(rows')
    BY DEF CellsOf
  <2> QED
    BY <1>3, <1>5, <1>6, <1>8, <2>1, <2>2
<1>10. SI!Leave(x)
  BY <1>1, <1>7 DEF SI!Leave, CellsOf
<1> QED
  BY <1>9, <1>10 DEF SI!Commit

\* An accepted transaction of row edits writes nothing that it missed.
LEMMA TypedCommitRefines ==
  ASSUME IInv, NEW x \in Tx, CommitTypedEdits(x)
  PROVE  SI!Commit(x)
<1>1. PICK edits \in SessionEdits(snap[x]) :
        /\ ~WriteConflict(snap[x].generation, edits)
        /\ rows' = AppliedRows(edits)
        /\ history' = history \cup {FootprintOf(x, edits, generation + 1)}
  BY DEF CommitTypedEdits
<1>2. /\ x \in active /\ snap[x].commit = baseCommit /\ Finish(x) /\ baseCommit' = baseCommit
      /\ edits \in [Tables -> TableEdit] /\ rows \in RowSet
  BY SessionEditsType DEF CommitTypedEdits, IInv, TypeOK
<1>3. PICK f : f = FootprintOf(x, edits, generation + 1)
  OBVIOUS
<1>4. /\ f.generation = generation + 1 /\ f.rows \subseteq Tables \X Keys
      /\ \A t \in Tables, k \in Keys : <<t, k>> \in f.rows <=> edits[t].rows[k] # NoEdit
      /\ \A t \in Tables : t \in f.ddl <=> edits[t].kind \in {"schema", "drop"}
      /\ \A t \in Tables : t \in f.touched <=> edits[t].kind # "none"
  BY <1>3, FootprintFields
<1>5. rows' \in RowSet
  BY <1>1, <1>2, AppliedType DEF IInv, TypeOK
<1>6. Written(f) \cap MissedBy(snap[x]) = {}
  <2> SUFFICES ASSUME NEW t \in Tables, NEW k \in Keys, <<t, k>> \in Written(f),
                      NEW a \in history, a.generation > snap[x].generation,
                      <<t, k>> \in Written(a)
               PROVE  FALSE
    <3>1. MissedBy(snap[x]) =
            UNION {Written(a) : a \in {b \in history : b.generation > snap[x].generation}}
      BY <1>2 DEF MissedBy
    <3>2. Written(f) \subseteq Tables \X Keys
      BY <1>4 DEF Written
    <3> QED
      BY <3>1, <3>2
  <2>1. Disjoint(a, f)
    BY <1>1, <1>2, <1>3, CommitDisjoint
  <2>2. a.rows \subseteq Tables \X Keys
    BY DEF IInv, TypeOK, Footprint
  <2>3. <<t, k>> \in a.rows \/ t \in a.ddl
    BY <2>2, WrittenCells
  <2>4. <<t, k>> \in f.rows \/ t \in f.ddl
    BY <1>4, WrittenCells
  <2>5. t \in a.touched
    BY <2>3 DEF IInv, PastOnly
  <2>6. t \in f.touched
    <3>1. edits[t].kind = "none" => edits[t].rows[k] = NoEdit
      BY DEF SessionEdits, TableEditOf
    <3> QED
      BY <1>4, <2>4, <3>1
  <2> QED
    BY <2>1, <2>3, <2>4, <2>5, <2>6 DEF Disjoint
<1>7. \A t \in Tables, k \in Keys : <<t, k>> \notin Written(f) => rows'[t][k] = rows[t][k]
  <2> SUFFICES ASSUME NEW t \in Tables, NEW k \in Keys, <<t, k>> \notin Written(f)
               PROVE  rows'[t][k] = rows[t][k]
    OBVIOUS
  <2>1. edits[t].rows[k] = NoEdit /\ edits[t].kind # "drop"
    BY <1>4, WrittenCells
  <2> QED
    BY <1>1, <2>1 DEF AppliedRows, Overlay
<1>8. history' = history \cup {f}
  BY <1>1, <1>3
<1> QED
  BY <1>2, <1>4, <1>5, <1>6, <1>7, <1>8, CommitRefines

\* A whole manifest writes every cell, and missed none.
LEMMA ManifestRefines ==
  ASSUME IInv, NEW x \in Tx, CommitManifest(x)
  PROVE  SI!Commit(x)
<1>1. PICK f : f = [base |-> generation, generation |-> generation + 1,
                    rows |-> Tables \X Keys, claims |-> Tables \X Values,
                    ddl |-> Tables, touched |-> Tables]
  OBVIOUS
<1>2. /\ x \in active /\ Finish(x) /\ baseCommit' = baseCommit /\ rows' \in RowSet
      /\ history' = history \cup {f}
  BY <1>1 DEF CommitManifest
<1>3. f.generation = generation + 1 /\ f.rows = Tables \X Keys
  BY <1>1
<1>4. MissedBy(snap[x]) = {}
  BY CurrentMissesNothing DEF CommitManifest
<1>5. \A t \in Tables, k \in Keys : <<t, k>> \in Written(f)
  BY <1>3, WrittenCells
<1> QED
  BY <1>2, <1>3, <1>4, <1>5, CommitRefines

\* A new data commit leaves behind every transaction that pinned an older one.
LEMMA PublishRefines ==
  ASSUME IInv, rows' \in RowSet, baseCommit' = baseCommit + 1, UNCHANGED <<active, snap>>
  PROVE  SI!Publish
<1>1. ASSUME NEW y \in active PROVE MissedBy(snap[y])' = Tables \X Keys
  <2>1. snap[y].commit <= baseCommit /\ snap[y] \in Snapshot /\ baseCommit \in Nat
    BY DEF IInv, TypeOK, PastOnly
  <2>2. snap'[y].commit # baseCommit'
    BY <2>1 DEF Snapshot
  <2> QED
    BY <2>2 DEF MissedBy
<1>2. CellsOf(rows)' \in [Tables \X Keys -> Cells]
  BY DEF CellsOf, RowSet
<1> QED
  BY <1>1, <1>2 DEF SI!Publish, CellsOf

\* Everything else leaves the snapshot transactions alone.
LEMMA ElsewhereRefines ==
  ASSUME UNCHANGED <<view, active, snap, history>>
  PROVE  UNCHANGED SI!vars
<1>1. UNCHANGED <<rows, baseCommit, active, snap, history>>
  BY DEF view
<1> QED
  BY <1>1 DEF SI!vars, CellsOf, MissedBy, Written

\* Every step is a step of SnapshotIsolation or leaves its variables alone.
LEMMA StepRefines ==
  ASSUME IInv, [Next]_vars
  PROVE  [SI!Next]_(SI!vars)
<1>1. ASSUME NEW x \in Tx, StartTransaction(x) PROVE SI!Next
  BY <1>1, StartRefines DEF SI!Next
<1>2. ASSUME NEW x \in Tx, CommitTypedEdits(x) \/ CommitManifest(x) PROVE SI!Next
  BY <1>2, TypedCommitRefines, ManifestRefines DEF SI!Next
<1>3. ASSUME NEW x \in Tx, EndTransaction(x) PROVE SI!Next
  BY <1>3, EndRefines DEF SI!Next
<1>4. CASE CheckpointCapture
  BY <1>4, ElsewhereRefines DEF CheckpointCapture
<1>5. CASE CheckpointPrepared
  <2>1. CASE RecordCheckpoint(capture.snapshot.tables, capture.snapshot.rows)
    <3>1. capture.snapshot.rows \in RowSet
      BY <1>5 DEF CheckpointPrepared, IInv, TypeOK, Capture, Snapshot
    <3>2. SI!Publish
      BY <1>5, <2>1, <3>1, PublishRefines DEF CheckpointPrepared, RecordCheckpoint
    <3> QED
      BY <3>2 DEF SI!Next
  <2>2. CASE UNCHANGED view
    BY <1>5, <2>2, ElsewhereRefines DEF CheckpointPrepared
  <2> QED
    BY <1>5, <2>1, <2>2 DEF CheckpointPrepared
<1>6. CASE Checkpoint
  <2>1. CASE RecordCheckpoint(tables, rows)
    <3>1. SI!Publish
      BY <1>6, <2>1, PublishRefines DEF Checkpoint, RecordCheckpoint, IInv, TypeOK
    <3> QED
      BY <3>1 DEF SI!Next
  <2>2. CASE UNCHANGED view
    BY <1>6, <2>2, ElsewhereRefines DEF Checkpoint
  <2> QED
    BY <1>6, <2>1, <2>2 DEF Checkpoint
<1>7. CASE ReconcileHead
  <2>1. SI!Publish
    BY <1>7, PublishRefines DEF ReconcileHead
  <2> QED
    BY <2>1 DEF SI!Next
<1>8. CASE UNCHANGED vars
  BY <1>8, ElsewhereRefines DEF vars
<1> QED
  BY <1>1, <1>2, <1>3, <1>4, <1>5, <1>6, <1>7, <1>8 DEF Next

\* Every behaviour of the journal's transactions is one of snapshot isolation: each
\* reads the database as it was when it began, and commits only if nobody wrote a
\* cell it writes since (CommitTypedEdits, writeConflict), although the code decides
\* this from generations, a write log and pending edits that checkpoints discard.
THEOREM SnapshotIsolationImplemented == Spec => ImplementsSnapshotIsolation
<1>1. Init => SI!Init
  BY DEF Init, SI!Init, CellsOf, RowSet
<1>2. IInv /\ [Next]_vars => [SI!Next]_(SI!vars)
  BY StepRefines
<1> QED
  BY <1>1, <1>2, Invariance, PTL DEF Spec, ImplementsSnapshotIsolation, SI!Spec

=============================================================================
