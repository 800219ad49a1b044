---------------------------- MODULE TypedCommit ----------------------------
(***************************************************************************)
(* Journal transactions of RepoDB: what WorkingState.CommitTypedEdits       *)
(* accepts, how the write log (writelog.go) decides it, and what            *)
(* checkpoints and publications do to the state transactions read.          *)
(*                                                                         *)
(* Every operation of a WorkingState runs under working.lock, so each is    *)
(* one step here; what is concurrent is the transactions, which pin a       *)
(* snapshot and commit later, and Engine.Checkpoint, which reads the        *)
(* working state first and takes the lock afterwards.  The file beneath     *)
(* (frames, crashes, replay) is module Journal.                             *)
(***************************************************************************)
EXTENDS Naturals

CONSTANTS
  Tx,             \* sessions: each runs one transaction at a time
  Tables,
  Keys,           \* encoded primary keys
  Values,         \* non-NULL keys of a table's unique index
  Null,           \* a row whose indexed column is NULL
  Absent,         \* no row; as an edit, a delete
  NoEdit,         \* the transaction did not write this key
  NoLog,          \* a nil *writeLog
  MaxGeneration,  \* bound on journal commits
  MaxCommit       \* bound on data commits

Cells == Values \cup {Null, Absent}

ASSUME ConstantsAssumption ==
  /\ MaxGeneration \in Nat
  /\ MaxCommit \in Nat \ {0}
  /\ Null \notin Values
  /\ Absent \notin Values \cup {Null}
  /\ NoEdit \notin Cells

VARIABLES
  baseCommit,  \* workingView.baseCommit, the commit of view.snapshot
  generation,  \* workingView.generation
  dirty,       \* workingView.dirty
  tables,      \* the tables of view.snapshot.Manifest
  rows,        \* the visible rows: the base trees under the pending edits
  pending,     \* generation of the pending edit of each key, 0 when none
  writes,      \* workingView.writes
  active,      \* transactions between StartTransaction and their commit
  snap,        \* the snapshot each one pinned
  capture,     \* the snapshot Engine.Checkpoint builds trees from, or NoLog
  history      \* auxiliary: the journal commits so far and what they wrote

view == <<baseCommit, generation, dirty, tables, rows, pending, writes>>
vars == <<view, active, snap, capture, history>>

-----------------------------------------------------------------------------
(* Types.                                                                   *)

RowSet == [Tables -> [Keys -> Cells]]

Snapshot ==
  [commit: Nat, generation: Nat, tables: SUBSET Tables, rows: RowSet]

\* writeLog and tableWrites.
WriteLog ==
  [from: Nat, schema: [Tables -> Nat], touched: [Tables -> Nat],
   claims: [Tables -> [Values -> Nat]]]

\* TypedTableEdit: "none" is a table the transaction did not make dirty,
\* "schema" one it created or altered.
TableEdit ==
  [kind: {"none", "rows", "schema", "drop"},
   rows: [Keys -> Cells \cup {NoEdit}],
   claims: SUBSET Values]

Footprint ==
  [base: Nat, generation: Nat, rows: SUBSET (Tables \X Keys),
   claims: SUBSET (Tables \X Values), ddl: SUBSET Tables,
   touched: SUBSET Tables]

\* What Engine.Checkpoint carries from working.Current to the lock.
Capture == [snapshot: Snapshot, typed: BOOLEAN]

ASSUME NoLogAssumption == NoLog \notin WriteLog \cup Capture

TypeOK ==
  /\ baseCommit \in Nat
  /\ generation \in Nat
  /\ dirty \in BOOLEAN
  /\ tables \in SUBSET Tables
  /\ rows \in RowSet
  /\ pending \in [Tables -> [Keys -> Nat]]
  /\ writes \in WriteLog \cup {NoLog}
  /\ active \in SUBSET Tx
  /\ snap \in [Tx -> Snapshot]
  /\ capture \in Capture \cup {NoLog}
  /\ history \in SUBSET Footprint

-----------------------------------------------------------------------------
(* Rows and edits.                                                          *)

\* No two rows of a table hold the same unique-index key; rows with a NULL
\* never collide (encodeIndexKey appends the primary key to theirs).
UniqueRows(r) ==
  \A k, l \in Keys : r[k] = r[l] /\ r[k] \in Values => k = l

\* The database's rows at some commit: unique keys, and no rows outside the
\* manifest's tables.
Consistent(ts, rs) ==
  /\ \A t \in Tables : UniqueRows(rs[t])
  /\ \A t \in Tables \ ts : \A k \in Keys : rs[t][k] = Absent

\* PendingRows.with: an edit wins over what is below it.
Overlay(r, e) == [k \in Keys |-> IF e[k] = NoEdit THEN r[k] ELSE e[k]]

NoRows == [k \in Keys |-> Absent]

\* The unique-index keys a transaction put: uniqueClaims returns every key
\* whose last local index edit is a put.  A row that takes a new key puts it;
\* a row that ends at the key it had put it only if it left it in between.
MustClaim(r, e) == {e[k] : k \in {l \in Keys : e[l] \in Values /\ e[l] # r[l]}}
MayClaim(e) == {e[k] : k \in {l \in Keys : e[l] \in Values}}

\* What the statements of one transaction can leave in a table's state: the
\* editor checks every put against the index as the transaction sees it, and
\* a dropped table is no longer among tx.tables.
TableEditOf(s, t, e) ==
  \/ /\ e.kind \in {"none", "drop"}
     /\ e.kind = "drop" => t \in s.tables
     /\ \A k \in Keys : e.rows[k] = NoEdit
     /\ e.claims = {}
  \/ /\ e.kind \in {"rows", "schema"}
     /\ e.kind = "rows" => t \in s.tables
     /\ UniqueRows(Overlay(s.rows[t], e.rows))
     /\ MustClaim(s.rows[t], e.rows) \subseteq e.claims
     /\ e.claims \subseteq MayClaim(e.rows)

\* The edits session.commitTypedEdits hands to the journal.
SessionEdits(s) ==
  {edits \in [Tables -> TableEdit] :
     /\ \E t \in Tables : edits[t].kind # "none"
     /\ \A t \in Tables : TableEditOf(s, t, edits[t])}

-----------------------------------------------------------------------------
(* The write log.                                                           *)

\* Seeded fault: no look at the pending edits.
TableConflictIgnoresRows(base, t, e) ==
  /\ e.kind # "none"
  /\ writes.touched[t] > base
  /\ \/ writes.schema[t] > base
     \/ e.kind \in {"schema", "drop"}
     \/ \E v \in e.claims : writes.claims[t][v] > base

\* Seeded fault: no look at the claimed unique keys.
TableConflictIgnoresClaims(base, t, e) ==
  /\ e.kind # "none"
  /\ writes.touched[t] > base
  /\ \/ writes.schema[t] > base
     \/ e.kind \in {"schema", "drop"}
     \/ \E k \in Keys : e.rows[k] # NoEdit /\ pending[t][k] > base

\* writeConflict's checks for one table edit.
TableConflict(base, t, e) ==
  /\ e.kind # "none"
  /\ writes.touched[t] > base
  /\ \/ writes.schema[t] > base
     \/ e.kind \in {"schema", "drop"}
     \/ \E k \in Keys : e.rows[k] # NoEdit /\ pending[t][k] > base
     \/ \E v \in e.claims : writes.claims[t][v] > base

\* Seeded fault: a view without a log is taken for one without writes.
WriteConflictNeedsLog(base, edits) ==
  /\ base # generation
  /\ \/ base > generation
     \/ /\ writes # NoLog
        /\ \/ base < writes.from
           \/ \E t \in Tables : TableConflict(base, t, edits[t])

\* workingView.writeConflict
WriteConflict(base, edits) ==
  /\ base # generation
  /\ \/ base > generation
     \/ writes = NoLog
     \/ /\ writes # NoLog
        /\ \/ base < writes.from
           \/ \E t \in Tables : TableConflict(base, t, edits[t])

\* Seeded fault: a new log claims to cover everything.
EmptyLogFromStart(from) ==
  [from |-> 0, schema |-> [t \in Tables |-> 0],
   touched |-> [t \in Tables |-> 0],
   claims |-> [t \in Tables |-> [v \in Values |-> 0]]]

\* Seeded fault: a new log claims one generation too many.
EmptyLogOneBelow(from) ==
  [from |-> from - 1, schema |-> [t \in Tables |-> 0],
   touched |-> [t \in Tables |-> 0],
   claims |-> [t \in Tables |-> [v \in Values |-> 0]]]

\* A log that covers the commits above a generation.
EmptyLog(from) ==
  [from |-> from, schema |-> [t \in Tables |-> 0],
   touched |-> [t \in Tables |-> 0],
   claims |-> [t \in Tables |-> [v \in Values |-> 0]]]

\* Seeded fault: a drop is not a schema change.
RecordedForgetsDrop(log, edits, gen) ==
  LET l == IF log = NoLog THEN EmptyLog(gen - 1) ELSE log
  IN [from |-> l.from,
      schema |-> [t \in Tables |->
        IF edits[t].kind = "schema" THEN gen ELSE l.schema[t]],
      touched |-> [t \in Tables |->
        IF edits[t].kind # "none" THEN gen ELSE l.touched[t]],
      claims |-> [t \in Tables |-> [v \in Values |->
        IF v \in edits[t].claims THEN gen ELSE l.claims[t][v]]]]

\* writeLog.recorded
Recorded(log, edits, gen) ==
  LET l == IF log = NoLog THEN EmptyLog(gen - 1) ELSE log
  IN [from |-> l.from,
      schema |-> [t \in Tables |->
        IF edits[t].kind \in {"schema", "drop"} THEN gen ELSE l.schema[t]],
      touched |-> [t \in Tables |->
        IF edits[t].kind # "none" THEN gen ELSE l.touched[t]],
      claims |-> [t \in Tables |-> [v \in Values |->
        IF v \in edits[t].claims THEN gen ELSE l.claims[t][v]]]]

\* The rows after applyTypedEditsToSnapshot.
AppliedRows(edits) ==
  [t \in Tables |-> IF edits[t].kind = "drop" THEN NoRows
                    ELSE Overlay(rows[t], edits[t].rows)]

\* Its pending edits: a drop deletes the table's entry.
AppliedPending(edits, gen) ==
  [t \in Tables |-> [k \in Keys |->
     IF edits[t].kind = "drop" THEN 0
     ELSE IF edits[t].rows[k] # NoEdit THEN gen ELSE pending[t][k]]]

AppliedTables(edits) ==
  {t \in Tables : \/ edits[t].kind = "schema"
                  \/ t \in tables /\ edits[t].kind # "drop"}

NoPending == [t \in Tables |-> [k \in Keys |-> 0]]

-----------------------------------------------------------------------------
(* Initial states: an opened repository with a clean journal.               *)

CurrentSnapshot ==
  [commit |-> baseCommit, generation |-> generation,
   tables |-> tables, rows |-> rows]

NoSnapshot ==
  [commit |-> 0, generation |-> 0, tables |-> {},
   rows |-> [t \in Tables |-> NoRows]]

Init ==
  /\ baseCommit = 1
  /\ generation = 0
  /\ dirty = FALSE
  /\ tables \in SUBSET Tables
  /\ rows \in RowSet
  /\ Consistent(tables, rows)
  /\ pending = NoPending
  /\ writes = NoLog
  /\ active = {}
  /\ snap = [x \in Tx |-> NoSnapshot]
  /\ capture = NoLog
  /\ history = {}

-----------------------------------------------------------------------------
(* Transactions.                                                            *)

\* session.StartTransaction pins the snapshot working.Current returns.
StartTransaction(x) ==
  /\ x \notin active
  /\ active' = active \cup {x}
  /\ snap' = [snap EXCEPT ![x] = CurrentSnapshot]
  /\ UNCHANGED <<view, capture, history>>

\* A transaction is over once it commits, conflicts or rolls back.
Finish(x) ==
  /\ active' = active \ {x}
  /\ snap' = [snap EXCEPT ![x] = NoSnapshot]

FootprintOf(x, edits, gen) ==
  [base |-> snap[x].generation, generation |-> gen,
   rows |-> {tk \in Tables \X Keys : edits[tk[1]].rows[tk[2]] # NoEdit},
   claims |-> {tv \in Tables \X Values : tv[2] \in edits[tv[1]].claims},
   ddl |-> {t \in Tables : edits[t].kind \in {"schema", "drop"}},
   touched |-> {t \in Tables : edits[t].kind # "none"}]

\* WorkingState.CommitTypedEdits, accepted: the edits go on top of whatever
\* committed since the transaction's base.
CommitTypedEdits(x) ==
  /\ x \in active
  /\ generation < MaxGeneration
  /\ snap[x].commit = baseCommit
  /\ \E edits \in SessionEdits(snap[x]) :
       /\ ~WriteConflict(snap[x].generation, edits)
       /\ generation' = generation + 1
       /\ dirty' = TRUE
       /\ rows' = AppliedRows(edits)
       /\ tables' = AppliedTables(edits)
       /\ pending' = AppliedPending(edits, generation + 1)
       /\ writes' = Recorded(writes, edits, generation + 1)
       /\ history' = history \cup {FootprintOf(x, edits, generation + 1)}
  /\ Finish(x)
  /\ UNCHANGED <<baseCommit, capture>>

\* The transaction ends with ErrConflict (CommitTransaction drops it), or its
\* session rolls it back.
EndTransaction(x) ==
  /\ x \in active
  /\ Finish(x)
  /\ UNCHANGED <<view, capture, history>>

\* WorkingState.Commit: a whole manifest, accepted only on the very
\* generation it was built from.  It leaves no pending edits and no log.
CommitManifest(x) ==
  /\ x \in active
  /\ generation < MaxGeneration
  /\ snap[x].generation = generation
  /\ snap[x].commit = baseCommit
  /\ tables' \in SUBSET Tables
  /\ rows' \in RowSet
  /\ Consistent(tables', rows')
  /\ generation' = generation + 1
  /\ dirty' = TRUE
  /\ pending' = NoPending
  /\ writes' = NoLog
  /\ history' = history \cup
       {[base |-> generation, generation |-> generation + 1,
         rows |-> Tables \X Keys, claims |-> Tables \X Values,
         ddl |-> Tables, touched |-> Tables]}
  /\ Finish(x)
  /\ UNCHANGED <<baseCommit, capture>>

-----------------------------------------------------------------------------
(* Checkpoints.                                                             *)

\* Engine.Checkpoint reads the working state and, without holding any lock,
\* builds Prolly trees from it (checkpointTypedEdits).
CheckpointCapture ==
  /\ capture = NoLog
  /\ capture' = [snapshot |-> CurrentSnapshot, typed |-> writes # NoLog]
  /\ UNCHANGED <<view, active, snap, history>>

\* A checkpoint record: replay continues clean from the published commit, at
\* the generation the view had.
RecordCheckpoint(ts, rs) ==
  /\ baseCommit < MaxCommit
  /\ baseCommit' = baseCommit + 1
  /\ dirty' = FALSE
  /\ tables' = ts
  /\ rows' = rs
  /\ pending' = NoPending
  /\ writes' = NoLog
  /\ UNCHANGED generation

\* WorkingState.CheckpointPrepared publishes the trees built from the captured
\* snapshot.  The publication compares the data head with the writer's
\* expected commit; a clean journal needs no checkpoint.
CheckpointPrepared ==
  /\ capture # NoLog
  /\ capture.typed
  /\ capture' = NoLog
  /\ \/ /\ dirty /\ capture.snapshot.commit = baseCommit
        /\ RecordCheckpoint(capture.snapshot.tables, capture.snapshot.rows)
     \/ /\ ~(dirty /\ capture.snapshot.commit = baseCommit)
        /\ UNCHANGED view
  /\ UNCHANGED <<active, snap, history>>

\* WorkingState.Checkpoint publishes the view it loads under the lock, and
\* refuses pending rows (ErrPendingRowEdits).
Checkpoint ==
  /\ capture # NoLog
  /\ ~capture.typed
  /\ capture' = NoLog
  /\ \/ /\ dirty /\ pending = NoPending
        /\ RecordCheckpoint(tables, rows)
     \/ /\ ~(dirty /\ pending = NoPending)
        /\ UNCHANGED view
  /\ UNCHANGED <<active, snap, history>>

\* A publication that is not this journal's checkpoint (native-Git commit,
\* fast-forward, merge) needs a clean journal; the next load adopts the new
\* head (reconcileHead), whose generation stays the view's.
ReconcileHead ==
  /\ ~dirty
  /\ baseCommit < MaxCommit
  /\ baseCommit' = baseCommit + 1
  /\ tables' \in SUBSET Tables
  /\ rows' \in RowSet
  /\ Consistent(tables', rows')
  /\ writes' = NoLog
  /\ UNCHANGED <<generation, dirty, pending, active, snap, capture, history>>

Next ==
  \/ \E x \in Tx : \/ StartTransaction(x)
                   \/ CommitTypedEdits(x)
                   \/ EndTransaction(x)
                   \/ CommitManifest(x)
  \/ CheckpointCapture
  \/ CheckpointPrepared
  \/ Checkpoint
  \/ ReconcileHead

Spec == Init /\ [][Next]_vars

-----------------------------------------------------------------------------
(* Properties.                                                              *)

Disjoint(a, b) ==
  /\ a.rows \cap b.rows = {}
  /\ a.claims \cap b.claims = {}
  /\ a.ddl \cap b.touched = {}
  /\ a.touched \cap b.ddl = {}

\* First-committer-wins snapshot isolation (CommitTypedEdits, writeConflict):
\* if a committed after b pinned its snapshot and before b committed, their
\* writes are disjoint - rows, unique-index claims and schema changes - across
\* checkpoints, whole-manifest commits and log restarts.
FirstCommitterWins ==
  \A a, b \in history :
    b.base < a.generation /\ a.generation < b.generation => Disjoint(a, b)

\* Each transaction checks unique keys and tables only against its own
\* snapshot (editor.Insert, editor.Update, DropTable), yet the working state
\* that rebased commits, checkpoints and publications build never holds two
\* rows with one unique key, nor rows of a table that was dropped.
WorkingConsistent == Consistent(tables, rows)

\* What the log promises a transaction whose snapshot it covers (the comment
\* on writeLog): a key with no newer pending edit still holds the row the
\* transaction read, and a unique key without a newer claim is held only by
\* the rows that held it in the snapshot.
SnapshotAgrees(s) ==
  /\ s.generation = generation => s.rows = rows /\ s.tables = tables
  /\ writes # NoLog /\ s.generation >= writes.from =>
       \A t \in Tables : writes.schema[t] <= s.generation =>
         /\ t \in s.tables <=> t \in tables
         /\ \A k \in Keys :
              /\ pending[t][k] <= s.generation => rows[t][k] = s.rows[t][k]
              /\ rows[t][k] \in Values
                   /\ writes.claims[t][rows[t][k]] <= s.generation
                 => s.rows[t][k] = rows[t][k]

SnapshotsAgree ==
  \A x \in active : snap[x].commit = baseCommit => SnapshotAgrees(snap[x])

\* The log forgets nothing it claims to cover: every commit above from is
\* visible in it, a row either through its pending edit or, when the table was
\* dropped or altered since, through the table's schema generation ("it
\* records every write above it", writeLog.from).
LogCoversHistory ==
  writes # NoLog =>
    \A a \in history : a.generation > writes.from =>
      /\ \A t \in a.touched : writes.touched[t] >= a.generation
      /\ \A t \in a.ddl : writes.schema[t] >= a.generation
      /\ \A t \in Tables, k \in Keys : <<t, k>> \in a.rows =>
           \/ pending[t][k] >= a.generation
           \/ writes.schema[t] >= a.generation
      /\ \A t \in Tables, v \in Values : <<t, v>> \in a.claims =>
           writes.claims[t][v] >= a.generation

\* The rest of the inductive invariant: the log's entries are bounded by the
\* table's newest write and by the generation, a view without a log has no
\* pending edits, and snapshots and footprints are of past generations.
LogBounds ==
  /\ writes = NoLog => pending = NoPending
  /\ ~dirty => writes = NoLog
  /\ writes # NoLog =>
       /\ writes.from <= generation
       /\ \A t \in Tables :
            /\ writes.touched[t] <= generation
            /\ writes.schema[t] <= writes.touched[t]
            /\ \A k \in Keys : pending[t][k] <= writes.touched[t]
            /\ \A v \in Values : writes.claims[t][v] <= writes.touched[t]

PastOnly ==
  /\ \A a \in history :
       /\ a.generation <= generation
       /\ \A t \in Tables, k \in Keys : <<t, k>> \in a.rows => t \in a.touched
       /\ \A t \in Tables, v \in Values : <<t, v>> \in a.claims => t \in a.touched
       /\ a.ddl \subseteq a.touched
  /\ \A x \in active : /\ snap[x].generation <= generation
                        /\ snap[x].commit <= baseCommit
  /\ capture # NoLog =>
       Consistent(capture.snapshot.tables, capture.snapshot.rows)

IInv ==
  /\ TypeOK
  /\ LogBounds
  /\ PastOnly
  /\ LogCoversHistory
  /\ SnapshotsAgree
  /\ WorkingConsistent
  /\ FirstCommitterWins

\* The refinement mapping to SnapshotIsolation: a cell is a row of a table, and
\* a schema change writes the whole table.
Written(a) ==
  a.rows \cup {tk \in Tables \X Keys : tk[1] \in a.ddl}

MissedBy(s) ==
  IF s.commit # baseCommit THEN Tables \X Keys
  ELSE UNION {Written(a) : a \in {b \in history : b.generation > s.generation}}

CellsOf(r) == [tk \in Tables \X Keys |-> r[tk[1]][tk[2]]]

SI == INSTANCE SnapshotIsolation WITH
  Cell <- Tables \X Keys,
  Value <- Cells,
  db <- CellsOf(rows),
  read <- [x \in active |-> CellsOf(snap[x].rows)],
  missed <- [x \in active |-> MissedBy(snap[x])]

\* The journal's transactions are snapshot transactions: every step of
\* TypedCommit is one of SnapshotIsolation or leaves its state alone.
ImplementsSnapshotIsolation == SI!Spec

\* A checkpoint leaves the working state it marks clean as it was ("no later
\* generation can be marked clean by mistake", WorkingState.Checkpoint).
CheckpointKeepsWorkingState ==
  [][dirty /\ ~dirty' => rows' = rows /\ tables' = tables]_vars
=============================================================================
