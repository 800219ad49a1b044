----------------------------- MODULE IndexEdits -----------------------------
(***************************************************************************)
(* Secondary indexes between two checkpoints (engine/catalog.go,            *)
(* engine/engine.go).  A transaction keeps its row edits and, beside them,   *)
(* the edits they imply to every index.  Index edits are derived from the    *)
(* rows on first use, undone with a failed statement, shared through a cache *)
(* of the engine when the transaction ends, carried over to a commit that    *)
(* was rebased, and derived once more by a checkpoint.                       *)
(*                                                                         *)
(* Trees and sets of edits are functions here: an index tree maps index keys *)
(* to primary keys, a set of edits maps index keys to a primary key or to    *)
(* Deleted.  A row is the value of its one indexed column.                   *)
(***************************************************************************)
EXTENDS Naturals, Sequences, FiniteSets, SequencesExt

CONSTANTS
  Sessions,
  Tables,
  Keys,           \* encoded primary keys
  Values,         \* values of the indexed column, besides Null
  Null,
  Absent,         \* no row; as an edit, a delete
  NoEdit,
  Deleted,        \* the delete of an index entry
  Nil,
  IndexNames,
  Unique,         \* the indexes that are unique
  Alters,         \* the schema changes of a run
  Ignoring,       \* statements may go on behind a failed row (INSERT IGNORE)
  MaxGeneration,  \* bound on journal commits
  MaxCommit,      \* bound on data commits
  MaxTx,          \* bound on transactions
  MaxRows,        \* bound on the rows a behaviour begins with
  MaxOps          \* bound on the row operations and schema changes

Cells == Values \cup {Null}

ASSUME IndexAssumption ==
  /\ Unique \subseteq IndexNames
  /\ Alters \subseteq {"create", "drop", "modify"}
  /\ Ignoring \in BOOLEAN
  /\ {MaxGeneration, MaxCommit, MaxTx, MaxRows, MaxOps} \subseteq Nat
  /\ Null \notin Values
  /\ {Absent, NoEdit, Deleted, Nil} \cap (Cells \cup Keys) = {}
  /\ Absent # NoEdit
  /\ Nil \notin Tables
  /\ IsFiniteSet(IndexNames)

VARIABLES
  commit,      \* the data commit the journal is based on
  disk,        \* its tables: schema, rows and the index trees it has
  generation,
  schema,      \* the schemas of the working state
  pending,     \* the row edits of the journal since the data commit
  log,         \* what each generation since the data commit wrote
  cache,       \* database.indexEdits with its commit and generation
  session,     \* the running transaction of each session, or Nil
  ops,         \* the row operations and schema changes so far
  started,     \* the transactions so far
  transient    \* auxiliary: tables whose cached view a commit may have spoilt

shared == <<commit, disk, generation, schema, pending, log, cache>>
vars == <<shared, session, ops, started, transient>>

-----------------------------------------------------------------------------
(* Indexes of rows.                                                         *)

\* A column's collation decides how its values are encoded; it changes when the
\* column does.  A key of a unique index has no primary key unless it is NULL.
encodeIndexKey(sch, i, k, v) ==
  <<sch.collation, v, IF v = Null \/ i \notin Unique THEN k ELSE Nil>>

Present(rows) == {k \in Keys : rows[k] # Absent}

\* The index of some rows: buildIndexTreeForDef, rebuildIndexesFromTree.
IndexOf(sch, i, rows) ==
  LET key(k) == encodeIndexKey(sch, i, k, rows[k])
  IN  [e \in {key(k) : k \in Present(rows)} |->
         CHOOSE k \in Present(rows) : key(k) = e]

Duplicate(sch, i, rows) ==
  \E k, l \in Present(rows) :
    k # l /\ encodeIndexKey(sch, i, k, rows[k]) = encodeIndexKey(sch, i, l, rows[l])

Empty == [e \in {} |-> Nil]

\* A tree with edits applied: prolly.Apply, or a scan that merges the two.
Applied(tree, view) ==
  [e \in {e \in DOMAIN tree \cup DOMAIN view :
            e \in DOMAIN view => view[e] # Deleted} |->
     IF e \in DOMAIN view THEN view[e] ELSE tree[e]]

\* The last of some edits that is of a key.
Latest(edits, e) ==
  CHOOSE n \in DOMAIN edits :
    edits[n].key = e /\ \A m \in DOMAIN edits : edits[m].key = e => m <= n

\* PendingRows.With: the edits win over the view, and the last one of a key wins.
With(view, edits) ==
  LET edited == {edits[n].key : n \in DOMAIN edits}
  IN  [e \in DOMAIN view \cup edited |->
         IF e \in edited THEN edits[Latest(edits, e)].value ELSE view[e]]

\* indexOverlay.view
View(overlay) == With(overlay.base, overlay.local)

Indexes(sch) == ToSet(sch.indexes)

-----------------------------------------------------------------------------
(* What a transaction sees of a table: its own edits over the pending edits  *)
(* of its snapshot over the data tree.                                       *)

Overlay(snap, t, st) ==
  [k \in Keys |-> IF st.edits[k] # NoEdit THEN st.edits[k] ELSE snap.pending[t][k]]

Patched(rows, edits) == [k \in Keys |-> IF edits[k] = NoEdit THEN rows[k] ELSE edits[k]]

Visible(snap, t, st) == Patched(snap.disk[t].rows, Overlay(snap, t, st))

lookupRow(snap, t, st, k) ==
  IF st.rows # Nil THEN st.rows[k] ELSE Visible(snap, t, st)[k]

ensureRows(snap, t, st) ==
  IF st.rows # Nil THEN st.rows ELSE Visible(snap, t, st)

\* Seeded fault: removals win over additions of the same key.
deriveIndexEditsRemovalsLast(table, sch, i, edits) ==
  LET edited  == {k \in Keys : edits[k] # NoEdit}
      old(k)  == encodeIndexKey(sch, i, k, table.rows[k])
      new(k)  == encodeIndexKey(sch, i, k, edits[k])
      moved   == {k \in edited : table.rows[k] # edits[k]}
      removed == {old(k) : k \in {k \in moved : table.rows[k] # Absent}}
      added   == {k \in moved : edits[k] # Absent}
  IN  [e \in removed \cup {new(k) : k \in added} |->
         IF e \in removed THEN Deleted ELSE CHOOSE k \in added : new(k) = e]

\* The edits that row edits imply to an index: entries of the old rows go,
\* entries of the new rows come, and additions win over removals.
deriveIndexEdits(table, sch, i, edits) ==
  LET edited  == {k \in Keys : edits[k] # NoEdit}
      old(k)  == encodeIndexKey(sch, i, k, table.rows[k])
      new(k)  == encodeIndexKey(sch, i, k, edits[k])
      moved   == {k \in edited : table.rows[k] # edits[k]}
      removed == {old(k) : k \in {k \in moved : table.rows[k] # Absent}}
      added   == {k \in moved : edits[k] # Absent}
  IN  [e \in removed \cup {new(k) : k \in added} |->
         IF \E k \in added : new(k) = e THEN CHOOSE k \in added : new(k) = e
                                        ELSE Deleted]

Persisted(snap, t) == DOMAIN snap.disk[t].trees

\* ensureIndexEdits: a persisted index needs the edits of the overlay, another
\* one is built from all rows, which stay materialized.
ensureIndexEdits(snap, t, st) ==
  IF st.idx # Empty \/ st.schema.indexes = <<>> THEN st
  ELSE LET base(i) == IF i \in Persisted(snap, t)
                      THEN deriveIndexEdits(snap.disk[t], st.schema, i, Overlay(snap, t, st))
                      ELSE IndexOf(st.schema, i, ensureRows(snap, t, st))
       IN  [st EXCEPT
              !.idx  = [i \in Indexes(st.schema) |-> [base |-> base(i), local |-> <<>>]],
              !.rows = IF Indexes(st.schema) \subseteq Persisted(snap, t)
                       THEN @ ELSE ensureRows(snap, t, st)]

Tree(snap, t, i) == IF i \in Persisted(snap, t) THEN snap.disk[t].trees[i] ELSE Empty

\* The entries a lookup through an index finds.
Entries(snap, t, st, i) == Applied(Tree(snap, t, i), View(st.idx[i]))

lookupIndexKey(snap, t, st, i, e) == e \in DOMAIN Entries(snap, t, st, i)

\* addIndexEdit, of some edits of one index.
addIndexEdit(overlay, edits) == [overlay EXCEPT !.local = @ \o edits]

-----------------------------------------------------------------------------
(* Sessions.                                                                *)

Snapshot ==
  [commit |-> commit, generation |-> generation, disk |-> disk, pending |-> pending]

NoEdits == [k \in Keys |-> NoEdit]

CacheHit == cache # Nil /\ cache.commit = commit /\ cache.generation = generation

\* The views the cache has of a table; none without an entry of it.
CachedViews(t) == IF cache # Nil /\ t \in DOMAIN cache.views THEN cache.views[t] ELSE Empty

FreshTable(t) ==
  [schema |-> schema[t], edits |-> NoEdits, rows |-> Nil,
   idx |-> IF CacheHit
           THEN [i \in DOMAIN CachedViews(t) |->
                   [base |-> CachedViews(t)[i], local |-> <<>>]]
           ELSE Empty,
   dirty |-> FALSE, schemaDirty |-> FALSE]

\* No statement is running.
NoStmt == [table |-> Nil, failed |-> FALSE, before |-> Empty, lens |-> Empty, seen |-> Empty]

StartTransaction(s) ==
  /\ session[s] = Nil
  /\ started < MaxTx
  /\ session' = [session EXCEPT ![s] =
       [snap |-> Snapshot, tables |-> [t \in Tables |-> FreshTable(t)],
        stmt |-> NoStmt]]
  /\ started' = started + 1
  /\ UNCHANGED <<shared, ops, transient>>

Table(s, t) == session[s].tables[t]

Seen(s, t) == Visible(session[s].snap, t, Table(s, t))

\* What a transaction reads is its snapshot, so its statements commute with the
\* commits and checkpoints of others and are taken before them.
OnCurrent(s) ==
  /\ session[s] # Nil
  /\ session[s].snap.commit = commit
  /\ session[s].snap.generation = generation

\* Ended by DDL, which commits implicitly: no statement follows it.
Changeable(s) == OnCurrent(s) /\ \A t \in Tables : ~Table(s, t).schemaDirty

\* A query that looks rows up through an index of a table (newIndexRowIter).
Lookup(s, t) ==
  /\ Changeable(s)
  /\ session[s].stmt = NoStmt
  /\ Table(s, t).idx = Empty
  /\ session' = [session EXCEPT ![s].tables[t] = ensureIndexEdits(session[s].snap, t, @)]
  /\ UNCHANGED <<shared, ops, started, transient>>

\* The editor of a statement: undo information of the rows it touched, and how
\* many edits each index had.  before is the first state of each touched row.
StatementBegin(s, t) ==
  /\ Changeable(s)
  /\ session[s].stmt = NoStmt
  /\ ops < MaxOps
  /\ LET st == ensureIndexEdits(session[s].snap, t, Table(s, t)) IN
       session' = [session EXCEPT
         ![s].tables[t] = st,
         ![s].stmt = [table |-> t, failed |-> FALSE, before |-> Empty,
                      lens |-> [i \in DOMAIN st.idx |-> Len(st.idx[i].local)],
                      seen |-> Visible(session[s].snap, t, st)]]
  /\ UNCHANGED <<shared, ops, started, transient>>

StatementComplete(s) ==
  /\ session[s] # Nil
  /\ session[s].stmt # NoStmt
  /\ ~session[s].stmt.failed
  /\ session' = [session EXCEPT ![s].stmt = NoStmt]
  /\ UNCHANGED <<shared, ops, started, transient>>

\* The overlay of an index with its first n edits.
Truncated(overlay, n) == [overlay EXCEPT !.local = SubSeq(@, 1, n)]

\* What DiscardChanges makes of the table of a statement.
Undone(st, stmt) ==
  LET touched == DOMAIN stmt.before
  IN  [st EXCEPT
         !.edits = [k \in Keys |-> IF k \in touched THEN stmt.before[k].edit ELSE @[k]],
         !.rows  = IF @ = Nil THEN Nil
                   ELSE [k \in Keys |-> IF k \in touched THEN stmt.before[k].row ELSE @[k]],
         !.idx   = [i \in DOMAIN @ |-> Truncated(@[i], stmt.lens[i])]]

DiscardChanges(s) ==
  /\ session[s] # Nil
  /\ session[s].stmt # NoStmt
  /\ LET stmt == session[s].stmt IN
       session' = [session EXCEPT ![s].tables[stmt.table] = Undone(@, stmt),
                                  ![s].stmt = NoStmt]
  /\ UNCHANGED <<shared, ops, started, transient>>

-----------------------------------------------------------------------------
(* Row operations of a statement.                                           *)

\* setEdit
setEdit(st, k, v) ==
  [st EXCEPT !.edits[k] = v, !.rows = IF @ = Nil THEN Nil ELSE [@ EXCEPT ![k] = v]]

\* Seeded fault: the newest state before an operation is kept, not the first.
rememberLatest(stmt, st, k, row) ==
  [stmt EXCEPT !.before = [l \in DOMAIN @ \cup {k} |->
     IF l = k THEN [row |-> row, edit |-> st.edits[k]] ELSE @[l]]]

\* editor.remember: the row and the edit a key had when it was first touched.
remember(stmt, st, k, row) ==
  IF k \in DOMAIN stmt.before THEN stmt
  ELSE [stmt EXCEPT !.before = [l \in DOMAIN @ \cup {k} |->
          IF l = k THEN [row |-> row, edit |-> st.edits[k]] ELSE @[l]]]

\* A row operation on a statement's table: it changes the state to st and the
\* undo information to stmt, or fails behind having done so.
RowOp(s, st, stmt, failed) ==
  /\ session' = [session EXCEPT
       ![s].tables[stmt.table] = [st EXCEPT !.dirty = @ \/ ~failed],
       ![s].stmt = [stmt EXCEPT !.failed = failed /\ ~Ignoring]]
  /\ ops' = ops + 1
  /\ UNCHANGED <<shared, started, transient>>

Editing(s) ==
  /\ session[s] # Nil
  /\ session[s].stmt # NoStmt
  /\ ~session[s].stmt.failed
  /\ ops < MaxOps

\* The index edits of an operation, index by index until a unique one collides.
\* old and new are rows or Absent; k and l the keys they are stored under.
\* Result: the table with the edits made so far, and whether all were made.
EditIndexes(snap, t, st, k, old, l, new) ==
  LET order   == st.schema.indexes
      gone(i) == encodeIndexKey(st.schema, i, k, old)
      come(i) == encodeIndexKey(st.schema, i, l, new)
      same(i) == old # Absent /\ new # Absent /\ gone(i) = come(i)
      collides(i) ==
        /\ new # Absent /\ ~same(i)
        /\ i \in Unique /\ new # Null
        /\ lookupIndexKey(snap, t, st, i, come(i))
      stops   == {n \in DOMAIN order : collides(order[n])}
      reached == {order[n] : n \in {n \in DOMAIN order : \A m \in stops : n < m}}
      cut(i)  == IF old = Absent \/ same(i) THEN <<>>
                 ELSE <<[key |-> gone(i), value |-> Deleted]>>
      put(i)  == IF new = Absent \/ (same(i) /\ k = l) THEN <<>>
                 ELSE <<[key |-> come(i), value |-> l]>>
  IN  [ok |-> stops = {},
       st |-> IF reached = {} THEN st
              ELSE [st EXCEPT !.idx = [i \in DOMAIN @ |->
                      IF i \in reached THEN addIndexEdit(@[i], cut(i) \o put(i)) ELSE @[i]]]]

\* editor.Insert.  Inserting a primary key that exists changes nothing.
Insert(s, k, v) ==
  /\ Editing(s)
  /\ LET stmt == session[s].stmt
         st   == Table(s, stmt.table)
         made == EditIndexes(session[s].snap, stmt.table, st, k, Absent, k, v)
     IN  /\ lookupRow(session[s].snap, stmt.table, st, k) = Absent
         /\ IF made.ok
            THEN RowOp(s, setEdit(made.st, k, v), remember(stmt, st, k, Absent), FALSE)
            ELSE RowOp(s, made.st, stmt, TRUE)

\* editor.Delete
Delete(s, k) ==
  /\ Editing(s)
  /\ LET stmt == session[s].stmt
         st   == Table(s, stmt.table)
         row  == lookupRow(session[s].snap, stmt.table, st, k)
         made == EditIndexes(session[s].snap, stmt.table, st, k, row, k, Absent)
     IN  /\ row # Absent
         /\ RowOp(s, setEdit(made.st, k, Absent), remember(stmt, st, k, row), FALSE)

\* editor.Update of the row at k into the row v at l.  A changed primary key is
\* deleted before the indexes are checked.  A row that is not there, or a key that
\* exists, fails the statement without an edit; DiscardChanges can follow anyway.
Update(s, k, l, v) ==
  /\ Editing(s)
  /\ LET stmt == session[s].stmt
         st   == Table(s, stmt.table)
         snap == session[s].snap
         row  == lookupRow(snap, stmt.table, st, k)
         kept == remember(stmt, st, k, row)
         both == IF k = l THEN kept ELSE remember(kept, st, l, Absent)
         cut  == IF k = l THEN st ELSE setEdit(st, k, Absent)
         made == EditIndexes(snap, stmt.table, cut, k, row, l, v)
     IN  /\ row # Absent
         /\ k # l \/ row # v
         /\ k # l => lookupRow(snap, stmt.table, st, l) = Absent
         /\ IF made.ok THEN RowOp(s, setEdit(made.st, l, v), both, FALSE)
                       ELSE RowOp(s, made.st, both, TRUE)

-----------------------------------------------------------------------------
(* Schema changes.  DDL commits what ran before it, so it finds a transaction *)
(* without edits, and is committed itself before anything else runs.          *)

Unedited(s) ==
  /\ Changeable(s)
  /\ ops < MaxOps
  /\ session[s].stmt = NoStmt
  /\ \A t \in Tables : ~Table(s, t).dirty

Alter(s, t, st) ==
  /\ session' = [session EXCEPT ![s].tables[t] =
       [st EXCEPT !.dirty = TRUE, !.schemaDirty = TRUE]]
  /\ ops' = ops + 1
  /\ UNCHANGED <<shared, started, transient>>

CreateIndex(s, t, i) ==
  /\ "create" \in Alters
  /\ Unedited(s)
  /\ LET st == Table(s, t) IN
       /\ i \notin Indexes(st.schema)
       /\ i \in Unique => ~Duplicate(st.schema, i, Seen(s, t))
       /\ Alter(s, t, [st EXCEPT
            !.schema.indexes = Append(@, i),
            !.rows = IF i \in Unique THEN ensureRows(session[s].snap, t, st) ELSE @])

DropIndex(s, t, i) ==
  /\ "drop" \in Alters
  /\ Unedited(s)
  /\ LET st == Table(s, t) IN
       \E n \in DOMAIN st.schema.indexes :
         /\ st.schema.indexes[n] = i
         /\ Alter(s, t, [st EXCEPT
              !.schema.indexes = RemoveAt(@, n),
              !.idx = [j \in DOMAIN @ \ {i} |-> @[j]]])

\* ModifyColumn of the indexed column: every row is written again.
ModifyColumn(s, t) ==
  /\ "modify" \in Alters
  /\ Unedited(s)
  /\ LET st == Table(s, t)
         rows == ensureRows(session[s].snap, t, st) IN
       Alter(s, t, [st EXCEPT
         !.schema.collation = @ + 1, !.idx = Empty, !.rows = rows,
         !.edits = [k \in Keys |-> IF rows[k] = Absent THEN NoEdit ELSE rows[k]]])

-----------------------------------------------------------------------------
(* The end of a transaction.                                                *)

\* Seeded fault: no unique value is claimed.
uniqueClaimsNone(t, st) == {}

\* The keys a transaction added to unique indexes.
uniqueClaims(t, st) ==
  UNION {{<<t, i, e>> : e \in {e \in DOMAIN With(Empty, st.idx[i].local) :
                                 With(Empty, st.idx[i].local)[e] # Deleted}} :
           i \in Indexes(st.schema) \cap Unique \cap DOMAIN st.idx}

Dirty(s) == {t \in Tables : Table(s, t).dirty}

\* What commitTypedEdits hands to the journal.
Written(s) ==
  [rows   |-> UNION {{<<t, k>> : k \in {k \in Keys : Table(s, t).edits[k] # NoEdit}} :
                       t \in Dirty(s)},
   claims |-> UNION {uniqueClaims(t, Table(s, t)) : t \in Dirty(s)},
   tables |-> Dirty(s),
   schema |-> {t \in Dirty(s) : Table(s, t).schemaDirty}]

\* writeLog.conflict, as module TypedCommit has it in full.
Conflict(s) ==
  \/ session[s].snap.commit # commit
  \/ \E g \in session[s].snap.generation + 1 .. generation :
       \/ log[g].rows \cap Written(s).rows # {}
       \/ log[g].claims \cap Written(s).claims # {}
       \/ log[g].schema \cap Written(s).tables # {}
       \/ log[g].tables \cap Written(s).schema # {}

indexViews(idx) == [i \in DOMAIN idx |-> View(idx[i])]

\* rebaseIndexViews: the edits of a rebased transaction on top of current views.
rebaseIndexViews(current, idx) ==
  IF DOMAIN current # DOMAIN idx THEN Empty
  ELSE [i \in DOMAIN idx |-> With(current[i], idx[i].local)]

\* Seeded fault: a table the transaction only read keeps the view it derived.
CacheEntryOwnViews(st, rebased, carried) ==
  IF st.schemaDirty THEN Empty
  ELSE IF st.idx # Empty /\ ~st.dirty THEN indexViews(st.idx)
  ELSE IF rebased THEN rebaseIndexViews(carried, st.idx)
  ELSE IF st.idx # Empty THEN indexViews(st.idx)
  ELSE IF ~st.dirty THEN carried ELSE Empty

\* What storeIndexEdits keeps of a table; Empty for nothing.
CacheEntry(st, rebased, carried) ==
  IF st.schemaDirty THEN Empty
  ELSE IF rebased THEN IF st.dirty THEN rebaseIndexViews(carried, st.idx) ELSE carried
  ELSE IF st.idx # Empty THEN indexViews(st.idx)
  ELSE IF ~st.dirty THEN carried ELSE Empty

\* storeIndexEdits, behind a commit that landed on the current generation.  The
\* cache is carried over when it is of that generation; a rebased transaction
\* without it leaves the cache alone.
storeIndexEdits(s) ==
  LET rebased  == session[s].snap.generation # generation
      entry(t) == CacheEntry(Table(s, t), rebased, IF CacheHit THEN CachedViews(t) ELSE Empty)
  IN  IF rebased /\ ~CacheHit THEN cache
      ELSE [commit |-> commit, generation |-> generation + 1,
            views |-> [t \in {t \in Tables : entry(t) # Empty} |-> entry(t)]]

\* rememberIndexEdits, at the end of a transaction that wrote nothing.
rememberIndexEdits(s) ==
  LET derived == {t \in Tables : Table(s, t).idx # Empty}
      snap == session[s].snap
      kept == IF cache # Nil /\ cache.commit = snap.commit
                             /\ cache.generation = snap.generation
              THEN cache.views ELSE Empty
  IN  IF derived = {} THEN cache
      ELSE [commit |-> snap.commit, generation |-> snap.generation,
            views |-> [t \in DOMAIN kept \cup derived |->
                         IF t \in DOMAIN kept THEN kept[t]
                         ELSE indexViews(Table(s, t).idx)]]

Idle(s) == session[s] # Nil /\ session[s].stmt = NoStmt

EndClean(s) ==
  /\ Idle(s)
  /\ Dirty(s) = {}
  /\ cache' = rememberIndexEdits(s)
  /\ session' = [session EXCEPT ![s] = Nil]
  /\ UNCHANGED <<commit, disk, generation, schema, pending, log, ops, started, transient>>

\* The transaction gave a row a unique value and took it away again: its index
\* edits delete an entry that may be another row's by the time it is rebased.
Releases(st) ==
  \E i \in Unique \cap DOMAIN st.idx : \E m, n \in DOMAIN st.idx[i].local :
    /\ m < n
    /\ st.idx[i].local[m].key = st.idx[i].local[n].key
    /\ st.idx[i].local[m].value # Deleted
    /\ st.idx[i].local[n].value = Deleted

\* A commit the journal took.  stored is FALSE when its flush failed, or when it
\* is a commit of another process: then the cache of this engine is as it was.
CommitTypedEdits(s, stored) ==
  /\ Idle(s)
  /\ Dirty(s) # {}
  /\ generation < MaxGeneration
  /\ ~Conflict(s)
  /\ generation' = generation + 1
  /\ log' = Append(log, Written(s))
  /\ schema' = [t \in Tables |-> IF Table(s, t).schemaDirty THEN Table(s, t).schema
                                                            ELSE schema[t]]
  /\ pending' = [t \in Tables |-> IF Table(s, t).dirty
                                  THEN Patched(pending[t], Table(s, t).edits)
                                  ELSE pending[t]]
  /\ cache' = IF stored THEN storeIndexEdits(s) ELSE cache
  /\ session' = [session EXCEPT ![s] = Nil]
  /\ transient' = transient \cup
       {t \in Dirty(s) : session[s].snap.generation # generation /\ Releases(Table(s, t))}
  /\ UNCHANGED <<commit, disk, ops, started>>

\* A refused commit drops the transaction, and so does a rollback.
EndWithoutCommit(s) ==
  /\ Idle(s)
  /\ Dirty(s) # {}
  /\ session' = [session EXCEPT ![s] = Nil]
  /\ UNCHANGED <<shared, ops, started, transient>>

-----------------------------------------------------------------------------
(* Checkpoints.                                                             *)

\* rebuildIndexesFromTree: an empty table has no index trees.
Rebuilt(sch, rows) ==
  IF Present(rows) = {} THEN Empty
  ELSE [i \in Indexes(sch) |-> IndexOf(sch, i, rows)]

\* indexDelta.usable
usable(t) ==
  /\ disk[t].schema = schema[t]
  /\ Indexes(schema[t]) \subseteq DOMAIN disk[t].trees

\* Seeded fault: a table that became empty keeps trees without entries.
checkpointIndexTreesKeepsEmpty(t, rows) ==
  IF ~usable(t) THEN Rebuilt(schema[t], rows)
  ELSE [i \in Indexes(schema[t]) |->
          Applied(disk[t].trees[i], deriveIndexEdits(disk[t], schema[t], i, pending[t]))]

\* checkpointIndexTrees: pending edits go to the trees there are, if these fit.
checkpointIndexTrees(t, rows) ==
  IF ~usable(t) \/ Present(rows) = {} THEN Rebuilt(schema[t], rows)
  ELSE [i \in Indexes(schema[t]) |->
          Applied(disk[t].trees[i], deriveIndexEdits(disk[t], schema[t], i, pending[t]))]

Untouched(t) == pending[t] = NoEdits /\ disk[t].schema = schema[t]

Checkpointed(t) ==
  LET rows == Patched(disk[t].rows, pending[t])
  IN  IF Untouched(t) THEN disk[t]
      ELSE [schema |-> schema[t], rows |-> rows, trees |-> checkpointIndexTrees(t, rows)]

\* A checkpoint of a working state without duplicate unique keys.
Checkpoint ==
  /\ commit < MaxCommit
  /\ \E t \in Tables : ~Untouched(t)
  /\ \A t \in Tables : \A i \in Indexes(schema[t]) :
       ~Duplicate(schema[t], i, Patched(disk[t].rows, pending[t]))
  /\ commit' = commit + 1
  /\ disk' = [t \in Tables |-> Checkpointed(t)]
  /\ pending' = [t \in Tables |-> NoEdits]
  /\ UNCHANGED <<generation, schema, log, cache, session, ops, started, transient>>

-----------------------------------------------------------------------------
(* A repository just checkpointed, with any rows, each table with every      *)
(* index in one order.                                                       *)

AllIndexes == SetToSeq(Unique) \o SetToSeq(IndexNames \ Unique)

Init ==
  /\ commit = 1
  /\ generation = 0
  /\ schema = [t \in Tables |-> [indexes |-> AllIndexes, collation |-> 0]]
  /\ \E rows \in [Tables -> [Keys -> Cells \cup {Absent}]] :
       /\ Cardinality({x \in Tables \X Keys : rows[x[1]][x[2]] # Absent}) <= MaxRows
       /\ \A t \in Tables : \A i \in Indexes(schema[t]) : ~Duplicate(schema[t], i, rows[t])
       /\ disk = [t \in Tables |-> [schema |-> schema[t], rows |-> rows[t],
                                    trees |-> Rebuilt(schema[t], rows[t])]]
  /\ pending = [t \in Tables |-> NoEdits]
  /\ log = <<>>
  /\ cache = Nil
  /\ session = [s \in Sessions |-> Nil]
  /\ ops = 0
  /\ started = 0
  /\ transient = {}

\* A statement touches nothing but its own transaction, so the steps of other
\* sessions commute with it and are taken before or behind it.
Undisturbed(s) == \A r \in Sessions \ {s} : session[r] # Nil => session[r].stmt = NoStmt

Next ==
  \/ \E s \in Sessions : Undisturbed(s) /\
      (\/ StartTransaction(s)
       \/ StatementComplete(s)
       \/ DiscardChanges(s)
       \/ EndClean(s)
       \/ EndWithoutCommit(s)
       \/ \E stored \in BOOLEAN : CommitTypedEdits(s, stored)
       \/ \E t \in Tables : Lookup(s, t) \/ StatementBegin(s, t) \/ ModifyColumn(s, t)
       \/ \E t \in Tables, i \in IndexNames : CreateIndex(s, t, i) \/ DropIndex(s, t, i)
       \/ \E k \in Keys : Delete(s, k)
       \/ \E k \in Keys, v \in Cells : Insert(s, k, v)
       \/ \E k, l \in Keys, v \in Cells : Update(s, k, l, v))
  \/ Checkpoint /\ \A s \in Sessions : session[s] # Nil => session[s].stmt = NoStmt

Spec == Init /\ [][Next]_vars

-----------------------------------------------------------------------------
(* Properties.                                                              *)

\* The indexed column was changed in the journal, and the trees on disk are those
\* of the column before (LookupsFollowSchema says what comes of it).
Recoded(dsk, sch, t) == dsk[t].schema.collation # sch.collation

\* Whatever a transaction did, rebased, undone or read from the cache: the index
\* it looks rows up through is the index of the rows it sees (deriveIndexEdits,
\* storeIndexEdits, DiscardChanges).
IndexesExact ==
  \A s \in Sessions, t \in Tables :
    /\ session[s] # Nil
    /\ Table(s, t).idx # Empty
    /\ ~Table(s, t).schemaDirty
    /\ ~Recoded(session[s].snap.disk, Table(s, t).schema, t)
    /\ session[s].stmt # NoStmt => ~session[s].stmt.failed
    /\ t \notin transient
    => \A i \in Indexes(Table(s, t).schema) :
         Entries(session[s].snap, t, Table(s, t), i)
           = IndexOf(Table(s, t).schema, i, Seen(s, t))

CacheExactFor(ts) ==
  CacheHit =>
    \A t \in ts \cap DOMAIN cache.views :
      /\ DOMAIN cache.views[t] = Indexes(schema[t])
      /\ \A i \in DOMAIN cache.views[t] :
           Applied(Tree(Snapshot, t, i), cache.views[t][i])
             = IndexOf(schema[t], i, Patched(disk[t].rows, pending[t]))

\* The cache the next transaction starts from has the index edits of the rows of
\* its generation, in whatever order transactions stored and remembered theirs
\* (storeIndexEdits, rememberIndexEdits), unless one of them released a unique
\* value it had taken itself.
CacheExact == CacheExactFor({t \in Tables \ transient : ~Recoded(disk, schema[t], t)})

\* storeIndexEdits: "Its own edits are still right on top of them, because it
\* wrote no row they wrote".
RebasedEditsRight == CacheExactFor(Tables)

\* A statement that fails at any point leaves the rows it began with, among the
\* edits and among the materialized rows (editor.DiscardChanges).
UndoExact ==
  \A s \in Sessions :
    session[s] # Nil /\ session[s].stmt # NoStmt =>
      LET stmt == session[s].stmt
          back == Undone(Table(s, stmt.table), stmt)
      IN  /\ Visible(session[s].snap, stmt.table, back) = stmt.seen
          /\ back.rows # Nil => back.rows = stmt.seen

UniqueFor(ts) ==
  \A t \in ts, i \in Unique :
    i \in Indexes(schema[t]) /\ ~Recoded(disk, schema[t], t) =>
      ~Duplicate(schema[t], i, Patched(disk[t].rows, pending[t]))

\* No two rows of the working state have one key of a unique index, although
\* every transaction checks only what it sees (uniqueClaims), unless one of them
\* released a unique value it had taken itself.
UniqueHolds == UniqueFor(Tables \ transient)

\* docs/sql.md: "`UNIQUE` indexes allow multiple NULLs, as in MySQL": and of no
\* other value more than one row, whichever transactions committed.
UniqueAlways == UniqueFor(Tables)

\* Index trees updated in place are the trees a rebuild gives ("Its roots equal
\* rebuildIndexesFromTree's", applyIndexEdits).
TreesExact ==
  \A t \in Tables : disk[t].trees = Rebuilt(disk[t].schema, disk[t].rows)

\* docs/sql.md: "Uniqueness and key lookups follow the column collation": the
\* index a new transaction derives is the one of the table's present schema.
LookupsFollowSchema ==
  \A t \in Tables :
    LET st == [FreshTable(t) EXCEPT !.idx = Empty]
        derived == ensureIndexEdits(Snapshot, t, st)
    IN  \A i \in Indexes(schema[t]) :
          Entries(Snapshot, t, derived, i) = IndexOf(schema[t], i, Visible(Snapshot, t, st))
=============================================================================
