------------------------ MODULE IndexSessionsProofs ------------------------
(***************************************************************************)
(* Every step within a transaction keeps its index edits exact: statements, *)
(* row operations, their undo, lookups, schema changes, the start from a     *)
(* cache, and the end without a write.                                       *)
(***************************************************************************)
EXTENDS IndexRowsProofs

-----------------------------------------------------------------------------
(* Steps of one transaction.                                                *)

\* A transaction with one table and its statement replaced.
Replaced(x, t, st, stmt) ==
  [snap |-> x.snap, tables |-> [r \in Tables |-> IF r = t THEN st ELSE x.tables[r]], stmt |-> stmt]

\* A step that writes one table of a transaction and its statement.
Writes(s, t, st, stmt) == session' = [session EXCEPT ![s].tables[t] = st, ![s].stmt = stmt]

\* The forms in which actions write a transaction.
LEMMA SessionWrite ==
  ASSUME SessionsSound, NEW s \in Sessions, NEW x, x = session[s], x # Nil,
         NEW t \in Tables, NEW st, NEW stmt,
         \/ Writes(s, t, st, stmt)
         \/ session' = [session EXCEPT ![s].tables[t] = st] /\ stmt = x.stmt
  PROVE  session' = [session EXCEPT ![s] = Replaced(x, t, st, stmt)]
<1>1. TxSound(x) /\ session = [r \in Sessions |-> session[r]]
  BY DEF SessionsSound
<1>2. x = [snap |-> x.snap, tables |-> x.tables, stmt |-> x.stmt]
  BY <1>1 DEF TxSound
<1>3. PICK tables : tables = [x.tables EXCEPT ![t] = st]
  OBVIOUS
<1>4. tables = [r \in Tables |-> IF r = t THEN st ELSE x.tables[r]]
  BY <1>1, <1>3 DEF TxSound
<1>5. PICK y : y = [snap |-> x.snap, tables |-> tables, stmt |-> stmt]
  OBVIOUS
<1>6. y = Replaced(x, t, st, stmt)
  BY <1>4, <1>5 DEF Replaced
<1>7. PICK z : z = [x EXCEPT !.tables = tables]
  OBVIOUS
<1>8. z = [snap |-> x.snap, tables |-> tables, stmt |-> x.stmt]
  BY <1>2, <1>7
<1>9. [z EXCEPT !.stmt = stmt] = y
  BY <1>5, <1>8
<1>10. stmt = x.stmt => z = y
  BY <1>5, <1>8
<1>11. CASE Writes(s, t, st, stmt)
  <2>1. session' = [session EXCEPT ![s] = [z EXCEPT !.stmt = stmt]]
    BY <1>1, <1>3, <1>7, <1>11 DEF Writes
  <2> QED
    BY <2>1, <1>6, <1>9
<1>12. CASE session' = [session EXCEPT ![s].tables[t] = st] /\ stmt = x.stmt
  <2>1. session' = [session EXCEPT ![s] = z]
    BY <1>1, <1>3, <1>7, <1>12
  <2> QED
    BY <2>1, <1>6, <1>10, <1>12
<1> QED
  BY <1>11, <1>12

\* A transaction stays good when the table is, or fails and can be undone.
LEMMA TxGoodPut ==
  ASSUME NEW spoilt, NEW w, NEW x, TxGood(spoilt, x), Linked(w, x), NEW t \in Tables,
         NEW st, NEW stmt, x.stmt = NoStmt \/ x.stmt.table = t, stmt = NoStmt \/ stmt.table = t,
         Good(spoilt, x.snap, t, st) \/ (stmt # NoStmt /\ stmt.failed),
         stmt # NoStmt => StmtGood(spoilt, x.snap, st, stmt),
         st.schemaDirty \/ (st.schema = x.tables[t].schema /\ ~x.tables[t].schemaDirty)
  PROVE  TxGood(spoilt, Replaced(x, t, st, stmt)) /\ Linked(w, Replaced(x, t, st, stmt))
<1>1. PICK y : y = Replaced(x, t, st, stmt)
  OBVIOUS
<1>2. /\ y.snap = x.snap /\ y.stmt = stmt /\ y.tables[t] = st
      /\ \A r \in Tables : r # t => y.tables[r] = x.tables[r]
  BY <1>1 DEF Replaced
<1>3. ASSUME NEW r \in Tables
      PROVE  Failing(y, r) \/ Good(spoilt, y.snap, r, y.tables[r])
  <2>1. CASE r = t
    BY <2>1, <1>2 DEF Failing
  <2>2. CASE r # t
    BY <2>2, <1>2 DEF TxGood, Failing
  <2> QED
    BY <2>1, <2>2
<1>4. TxGood(spoilt, y)
  BY <1>2, <1>3 DEF TxGood
<1>5. ASSUME NEW r \in Tables, Logged(w, x.snap, r, x.tables[r])
      PROVE  Logged(w, y.snap, r, y.tables[r])
  <2>1. CASE r = t
    BY <2>1, <1>2, <1>5 DEF Logged
  <2>2. CASE r # t
    BY <2>2, <1>2, <1>5
  <2> QED
    BY <2>1, <2>2
<1>6. Linked(w, y)
  BY <1>2, <1>5 DEF Linked
<1> QED
  BY <1>1, <1>4, <1>6

\* What such a step leaves alone.
Quiet == UNCHANGED <<shared, transient>>

LEMMA QuietWork == ASSUME Quiet PROVE Work' = Work /\ transient' = transient /\ cache' = cache
BY DEF Quiet, shared, Work

LEMMA GoodStep ==
  ASSUME SessionsSound, SessionsGood, Quiet, NEW s \in Sessions, NEW y,
         session' = [session EXCEPT ![s] = y],
         y # Nil => TxGood(transient, y) /\ Linked(Work, y)
  PROVE  SessionsGood'
<1>1. session' = [r \in Sessions |-> IF r = s THEN y ELSE session[r]]
  BY DEF SessionsSound
<1>2. Work' = Work /\ transient' = transient
  BY QuietWork
<1>3. ASSUME NEW r \in Sessions, session'[r] # Nil
      PROVE  TxGood(transient', session'[r]) /\ Linked(Work', session'[r])
  BY <1>1, <1>2, <1>3 DEF SessionsGood
<1> QED
  BY <1>3 DEF SessionsGood

\* What RowOp writes.
RowWritten(s, st, stmt, failed, st2, stmt2) ==
  /\ Writes(s, stmt.table, st2, stmt2)
  /\ Formed(st2) /\ st2.schema = st.schema /\ st2.edits = st.edits /\ st2.idx = st.idx
  /\ st2.schemaDirty = st.schemaDirty /\ st2.dirty \in BOOLEAN
  /\ st2.dirty <=> st.dirty \/ ~failed
  /\ stmt2.table = stmt.table /\ stmt2.lens = stmt.lens /\ stmt2.before = stmt.before
  /\ stmt2.failed = failed

LEMMA RowOpForm ==
  ASSUME ~Ignoring, NEW s, NEW st, Formed(st), st.dirty \in BOOLEAN, NEW stmt, StmtShape(stmt),
         NEW failed \in BOOLEAN, RowOp(s, st, stmt, failed)
  PROVE  \E st2, stmt2 : RowWritten(s, st, stmt, failed, st2, stmt2)
<1>1. PICK d \in BOOLEAN : d = (st.dirty \/ ~failed)
  OBVIOUS
<1>2. PICK f : f = (failed /\ ~Ignoring)
  OBVIOUS
<1>3. f = failed
  BY <1>2
<1>4. PICK st2, stmt2 : st2 = [st EXCEPT !.dirty = d] /\ stmt2 = [stmt EXCEPT !.failed = f]
  OBVIOUS
<1>5. st2 = [schema |-> st.schema, edits |-> st.edits, rows |-> st.rows, idx |-> st.idx,
             dirty |-> d, schemaDirty |-> st.schemaDirty]
  BY <1>4 DEF Formed
<1>6. stmt2 = [table |-> stmt.table, failed |-> f, before |-> stmt.before,
               lens |-> stmt.lens, seen |-> stmt.seen]
  BY <1>4 DEF StmtShape
<1>7. session' = [session EXCEPT ![s].tables[stmt.table] = st2, ![s].stmt = stmt2]
  BY <1>1, <1>2, <1>4 DEF RowOp
<1>8. /\ st2.edits = st.edits /\ st2.rows = st.rows /\ st2.schemaDirty = st.schemaDirty
      /\ st2.schema = st.schema /\ st2.idx = st.idx /\ st2.dirty = d
  BY <1>5
<1>9. Formed(st2)
  BY <1>5, <1>8 DEF Formed
<1>10. /\ stmt2.table = stmt.table /\ stmt2.lens = stmt.lens /\ stmt2.before = stmt.before
       /\ stmt2.failed = failed
  BY <1>3, <1>6
<1>11. Writes(s, stmt.table, st2, stmt2)
  BY <1>7 DEF Writes
<1>12. st2.dirty \in BOOLEAN /\ (st2.dirty <=> st.dirty \/ ~failed)
  BY <1>1, <1>8
<1>13. RowWritten(s, st, stmt, failed, st2, stmt2)
  BY <1>8, <1>9, <1>10, <1>11, <1>12 DEF RowWritten
<1> QED
  BY <1>13

\* What a row operation starts from.
Started(x, stmt, t, st) ==
  /\ x # Nil /\ stmt = x.stmt /\ t = stmt.table /\ st = x.tables[t]
  /\ stmt # NoStmt /\ ~stmt.failed /\ t \in Tables /\ StmtShape(stmt)
  /\ TableSound(x.snap, t, st) /\ ~st.schemaDirty /\ Formed(st)
  /\ TxGood(transient, x) /\ Linked(Work, x)
  /\ Good(transient, x.snap, t, st) /\ StmtGood(transient, x.snap, st, stmt)
  /\ DOMAIN st.idx = Indexes(st.schema)

LEMMA EditingGood ==
  ASSUME SessionsSound, SessionsGood, NEW s \in Sessions, Editing(s), NEW x, x = session[s],
         NEW stmt, stmt = x.stmt, NEW t, t = stmt.table, NEW st, st = x.tables[t]
  PROVE  Started(x, stmt, t, st)
<1>1. x # Nil /\ stmt # NoStmt /\ ~stmt.failed
  BY DEF Editing
<1>2. TxSound(x) /\ TxGood(transient, x) /\ Linked(Work, x)
  BY <1>1 DEF SessionsSound, SessionsGood
<1>3. t \in Tables /\ StmtShape(stmt) /\ Restores(x.snap, t, st, stmt) /\ TableSound(x.snap, t, st)
  BY <1>1, <1>2 DEF TxSound, StmtShape
<1>4. Good(transient, x.snap, t, st) /\ StmtGood(transient, x.snap, st, stmt)
  BY <1>1, <1>2, <1>3 DEF TxGood, Failing
<1>5. ~st.schemaDirty
  BY <1>3 DEF Restores
<1>6. Formed(st)
  BY <1>3, <1>4, <1>5 DEF TableSound, Good, Shape, Formed
<1>7. DOMAIN st.idx = Indexes(st.schema)
  BY <1>1, <1>4 DEF StmtGood
<1> QED
  BY <1>1, <1>2, <1>3, <1>4, <1>5, <1>6, <1>7 DEF Started

\* lookupRow finds what the edits make visible.
LEMMA LookupRows ==
  ASSUME NEW snap, NEW t, NEW st, TableSound(snap, t, st), ~st.schemaDirty, NEW k \in Keys
  PROVE  lookupRow(snap, t, st, k) = Rows(snap, t, st.edits)[k]
BY LookupThrough, RowsParts

\* The index edits of an operation, made on a table that differs from st at most in
\* the edit of k.
MadeAs(snap, t, st, k, old, l, new, made) ==
  /\ Formed(made.st) /\ made.st.schema = st.schema /\ made.st.dirty = st.dirty
  /\ made.st.schemaDirty = st.schemaDirty
  /\ \A m \in Keys : made.st.edits[m] = IF m = k /\ k # l THEN Absent ELSE st.edits[m]
  /\ DOMAIN made.st.idx = DOMAIN st.idx
  /\ \A i \in DOMAIN st.idx :
       /\ made.st.idx[i].base = st.idx[i].base
       /\ \E more : Grown(st.idx[i].local, made.st.idx[i].local, more)
       /\ made.ok =>
            /\ made.st.idx[i].local = st.idx[i].local \o Added(st.schema, i, k, old, l, new)
            /\ ~Collides(snap, t, st, i, k, old, l, new)
  /\ new = Absent => made.ok

LEMMA MadeParts ==
  ASSUME NEW snap, NEW t, NEW st, Formed(st), Shape(snap, t, st), ~st.schemaDirty,
         DOMAIN st.idx = Indexes(st.schema), NEW k \in Keys, NEW old, NEW l \in Keys, NEW new,
         NEW mid, mid = (IF k = l THEN st ELSE setEdit(st, k, Absent)),
         NEW made, made = EditIndexes(snap, t, mid, k, old, l, new)
  PROVE  MadeAs(snap, t, st, k, old, l, new, made)
<1>1. /\ Formed(mid) /\ mid.schema = st.schema /\ mid.idx = st.idx
      /\ mid.dirty = st.dirty /\ mid.schemaDirty = st.schemaDirty
      /\ \A m \in Keys : mid.edits[m] = IF m = k /\ k # l THEN Absent ELSE st.edits[m]
  <2>1. CASE k = l
    BY <2>1
  <2>2. CASE k # l
    BY <2>2, SetEditParts
  <2> QED
    BY <2>1, <2>2
<1>a. PICK idx : MadeOf(snap, t, mid, k, old, l, new, made, idx)
  BY <1>1, EditIndexesParts
<1>2. /\ made.st = [schema |-> mid.schema, edits |-> mid.edits, rows |-> mid.rows,
                      idx |-> idx, dirty |-> mid.dirty, schemaDirty |-> mid.schemaDirty]
      /\ DOMAIN idx = DOMAIN mid.idx
      /\ idx = [i \in DOMAIN idx |-> [base |-> idx[i].base, local |-> idx[i].local]]
      /\ \A i \in DOMAIN mid.idx :
             /\ idx[i].base = mid.idx[i].base
             /\ \/ idx[i].local = mid.idx[i].local
                \/ idx[i].local = mid.idx[i].local \o Added(mid.schema, i, k, old, l, new)
      /\ made.ok => \A i \in Indexes(mid.schema) \cap DOMAIN mid.idx :
             /\ idx[i].local = mid.idx[i].local \o Added(mid.schema, i, k, old, l, new)
             /\ ~Collides(snap, t, mid, i, k, old, l, new)
      /\ new = Absent => made.ok
  BY <1>a DEF MadeOf
<1>3. /\ made.st.schema = mid.schema /\ made.st.edits = mid.edits /\ made.st.rows = mid.rows
      /\ made.st.idx = idx /\ made.st.dirty = mid.dirty
      /\ made.st.schemaDirty = mid.schemaDirty
  BY <1>2
<1>4. Formed(made.st)
  BY <1>1, <1>2, <1>3 DEF Formed
<1>5. ASSUME NEW i \in DOMAIN st.idx
      PROVE  \E more : Grown(st.idx[i].local, idx[i].local, more)
  <2>1. Tidy(st.idx[i].local)
    BY DEF Shape
  <2>2. CASE idx[i].local = st.idx[i].local
    BY <2>1, <2>2, GrownOne
  <2>3. CASE idx[i].local = st.idx[i].local \o Added(st.schema, i, k, old, l, new)
    <3>1. Behind(st.schema, i, k, old, l, new, st.idx[i].local, idx[i].local)
      BY <2>1, <2>3, AddedParts
    <3> QED
      BY <3>1 DEF Behind
  <2> QED
    BY <1>1, <1>2, <2>2, <2>3
<1>6. \A i : Collides(snap, t, mid, i, k, old, l, new) <=> Collides(snap, t, st, i, k, old, l, new)
  BY <1>1 DEF Collides, Entries
<1>7. \A i \in DOMAIN st.idx :
        /\ idx[i].base = st.idx[i].base
        /\ \E more : Grown(st.idx[i].local, idx[i].local, more)
        /\ made.ok => /\ idx[i].local = st.idx[i].local \o Added(st.schema, i, k, old, l, new)
                      /\ ~Collides(snap, t, st, i, k, old, l, new)
  <2> TAKE i \in DOMAIN st.idx
  <2>1. i \in Indexes(mid.schema) \cap DOMAIN mid.idx
    BY <1>1
  <2>2. idx[i].base = st.idx[i].base
    BY <1>1, <1>2
  <2>3. made.ok => /\ idx[i].local = st.idx[i].local \o Added(st.schema, i, k, old, l, new)
                   /\ ~Collides(snap, t, st, i, k, old, l, new)
    BY <1>1, <1>2, <1>6, <2>1
  <2> QED
    BY <1>5, <2>2, <2>3
<1>8. \A m \in Keys : made.st.edits[m] = IF m = k /\ k # l THEN Absent ELSE st.edits[m]
  BY <1>1, <1>3
<1>9. /\ made.st.schema = st.schema /\ made.st.dirty = st.dirty
      /\ made.st.schemaDirty = st.schemaDirty /\ DOMAIN made.st.idx = DOMAIN st.idx
      /\ made.st.idx = idx
  BY <1>1, <1>2, <1>3
<1> QED
  BY <1>2, <1>4, <1>7, <1>8, <1>9 DEF MadeAs

\* The end of a row operation.
LEMMA OpEnd ==
  ASSUME SessionsSound, SessionsGood, Quiet, NEW s \in Sessions, NEW x, x = session[s],
         NEW stmt, NEW t, NEW st, Started(x, stmt, t, st),
         NEW st2, NEW stmt2, Rewinds(st, stmt, st2, stmt2), Writes(s, t, st2, stmt2),
         Good(transient, x.snap, t, st2) \/ stmt2.failed
  PROVE  SessionsGood'
<1>1. /\ x # Nil /\ stmt # NoStmt /\ ~stmt.failed /\ t \in Tables /\ ~st.schemaDirty
      /\ stmt = x.stmt /\ t = stmt.table /\ st = x.tables[t]
      /\ TxGood(transient, x) /\ Linked(Work, x) /\ StmtGood(transient, x.snap, st, stmt)
  BY DEF Started
<1>2. StmtGood(transient, x.snap, st2, stmt2)
  BY <1>1, RewindGood
<1>3. stmt2.table = t /\ st2.schema = st.schema
  BY <1>1 DEF Rewinds
<1>4. stmt2 # NoStmt
  BY <1>1, <1>3, IndexAssumption DEF NoStmt
<1>5. PICK y : y = Replaced(x, t, st2, stmt2)
  OBVIOUS
<1>6. TxGood(transient, y) /\ Linked(Work, y)
  BY <1>1, <1>2, <1>3, <1>4, <1>5, TxGoodPut
<1>7. session' = [session EXCEPT ![s] = y]
  BY <1>1, <1>5, SessionWrite
<1> QED
  BY <1>6, <1>7, GoodStep

\* The undo information an operation keeps.
KeptAs(stmt, t, st, kept) ==
  /\ StmtShape(kept) /\ kept.table = t /\ kept.lens = stmt.lens
  /\ \A m \in Keys : FirstEdit(kept, st.edits, m) = FirstEdit(stmt, st.edits, m)

\* An operation that failed behind some of its index edits.
LEMMA OpFails ==
  ASSUME ~Ignoring, SessionsSound, SessionsGood, NEW s \in Sessions, NEW x, x = session[s],
         NEW stmt, NEW t, NEW st, Started(x, stmt, t, st),
         NEW k \in Keys, NEW l \in Keys, NEW new, NEW old,
         NEW made, MadeAs(x.snap, t, st, k, old, l, new, made),
         NEW kept, KeptAs(stmt, t, st, kept), k = l \/ k \in DOMAIN kept.before,
         RowOp(s, made.st, kept, TRUE)
  PROVE  SessionsGood'
<1>1. Formed(st) /\ st.dirty \in BOOLEAN
  BY DEF Started, Good, Shape
<1>2. Formed(made.st) /\ made.st.dirty \in BOOLEAN
  BY <1>1 DEF MadeAs
<1>3. Quiet
  BY DEF RowOp, Quiet
<1>4. PICK st2, stmt2 : RowWritten(s, made.st, kept, TRUE, st2, stmt2)
  BY <1>2, RowOpForm DEF KeptAs
<1>5. \A m \in Keys : FirstEdit(stmt2, st2.edits, m) = FirstEdit(stmt, st.edits, m)
  <2> TAKE m \in Keys
  <2>1. FirstEdit(kept, st.edits, m) = FirstEdit(stmt, st.edits, m)
    BY DEF KeptAs
  <2>2. stmt2.before = kept.before /\ st2.edits = made.st.edits
    BY <1>4 DEF RowWritten
  <2>3. made.st.edits[m] = IF m = k /\ k # l THEN Absent ELSE st.edits[m]
    BY DEF MadeAs
  <2> QED
    BY <2>1, <2>2, <2>3 DEF FirstEdit
<1>6. \A i \in DOMAIN st.idx :
        /\ Len(made.st.idx[i].local) \in Nat /\ Len(st.idx[i].local) \in Nat
        /\ Len(st.idx[i].local) <= Len(made.st.idx[i].local)
        /\ \A n \in 0..Len(st.idx[i].local) :
             SubSeq(made.st.idx[i].local, 1, n) = SubSeq(st.idx[i].local, 1, n)
  BY DEF MadeAs, Grown
<1>7. Rewinds(st, stmt, st2, stmt2)
  <2>1. /\ st2.schema = st.schema /\ st2.schemaDirty = st.schemaDirty /\ Formed(st2)
        /\ st2.dirty \in BOOLEAN /\ (st.dirty => st2.dirty) /\ st2.idx = made.st.idx
    BY <1>1, <1>4 DEF RowWritten, MadeAs
  <2>2. stmt2.table = stmt.table /\ stmt2.lens = stmt.lens /\ stmt2.failed \in BOOLEAN
    BY <1>4 DEF RowWritten, KeptAs, Started
  <2>3. DOMAIN st2.idx = DOMAIN st.idx /\ \A i \in DOMAIN st.idx : st2.idx[i].base = st.idx[i].base
    BY <2>1 DEF MadeAs
  <2> QED
    BY <1>1, <1>5, <1>6, <2>1, <2>2, <2>3 DEF Rewinds
<1>8. Writes(s, t, st2, stmt2) /\ stmt2.failed
  BY <1>4 DEF RowWritten, KeptAs
<1> QED
  BY <1>3, <1>7, <1>8, OpEnd

\* An operation that made all its index edits.
LEMMA OpSucceeds ==
  ASSUME ~Ignoring, SessionsSound, SessionsGood, NEW s \in Sessions, NEW x, x = session[s],
         NEW stmt, NEW t, NEW st, Started(x, stmt, t, st),
         NEW k \in Keys, NEW l \in Keys, NEW new \in Cells \cup {Absent},
         NEW old, old = lookupRow(x.snap, t, st, k),
         k = l \/ lookupRow(x.snap, t, st, l) = Absent,
         NEW made, MadeAs(x.snap, t, st, k, old, l, new, made), made.ok,
         NEW kept, KeptAs(stmt, t, st, kept), k \in DOMAIN kept.before, l \in DOMAIN kept.before,
         RowOp(s, setEdit(made.st, l, new), kept, FALSE)
  PROVE  SessionsGood'
<1>1. Formed(st) /\ st.dirty \in BOOLEAN
  BY DEF Started, Good, Shape
<1>2. Formed(made.st) /\ made.st.dirty \in BOOLEAN
  BY <1>1 DEF MadeAs
<1>3. Quiet
  BY DEF RowOp, Quiet
<1>4. PICK last : last = setEdit(made.st, l, new)
  OBVIOUS
<1>5. /\ Formed(last) /\ last.schema = made.st.schema /\ last.idx = made.st.idx
      /\ last.dirty = made.st.dirty /\ last.schemaDirty = made.st.schemaDirty
      /\ \A m \in Keys : last.edits[m] = IF m = l THEN new ELSE made.st.edits[m]
  BY <1>2, <1>4, SetEditParts
<1>6. PICK st2, stmt2 : RowWritten(s, last, kept, FALSE, st2, stmt2)
  BY <1>2, <1>4, <1>5, RowOpForm DEF KeptAs
<1>7. /\ st2.schema = st.schema /\ st2.schemaDirty = st.schemaDirty /\ Formed(st2)
      /\ st2.dirty = TRUE /\ st2.idx = made.st.idx
  BY <1>1, <1>5, <1>6 DEF RowWritten, MadeAs
<1>8. \A m \in Keys : st2.edits[m] = IF m = l THEN new ELSE IF m = k THEN Absent ELSE st.edits[m]
  BY <1>5, <1>6 DEF RowWritten, MadeAs
<1>9. \A m \in Keys : FirstEdit(stmt2, st2.edits, m) = FirstEdit(stmt, st.edits, m)
  <2> TAKE m \in Keys
  <2>1. FirstEdit(kept, st.edits, m) = FirstEdit(stmt, st.edits, m)
    BY DEF KeptAs
  <2>2. stmt2.before = kept.before
    BY <1>6 DEF RowWritten
  <2> QED
    BY <2>1, <2>2, <1>8 DEF FirstEdit
<1>10. \A i \in DOMAIN st.idx :
        /\ Len(made.st.idx[i].local) \in Nat /\ Len(st.idx[i].local) \in Nat
        /\ Len(st.idx[i].local) <= Len(made.st.idx[i].local)
        /\ \A n \in 0..Len(st.idx[i].local) :
             SubSeq(made.st.idx[i].local, 1, n) = SubSeq(st.idx[i].local, 1, n)
  BY DEF MadeAs, Grown
<1>11. /\ DOMAIN st2.idx = DOMAIN st.idx
       /\ \A i \in DOMAIN st2.idx :
            /\ st2.idx[i].base = st.idx[i].base
            /\ st2.idx[i].local = st.idx[i].local \o Added(st.schema, i, k, old, l, new)
            /\ ~Collides(x.snap, t, st, i, k, old, l, new)
  BY <1>7 DEF MadeAs
<1>12. Rewinds(st, stmt, st2, stmt2)
  <2>1. stmt2.table = stmt.table /\ stmt2.lens = stmt.lens /\ stmt2.failed \in BOOLEAN
    BY <1>6 DEF RowWritten, KeptAs, Started
  <2>2. st2.dirty \in BOOLEAN /\ (st.dirty => st2.dirty)
    BY <1>7
  <2> QED
    BY <1>1, <1>7, <1>9, <1>10, <1>11, <2>1, <2>2 DEF Rewinds
<1>13. Good(transient, x.snap, t, st2)
  <2>1. /\ TableSound(x.snap, t, st) /\ ~st.schemaDirty
        /\ Good(transient, x.snap, t, st) /\ DOMAIN st.idx = Indexes(st.schema)
    BY DEF Started
  <2>2. /\ old = Rows(x.snap, t, st.edits)[k]
        /\ k = l \/ Rows(x.snap, t, st.edits)[l] = Absent
    BY <2>1, LookupRows
  <2>3. st2.idx = [i \in DOMAIN st2.idx |-> [base |-> st2.idx[i].base, local |-> st2.idx[i].local]]
    BY <1>7 DEF Formed
  <2>4. PICK idx : idx = st2.idx
    OBVIOUS
  <2>5. /\ DOMAIN idx = DOMAIN st.idx
        /\ idx = [i \in DOMAIN idx |-> [base |-> idx[i].base, local |-> idx[i].local]]
        /\ \A i \in DOMAIN idx :
             /\ idx[i].base = st.idx[i].base
             /\ idx[i].local = st.idx[i].local \o Added(st.schema, i, k, old, l, new)
             /\ ~Collides(x.snap, t, st, i, k, old, l, new)
    BY <1>11, <2>3, <2>4
  <2>6. st2.schema = st.schema /\ st2.schemaDirty = st.schemaDirty /\ st2.dirty = TRUE
    BY <1>7
  <2>7. Operated(x.snap, t, st, k, old, l, new, idx, st2)
    BY <1>8, <2>1, <2>2, <2>4, <2>5, <2>6 DEF Operated
  <2> QED
    BY <2>1, <2>7, OpGood
<1>14. Writes(s, t, st2, stmt2)
  BY <1>6 DEF RowWritten, KeptAs
<1> QED
  BY <1>3, <1>12, <1>13, <1>14, OpEnd

\* remember keeps the first edits.
LEMMA RememberKept ==
  ASSUME NEW t, NEW st, NEW stmt, NEW kept, StmtShape(stmt), KeptAs(stmt, t, st, kept),
         NEW k \in Keys, NEW row
  PROVE  LET more == remember(kept, st, k, row)
         IN  /\ KeptAs(stmt, t, st, more)
             /\ DOMAIN more.before = DOMAIN kept.before \cup {k}
<1>1. PICK more : more = remember(kept, st, k, row)
  OBVIOUS
<1>2. StmtShape(kept) /\ kept.table = t /\ kept.lens = stmt.lens /\ t \in Tables
  BY DEF KeptAs, StmtShape
<1>3. /\ more = [table |-> kept.table, failed |-> kept.failed, before |-> more.before,
                 lens |-> kept.lens, seen |-> kept.seen]
      /\ DOMAIN more.before = DOMAIN kept.before \cup {k}
      /\ \A m : FirstEdit(more, st.edits, m) = FirstEdit(kept, st.edits, m)
  BY <1>1, <1>2, RememberParts
<1>4. /\ more.table = kept.table /\ more.failed = kept.failed /\ more.lens = kept.lens
      /\ more.seen = kept.seen
  BY <1>3
<1>5. StmtShape(more)
  BY <1>2, <1>3, <1>4 DEF StmtShape
<1>6. \A m \in Keys : FirstEdit(more, st.edits, m) = FirstEdit(stmt, st.edits, m)
  BY <1>3 DEF KeptAs
<1>7. KeptAs(stmt, t, st, more)
  BY <1>2, <1>4, <1>5, <1>6 DEF KeptAs
<1> QED
  BY <1>1, <1>3, <1>7

\* What an operation makes of the indexes of its table.
LEMMA OpMade ==
  ASSUME NEW x, NEW stmt, NEW t, NEW st, Started(x, stmt, t, st),
         NEW k \in Keys, NEW old, NEW l \in Keys, NEW new,
         NEW mid, mid = (IF k = l THEN st ELSE setEdit(st, k, Absent))
  PROVE  /\ MadeAs(x.snap, t, st, k, old, l, new, EditIndexes(x.snap, t, mid, k, old, l, new))
         /\ KeptAs(stmt, t, st, stmt) /\ StmtShape(stmt)
<1>1. /\ Formed(st) /\ Shape(x.snap, t, st) /\ ~st.schemaDirty /\ DOMAIN st.idx = Indexes(st.schema)
      /\ StmtShape(stmt) /\ t = stmt.table
  BY DEF Started, Good
<1>2. PICK made : made = EditIndexes(x.snap, t, mid, k, old, l, new)
  OBVIOUS
<1>3. MadeAs(x.snap, t, st, k, old, l, new, made)
  BY <1>1, <1>2, MadeParts
<1>4. KeptAs(stmt, t, st, stmt)
  BY <1>1 DEF KeptAs
<1> QED
  BY <1>1, <1>2, <1>3, <1>4

\* editor.Insert keeps every transaction good.
LEMMA InsertGood ==
  ASSUME ~Ignoring, SessionsSound, SessionsGood, NEW s \in Sessions, NEW k \in Keys,
         NEW v \in Cells, Insert(s, k, v)
  PROVE  SessionsGood'
<1>1. PICK x, stmt : x = session[s] /\ stmt = x.stmt
  OBVIOUS
<1>2. PICK t, st : t = stmt.table /\ st = x.tables[t]
  OBVIOUS
<1>3. PICK made : made = EditIndexes(x.snap, t, st, k, Absent, k, v)
  OBVIOUS
<1>4. /\ Editing(s) /\ lookupRow(x.snap, t, st, k) = Absent
      /\ \/ made.ok /\ RowOp(s, setEdit(made.st, k, v), remember(stmt, st, k, Absent), FALSE)
         \/ RowOp(s, made.st, stmt, TRUE)
  BY <1>1, <1>2, <1>3 DEF Insert, Table
<1>5. Started(x, stmt, t, st)
  BY <1>1, <1>2, <1>4, EditingGood
<1>6. MadeAs(x.snap, t, st, k, Absent, k, v, made) /\ KeptAs(stmt, t, st, stmt) /\ StmtShape(stmt)
  BY <1>3, <1>5, OpMade
<1>7. CASE RowOp(s, made.st, stmt, TRUE)
  BY <1>1, <1>5, <1>6, <1>7, OpFails
<1>8. CASE made.ok /\ RowOp(s, setEdit(made.st, k, v), remember(stmt, st, k, Absent), FALSE)
  <2>1. PICK kept : kept = remember(stmt, st, k, Absent)
    OBVIOUS
  <2>2. KeptAs(stmt, t, st, kept) /\ k \in DOMAIN kept.before
    BY <1>6, <2>1, RememberKept
  <2>3. RowOp(s, setEdit(made.st, k, v), kept, FALSE) /\ made.ok
    BY <1>8, <2>1
  <2>4. Absent = lookupRow(x.snap, t, st, k) /\ v \in Cells \cup {Absent}
    BY <1>4
  <2> QED
    BY <1>1, <1>5, <1>6, <2>2, <2>3, <2>4, OpSucceeds
<1> QED
  BY <1>4, <1>7, <1>8

\* So does editor.Delete.
LEMMA DeleteGood ==
  ASSUME ~Ignoring, SessionsSound, SessionsGood, NEW s \in Sessions, NEW k \in Keys, Delete(s, k)
  PROVE  SessionsGood'
<1>1. PICK x, stmt : x = session[s] /\ stmt = x.stmt
  OBVIOUS
<1>2. PICK t, st : t = stmt.table /\ st = x.tables[t]
  OBVIOUS
<1>r. PICK row : row = lookupRow(x.snap, t, st, k)
  OBVIOUS
<1>3. PICK made : made = EditIndexes(x.snap, t, st, k, row, k, Absent)
  OBVIOUS
<1>4. PICK kept : kept = remember(stmt, st, k, row)
  OBVIOUS
<1>5. Editing(s) /\ RowOp(s, setEdit(made.st, k, Absent), kept, FALSE)
  BY <1>1, <1>2, <1>r, <1>3, <1>4 DEF Delete, Table
<1>6. Started(x, stmt, t, st)
  BY <1>1, <1>2, <1>5, EditingGood
<1>7. MadeAs(x.snap, t, st, k, row, k, Absent, made) /\ KeptAs(stmt, t, st, stmt) /\ StmtShape(stmt)
  BY <1>3, <1>6, OpMade
<1>8. KeptAs(stmt, t, st, kept) /\ k \in DOMAIN kept.before
  BY <1>4, <1>7, RememberKept
<1>9. made.ok
  BY <1>7 DEF MadeAs
<1>10. Absent \in Cells \cup {Absent}
  OBVIOUS
<1> QED
  BY <1>1, <1>r, <1>5, <1>6, <1>7, <1>8, <1>9, <1>10, OpSucceeds

\* So does editor.Update.
LEMMA UpdateGood ==
  ASSUME ~Ignoring, SessionsSound, SessionsGood, NEW s \in Sessions, NEW k \in Keys,
         NEW l \in Keys, NEW v \in Cells, Update(s, k, l, v)
  PROVE  SessionsGood'
<1>1. PICK x, stmt : x = session[s] /\ stmt = x.stmt
  OBVIOUS
<1>2. PICK t, st : t = stmt.table /\ st = x.tables[t]
  OBVIOUS
<1>3. PICK row : row = lookupRow(x.snap, t, st, k)
  OBVIOUS
<1>4. PICK kept, mid : /\ kept = remember(stmt, st, k, row)
                       /\ mid = (IF k = l THEN st ELSE setEdit(st, k, Absent))
  OBVIOUS
<1>5. PICK both, made : /\ both = IF k = l THEN kept ELSE remember(kept, st, l, Absent)
                        /\ made = EditIndexes(x.snap, t, mid, k, row, l, v)
  OBVIOUS
<1>6. /\ Editing(s) /\ (k = l \/ lookupRow(x.snap, t, st, l) = Absent)
      /\ \/ made.ok /\ RowOp(s, setEdit(made.st, l, v), both, FALSE)
         \/ RowOp(s, made.st, both, TRUE)
  BY <1>1, <1>2, <1>3, <1>4, <1>5 DEF Update, Table
<1>7. Started(x, stmt, t, st)
  BY <1>1, <1>2, <1>6, EditingGood
<1>8. MadeAs(x.snap, t, st, k, row, l, v, made) /\ KeptAs(stmt, t, st, stmt) /\ StmtShape(stmt)
  BY <1>4, <1>5, <1>7, OpMade
<1>9. KeptAs(stmt, t, st, kept) /\ k \in DOMAIN kept.before
  BY <1>4, <1>8, RememberKept
<1>10. KeptAs(stmt, t, st, both) /\ k \in DOMAIN both.before /\ l \in DOMAIN both.before
  <2>1. CASE k = l
    BY <2>1, <1>5, <1>9
  <2>2. CASE k # l
    BY <2>2, <1>5, <1>8, <1>9, RememberKept
  <2> QED
    BY <2>1, <2>2
<1>11. CASE RowOp(s, made.st, both, TRUE)
  BY <1>1, <1>7, <1>8, <1>10, <1>11, OpFails
<1>12. CASE made.ok /\ RowOp(s, setEdit(made.st, l, v), both, FALSE)
  <2>1. v \in Cells \cup {Absent}
    OBVIOUS
  <2> QED
    BY <1>1, <1>3, <1>6, <1>7, <1>8, <1>10, <1>12, <2>1, OpSucceeds
<1> QED
  BY <1>6, <1>11, <1>12

-----------------------------------------------------------------------------
(* Index edits derived on first use.                                        *)

\* A tree with a view and no edits over it.
LEMMA NoLocal ==
  ASSUME NEW tree, NEW view
  PROVE  Applied(tree, With(view, <<>>)) = Applied(tree, view)
<1>1. PICK f, g : f = Applied(tree, With(view, <<>>)) /\ g = Applied(tree, view)
  OBVIOUS
<1>2. f = [e \in DOMAIN f |-> f[e]] /\ g = [e \in DOMAIN g |-> g[e]]
  BY <1>1, AppliedMaps
<1>3. \A e, k : Maps(f, e, k) <=> Maps(g, e, k)
  <2> TAKE e, k
  <2>1. Maps(f, e, k) <=> IF e \in DOMAIN Net(<<>>) THEN Net(<<>>)[e] = k /\ k # Deleted
                          ELSE Maps(g, e, k)
    BY <1>1, FoundNet
  <2> QED
    BY <2>1, NetNone
<1> QED
  BY <1>1, <1>2, <1>3, MapsEqual

\* A table without edits of its own.
Fresh(spoilt, snap, t, st) ==
  /\ st.edits = NoEdits /\ ~st.schemaDirty /\ st.schemaDirty \in BOOLEAN /\ st.dirty \in BOOLEAN
  /\ IsSchema(st.schema) /\ IsSeq(st.schema.indexes)
  /\ st.schema.collation \in Nat /\ snap.disk[t].schema.collation \in Nat
  /\ snap.disk[t].schema.collation <= st.schema.collation
  /\ DOMAIN st.idx = Indexes(st.schema) \/ st.idx = Empty
  /\ st.idx = [i \in DOMAIN st.idx |-> [base |-> st.idx[i].base, local |-> <<>>]]
  /\ t \notin spoilt /\ ~Recoded(snap.disk, st.schema, t) =>
       /\ NoDuplicates(st.schema, Base(snap, t))
       /\ \A i \in DOMAIN st.idx :
            Applied(Tree(snap, t, i), st.idx[i].base) = IndexOf(st.schema, i, Base(snap, t))

LEMMA FreshGood ==
  ASSUME NEW spoilt, NEW snap, NEW t, NEW st, Fresh(spoilt, snap, t, st)
  PROVE  Good(spoilt, snap, t, st)
<1>1. \A i \in DOMAIN st.idx : st.idx[i].local = <<>>
  BY DEF Fresh
<1>2. st.idx = [i \in DOMAIN st.idx |-> [base |-> st.idx[i].base, local |-> st.idx[i].local]]
  <2>1. PICK f, idx : f = [i \in DOMAIN st.idx |-> st.idx[i].base] /\ idx = st.idx
    OBVIOUS
  <2>2. idx = [i \in DOMAIN idx |-> [base |-> f[i], local |-> <<>>]]
    BY <2>1 DEF Fresh
  <2>3. \A i \in DOMAIN idx : idx[i].base = f[i] /\ idx[i].local = <<>>
    BY <2>2
  <2>4. idx = [i \in DOMAIN idx |-> [base |-> idx[i].base, local |-> idx[i].local]]
    BY <2>2, <2>3
  <2> QED
    BY <2>1, <2>4
<1>3. \A sch, i, edits : Own(sch, i, edits, <<>>)
  BY DEF Own
<1>4. \A sch, i, rows : Backed(sch, i, rows, <<>>)
  BY DEF Backed
<1>5. Shape(snap, t, st)
  <2>1. \A i \in DOMAIN st.idx : Tidy(st.idx[i].local) /\ Own(st.schema, i, st.edits, st.idx[i].local)
    BY <1>1, <1>3, NetNone
  <2> QED
    BY <1>2, <2>1 DEF Fresh, Shape
<1>6. ASSUME t \notin spoilt, ~Recoded(snap.disk, st.schema, t)
      PROVE  Exact(snap, t, st)
  <2>1. /\ NoDuplicates(st.schema, Base(snap, t)) /\ st.edits = NoEdits
        /\ \A i \in DOMAIN st.idx :
             Applied(Tree(snap, t, i), st.idx[i].base) = IndexOf(st.schema, i, Base(snap, t))
    BY <1>6 DEF Fresh
  <2>2. Rows(snap, t, st.edits) = Base(snap, t)
    BY <2>1 DEF Base
  <2>3. ASSUME NEW i \in DOMAIN st.idx PROVE IndexGood(snap, t, st, i)
    <3>1. Entries(snap, t, st, i) = Applied(Tree(snap, t, i), st.idx[i].base)
      BY <1>1, NoLocal DEF Entries, View
    <3> QED
      BY <1>1, <1>4, <2>1, <2>2, <3>1 DEF IndexGood
  <2> QED
    BY <2>1, <2>2, <2>3 DEF Exact
<1> QED
  BY <1>5, <1>6 DEF Good

\* Schemas of one collation encode index keys alike.
LEMMA SameKeys ==
  ASSUME NEW sch, NEW sch2, sch.collation = sch2.collation, NEW i, NEW rows
  PROVE  /\ IndexOf(sch, i, rows) = IndexOf(sch2, i, rows)
         /\ Duplicate(sch, i, rows) <=> Duplicate(sch2, i, rows)
<1>1. \A k, v : encodeIndexKey(sch, i, k, v) = encodeIndexKey(sch2, i, k, v)
  BY DEF encodeIndexKey
<1>2. Duplicate(sch, i, rows) <=> Duplicate(sch2, i, rows)
  BY <1>1 DEF Duplicate
<1>3. IndexOf(sch, i, rows) = IndexOf(sch2, i, rows)
  BY <1>1 DEF IndexOf
<1> QED
  BY <1>2, <1>3

\* The index edits ensureIndexEdits derives for one index.
LEMMA DerivedGood ==
  ASSUME NEW snap, NEW t \in Tables, TreesGood(snap), NEW sch, NEW i \in Indexes(sch),
         ~Recoded(snap.disk, sch, t), NoDuplicates(sch, Base(snap, t)), NEW edits,
         Patched(snap.disk[t].rows, edits) = Base(snap, t), NEW base,
         base = IF i \in Persisted(snap, t) THEN deriveIndexEdits(snap.disk[t], sch, i, edits)
                ELSE IndexOf(sch, i, Base(snap, t))
  PROVE  Applied(Tree(snap, t, i), base) = IndexOf(sch, i, Base(snap, t))
<1>1. PICK table, B : table = snap.disk[t] /\ B = Base(snap, t)
  OBVIOUS
<1>2. ~Duplicate(sch, i, B)
  BY <1>1 DEF NoDuplicates
<1>3. CASE i \in Persisted(snap, t)
  <2>1. table.trees = Rebuilt(table.schema, table.rows) /\ NoDuplicates(table.schema, table.rows)
    BY <1>1 DEF TreesGood
  <2>2. i \in DOMAIN table.trees
    BY <1>1, <1>3 DEF Persisted
  <2>3. Present(table.rows) # {}
    BY <2>1, <2>2 DEF Rebuilt, Empty
  <2>4. table.trees = [j \in Indexes(table.schema) |-> IndexOf(table.schema, j, table.rows)]
    BY <2>1, <2>3 DEF Rebuilt
  <2>5. table.trees[i] = IndexOf(table.schema, i, table.rows) /\ i \in Indexes(table.schema)
    BY <2>2, <2>4
  <2>6. table.schema.collation = sch.collation
    BY <1>1 DEF Recoded
  <2>7. table.trees[i] = IndexOf(sch, i, table.rows) /\ ~Duplicate(sch, i, table.rows)
    BY <2>1, <2>5, <2>6, SameKeys DEF NoDuplicates
  <2>8. ~Duplicate(sch, i, Patched(table.rows, edits))
    BY <1>1, <1>2
  <2>9. Applied(IndexOf(sch, i, table.rows), deriveIndexEdits(table, sch, i, edits))
          = IndexOf(sch, i, Patched(table.rows, edits))
    BY <2>7, <2>8, DerivedEditsExact
  <2> QED
    BY <1>1, <1>3, <2>7, <2>9 DEF Tree
<1>4. CASE i \notin Persisted(snap, t)
  <2>1. Tree(snap, t, i) = Empty /\ base = IndexOf(sch, i, B)
    BY <1>1, <1>4 DEF Tree
  <2>2. PICK f : f = Applied(Empty, base)
    OBVIOUS
  <2>3. /\ f = [e \in DOMAIN f |-> f[e]]
        /\ \A e, k : Maps(f, e, k) <=>
             IF e \in DOMAIN base THEN base[e] = k /\ k # Deleted ELSE Maps(Empty, e, k)
    BY <2>2, AppliedMaps
  <2>4. \A e, k : Maps(base, e, k) <=> Has(sch, i, B, k, e)
    BY <1>2, <2>1, IndexMaps
  <2>5. \A e, k : Maps(f, e, k) <=> Has(sch, i, B, k, e)
    <3> TAKE e, k
    <3>1. ~Maps(Empty, e, k)
      BY DEF Maps, Empty
    <3>2. Has(sch, i, B, k, e) => k # Deleted
      BY IndexAssumption DEF Has
    <3>3. Maps(base, e, k) <=> e \in DOMAIN base /\ base[e] = k
      BY DEF Maps
    <3> QED
      BY <2>3, <2>4, <3>1, <3>2, <3>3
  <2>6. f = IndexOf(sch, i, B)
    BY <1>2, <2>3, <2>5, IsIndex
  <2> QED
    BY <1>1, <2>1, <2>2, <2>6
<1> QED
  BY <1>3, <1>4

\* The indexes of a schema: none only for an empty sequence.
LEMMA IndexesEmpty ==
  ASSUME NEW sch, IsSeq(sch.indexes)
  PROVE  /\ Indexes(sch) = {sch.indexes[n] : n \in 1..Len(sch.indexes)}
         /\ Indexes(sch) = {} <=> sch.indexes = <<>>
<1>1. Len(sch.indexes) \in Nat /\ DOMAIN sch.indexes = 1..Len(sch.indexes)
  BY SeqParts
<1>2. Indexes(sch) = {sch.indexes[n] : n \in DOMAIN sch.indexes}
  BY DEF Indexes, ToSet
<1>3. Indexes(sch) = {} <=> Len(sch.indexes) = 0
  <2>1. CASE Len(sch.indexes) = 0
    BY <1>1, <1>2, <2>1
  <2>2. CASE Len(sch.indexes) # 0
    <3>1. 1 \in DOMAIN sch.indexes
      BY <1>1, <2>2
    <3>2. sch.indexes[1] \in Indexes(sch)
      BY <1>2, <3>1
    <3> QED
      BY <2>2, <3>2
  <2> QED
    BY <2>1, <2>2
<1>4. Len(sch.indexes) = 0 => sch.indexes = <<>>
  BY <1>1 DEF IsSeq
<1>5. sch.indexes = <<>> => Len(sch.indexes) = 0
  OBVIOUS
<1> QED
  BY <1>1, <1>2, <1>3, <1>4, <1>5

\* A table ensureIndexEdits has been called on.
Ensured(spoilt, snap, t, st, new) ==
  /\ Good(spoilt, snap, t, new) /\ new.schema = st.schema /\ ~new.schemaDirty
  /\ DOMAIN new.idx = Indexes(new.schema) /\ Formed(new) /\ TableSound(snap, t, new)

LEMMA EnsureGood ==
  ASSUME NEW spoilt, NEW snap, NEW t \in Tables, TreesGood(snap), NEW st, TableSound(snap, t, st),
         ~st.schemaDirty, Good(spoilt, snap, t, st)
  PROVE  Ensured(spoilt, snap, t, st, ensureIndexEdits(snap, t, st))
<1>n. PICK new : new = ensureIndexEdits(snap, t, st)
  OBVIOUS
<1>t. TableSound(snap, t, new)
  BY <1>n, EnsureSound
<1>s. /\ IsSeq(st.schema.indexes)
      /\ DOMAIN st.idx = Indexes(st.schema) \/ (st.idx = Empty /\ st.edits = NoEdits)
      /\ st.idx = [i \in DOMAIN st.idx |-> [base |-> st.idx[i].base, local |-> st.idx[i].local]]
  BY DEF Good, Shape
<1>e. DOMAIN Empty = {}
  BY DEF Empty
<1>1. CASE st.idx # Empty \/ st.schema.indexes = <<>>
  <2>1. new = st
    BY <1>1, <1>n DEF ensureIndexEdits
  <2>2. DOMAIN st.idx = Indexes(st.schema)
    BY <1>1, <1>s, <1>e, IndexesEmpty
  <2>3. Formed(st)
    BY <1>s DEF TableSound, Formed
  <2> QED
    BY <1>n, <1>t, <2>1, <2>2, <2>3 DEF Ensured
<1>2. CASE ~(st.idx # Empty \/ st.schema.indexes = <<>>)
  <2>1. st.idx = Empty /\ st.edits = NoEdits
    BY <1>2, <1>s, <1>e, IndexesEmpty
  <2>2. PICK edits : edits = Overlay(snap, t, st)
    OBVIOUS
  <2>3. Patched(snap.disk[t].rows, edits) = Base(snap, t)
    BY <2>1, <2>2, VisibleThrough DEF Visible, Base, Rows
  <2>4. ensureRows(snap, t, st) = Base(snap, t)
    <3>1. CASE st.rows # Nil
      <4>1. /\ st.rows = [k \in Keys |-> st.rows[k]]
            /\ \A k \in Keys : st.rows[k] = Through(snap, t, NoEdits[k], k)
        BY <3>1, <2>1 DEF TableSound
      <4>2. st.rows = Base(snap, t)
        BY <4>1 DEF Base, Rows
      <4> QED
        BY <3>1, <4>2 DEF ensureRows
    <3>2. CASE st.rows = Nil
      BY <3>2, <2>2, <2>3 DEF ensureRows, Visible
    <3> QED
      BY <3>1, <3>2
  <2> DEFINE base(i) == IF i \in Persisted(snap, t)
                        THEN deriveIndexEdits(snap.disk[t], st.schema, i, edits)
                        ELSE IndexOf(st.schema, i, Base(snap, t))
             idx == [i \in Indexes(st.schema) |-> [base |-> base(i), local |-> <<>>]]
  <2>5. PICK rows : new = [st EXCEPT !.idx = idx, !.rows = rows]
    BY <1>n, <1>2, <2>2, <2>4 DEF ensureIndexEdits
  <2>i. /\ DOMAIN idx = Indexes(st.schema)
        /\ idx = [i \in DOMAIN idx |-> [base |-> idx[i].base, local |-> <<>>]]
        /\ idx = [i \in DOMAIN idx |-> [base |-> idx[i].base, local |-> idx[i].local]]
        /\ \A i \in Indexes(st.schema) : idx[i].base = base(i)
    <3>1. \A i \in Indexes(st.schema) : idx[i].base = base(i) /\ idx[i].local = <<>>
      OBVIOUS
    <3> QED
      BY <3>1
  <2> HIDE DEF idx
  <2>6. new = [schema |-> st.schema, edits |-> st.edits, rows |-> rows, idx |-> idx,
               dirty |-> st.dirty, schemaDirty |-> st.schemaDirty]
    BY <2>5 DEF TableSound
  <2>7. /\ new.edits = st.edits /\ new.schemaDirty = st.schemaDirty /\ new.rows = rows
        /\ new.schema = st.schema /\ new.idx = idx /\ new.dirty = st.dirty
    BY <2>6
  <2>8. Formed(new)
    BY <1>t, <2>6, <2>7, <2>i DEF Formed, TableSound
  <2>9. ASSUME t \notin spoilt, ~Recoded(snap.disk, st.schema, t)
        PROVE  /\ NoDuplicates(st.schema, Base(snap, t))
               /\ \A i \in Indexes(st.schema) :
                    Applied(Tree(snap, t, i), idx[i].base) = IndexOf(st.schema, i, Base(snap, t))
    <3>1. NoDuplicates(st.schema, Base(snap, t))
      BY <2>9 DEF Good, Exact
    <3>2. ASSUME NEW i \in Indexes(st.schema)
          PROVE  Applied(Tree(snap, t, i), base(i)) = IndexOf(st.schema, i, Base(snap, t))
      <4>1. PICK b : b = base(i)
        OBVIOUS
      <4>2. Applied(Tree(snap, t, i), b) = IndexOf(st.schema, i, Base(snap, t))
        BY <2>3, <2>9, <3>1, <4>1, DerivedGood
      <4> QED
        BY <4>1, <4>2
    <3> QED
      BY <2>i, <3>1, <3>2
  <2>10. Fresh(spoilt, snap, t, new)
    <3>1. /\ new.edits = NoEdits /\ ~new.schemaDirty /\ new.schemaDirty \in BOOLEAN
          /\ new.dirty \in BOOLEAN /\ IsSchema(new.schema) /\ IsSeq(new.schema.indexes)
          /\ new.schema.collation \in Nat /\ snap.disk[t].schema.collation \in Nat
          /\ snap.disk[t].schema.collation <= new.schema.collation
      BY <2>1, <2>7 DEF Good, Shape
    <3> QED
      BY <2>7, <2>9, <2>i, <3>1 DEF Fresh
  <2>11. Good(spoilt, snap, t, new)
    BY <2>10, FreshGood
  <2> QED
    BY <1>n, <1>t, <2>7, <2>8, <2>11, <2>i DEF Ensured
<1> QED
  BY <1>1, <1>2

-----------------------------------------------------------------------------
(* Statements and queries.                                                  *)

\* What an idle transaction on the current snapshot is.
Settled(x) ==
  /\ x # Nil /\ x.stmt = NoStmt /\ TxSound(x) /\ TxGood(transient, x) /\ Linked(Work, x)
  /\ TreesGood(x.snap)
  /\ \A t \in Tables : TableSound(x.snap, t, x.tables[t]) /\ Good(transient, x.snap, t, x.tables[t])

LEMMA IdleSettled ==
  ASSUME SessionsSound, SessionsGood, NEW s \in Sessions, NEW x, x = session[s], x # Nil,
         x.stmt = NoStmt
  PROVE  Settled(x)
<1>1. TxSound(x) /\ TxGood(transient, x) /\ Linked(Work, x)
  BY DEF SessionsSound, SessionsGood
<1>2. TreesGood(x.snap)
  BY <1>1 DEF TxGood
<1>3. ASSUME NEW t \in Tables
      PROVE  TableSound(x.snap, t, x.tables[t]) /\ Good(transient, x.snap, t, x.tables[t])
  BY <1>1 DEF TxSound, TxGood, Failing
<1> QED
  BY <1>1, <1>2, <1>3 DEF Settled

\* Replacing a table of an idle transaction.
LEMMA SettledWrite ==
  ASSUME SessionsSound, SessionsGood, Quiet, NEW s \in Sessions, NEW x, x = session[s], Settled(x),
         NEW t \in Tables, NEW st, NEW stmt, stmt = NoStmt \/ stmt.table = t,
         Good(transient, x.snap, t, st),
         stmt # NoStmt => StmtGood(transient, x.snap, st, stmt),
         st.schemaDirty \/ (st.schema = x.tables[t].schema /\ ~x.tables[t].schemaDirty),
         \/ Writes(s, t, st, stmt)
         \/ session' = [session EXCEPT ![s].tables[t] = st] /\ stmt = x.stmt
  PROVE  SessionsGood'
<1>1. x # Nil /\ x.stmt = NoStmt /\ TxGood(transient, x) /\ Linked(Work, x)
  BY DEF Settled
<1>2. PICK y : y = Replaced(x, t, st, stmt)
  OBVIOUS
<1>3. TxGood(transient, y) /\ Linked(Work, y)
  BY <1>1, <1>2, TxGoodPut
<1>4. session' = [session EXCEPT ![s] = y]
  BY <1>1, <1>2, SessionWrite
<1> QED
  BY <1>3, <1>4, GoodStep

\* A query derives the index edits of a table.
LEMMA LookupGood ==
  ASSUME SessionsSound, SessionsGood, NEW s \in Sessions, NEW t \in Tables, Lookup(s, t)
  PROVE  SessionsGood'
<1>1. PICK x : x = session[s]
  OBVIOUS
<1>2. x # Nil /\ x.stmt = NoStmt /\ ~x.tables[t].schemaDirty
  BY <1>1 DEF Lookup, Changeable, OnCurrent, Table
<1>3. Settled(x)
  BY <1>1, <1>2, IdleSettled
<1>4. PICK st : st = ensureIndexEdits(x.snap, t, x.tables[t])
  OBVIOUS
<1>5. Ensured(transient, x.snap, t, x.tables[t], st)
  BY <1>2, <1>3, <1>4, EnsureGood DEF Settled
<1>6. session' = [session EXCEPT ![s].tables[t] = st] /\ Quiet
  BY <1>1, <1>4 DEF Lookup, Quiet
<1>7. Good(transient, x.snap, t, st) /\ st.schema = x.tables[t].schema
  BY <1>5 DEF Ensured
<1> QED
  BY <1>1, <1>2, <1>3, <1>6, <1>7, SettledWrite

\* So does a statement, which undone at once gives the table back.
LEMMA BeginGood ==
  ASSUME SessionsSound, SessionsGood, NEW s \in Sessions, NEW t \in Tables, StatementBegin(s, t)
  PROVE  SessionsGood'
<1>1. PICK x : x = session[s]
  OBVIOUS
<1>2. x # Nil /\ x.stmt = NoStmt /\ ~x.tables[t].schemaDirty
  BY <1>1 DEF StatementBegin, Changeable, OnCurrent, Table
<1>3. Settled(x)
  BY <1>1, <1>2, IdleSettled
<1>4. PICK st : st = ensureIndexEdits(x.snap, t, x.tables[t])
  OBVIOUS
<1>5. Ensured(transient, x.snap, t, x.tables[t], st)
  BY <1>2, <1>3, <1>4, EnsureGood DEF Settled
<1>6. PICK seen : seen = Visible(x.snap, t, st)
  OBVIOUS
<1>7. PICK lens : lens = [i \in DOMAIN st.idx |-> Len(st.idx[i].local)]
  OBVIOUS
<1>8. PICK stmt : stmt = [table |-> t, failed |-> FALSE, before |-> Empty, lens |-> lens, seen |-> seen]
  OBVIOUS
<1>9. Writes(s, t, st, stmt) /\ Quiet
  BY <1>1, <1>4, <1>6, <1>7, <1>8 DEF StatementBegin, Table, Writes, Quiet
<1>10. /\ stmt.table = t /\ stmt.failed = FALSE /\ stmt.before = Empty
       /\ stmt.lens = lens
  BY <1>8
<1>11. /\ Good(transient, x.snap, t, st) /\ st.schema = x.tables[t].schema /\ ~st.schemaDirty
       /\ DOMAIN st.idx = Indexes(st.schema) /\ Formed(st)
  BY <1>5 DEF Ensured
<1>12. PICK back : back = Undone(st, stmt)
  OBVIOUS
<1>13. /\ back.schema = st.schema /\ back.dirty = st.dirty /\ back.schemaDirty = st.schemaDirty
       /\ back.edits = [k \in Keys |-> FirstEdit(stmt, st.edits, k)]
       /\ back.idx = [i \in DOMAIN st.idx |->
                        [base |-> st.idx[i].base,
                         local |-> SubSeq(st.idx[i].local, 1, stmt.lens[i])]]
  BY <1>11, <1>12, UndoneParts
<1>14. back.edits = st.edits
  BY <1>10, <1>11, <1>13 DEF FirstEdit, Empty, Formed
<1>15. \A i \in DOMAIN st.idx :
         /\ lens[i] \in 0..Len(st.idx[i].local)
         /\ SubSeq(st.idx[i].local, 1, lens[i]) = st.idx[i].local
  <2> TAKE i \in DOMAIN st.idx
  <2>1. IsSeq(st.idx[i].local)
    BY <1>11 DEF Good, Shape, Tidy
  <2> QED
    BY <1>7, <2>1, SeqParts, CutWhole
<1>16. back.idx = st.idx
  BY <1>10, <1>11, <1>13, <1>15 DEF Formed
<1>17. Good(transient, x.snap, t, back)
  <2>1. st.dirty \in BOOLEAN
    BY <1>11 DEF Good, Shape
  <2> QED
    BY <1>11, <1>13, <1>14, <1>16, <2>1, GoodSame
<1>18. StmtGood(transient, x.snap, st, stmt)
  BY <1>10, <1>11, <1>12, <1>15, <1>17 DEF StmtGood
<1> QED
  BY <1>1, <1>2, <1>3, <1>9, <1>10, <1>11, <1>18, SettledWrite

\* A statement that completes leaves what it made.
LEMMA CompleteGood ==
  ASSUME SessionsSound, SessionsGood, NEW s \in Sessions, StatementComplete(s)
  PROVE  SessionsGood'
<1>1. PICK x, t, st : x = session[s] /\ t = x.stmt.table /\ st = x.tables[t]
  OBVIOUS
<1>2. /\ x # Nil /\ x.stmt # NoStmt /\ ~x.stmt.failed /\ Quiet
      /\ session' = [session EXCEPT ![s].stmt = NoStmt]
  BY <1>1 DEF StatementComplete, Quiet
<1>3. TxSound(x) /\ TxGood(transient, x) /\ Linked(Work, x)
  BY <1>1, <1>2 DEF SessionsSound, SessionsGood
<1>4. x = [snap |-> x.snap, tables |-> x.tables, stmt |-> x.stmt]
  BY <1>3 DEF TxSound
<1>5. PICK y : y = [x EXCEPT !.stmt = NoStmt]
  OBVIOUS
<1>6. session' = [session EXCEPT ![s] = y]
  BY <1>1, <1>2, <1>5 DEF SessionsSound
<1>7. y.snap = x.snap /\ y.tables = x.tables /\ y.stmt = NoStmt
  BY <1>4, <1>5
<1>8. TxGood(transient, y)
  BY <1>2, <1>3, <1>7 DEF TxGood, Failing
<1>9. Linked(Work, y)
  BY <1>3, <1>7 DEF Linked
<1> QED
  BY <1>2, <1>6, <1>8, <1>9, GoodStep

\* A statement that is undone leaves the table it found.
LEMMA DiscardGood ==
  ASSUME SessionsSound, SessionsGood, NEW s \in Sessions, DiscardChanges(s)
  PROVE  SessionsGood'
<1>1. PICK x, stmt : x = session[s] /\ stmt = x.stmt
  OBVIOUS
<1>2. PICK t : t = stmt.table
  OBVIOUS
<1>3. PICK st, back : st = x.tables[t] /\ back = Undone(st, stmt)
  OBVIOUS
<1>4. x # Nil /\ stmt # NoStmt /\ Quiet /\ Writes(s, t, back, NoStmt)
  BY <1>1, <1>2, <1>3 DEF DiscardChanges, Quiet, Writes
<1>5. TxSound(x) /\ TxGood(transient, x) /\ Linked(Work, x)
  BY <1>1, <1>4 DEF SessionsSound, SessionsGood
<1>6. t \in Tables /\ ~st.schemaDirty /\ TableSound(x.snap, t, st)
  BY <1>1, <1>2, <1>3, <1>4, <1>5 DEF TxSound, StmtShape, Restores
<1>7. StmtGood(transient, x.snap, st, stmt)
  BY <1>1, <1>2, <1>3, <1>4, <1>5 DEF TxGood
<1>8. Good(transient, x.snap, t, back)
  BY <1>2, <1>3, <1>7 DEF StmtGood
<1>9. back.schema = st.schema
  BY <1>3, <1>6 DEF Undone, TableSound
<1>10. PICK y : y = Replaced(x, t, back, NoStmt)
  OBVIOUS
<1>11. TxGood(transient, y) /\ Linked(Work, y)
  BY <1>1, <1>2, <1>3, <1>5, <1>6, <1>8, <1>9, <1>10, TxGoodPut
<1>12. session' = [session EXCEPT ![s] = y]
  BY <1>1, <1>4, <1>6, <1>10, SessionWrite
<1> QED
  BY <1>4, <1>11, <1>12, GoodStep

-----------------------------------------------------------------------------
(* The start of a transaction.                                              *)

\* The rows under a snapshot are those of its disk and its pending edits.
LEMMA BaseSame ==
  ASSUME NEW snap, NEW w, NEW t, snap.disk = w.disk, snap.pending = w.pending
  PROVE  /\ Base(snap, t) = Base(w, t)
         /\ \A i : Tree(snap, t, i) = Tree(w, t, i)
BY DEF Base, Rows, Through, Tree, Persisted

LEMMA WorkParts ==
  /\ Work.commit = commit /\ Work.generation = generation /\ Work.disk = disk
  /\ Work.pending = pending /\ Work.schema = schema /\ Work.log = log /\ Work.transient = transient
BY DEF Work

LEMMA SnapshotParts ==
  /\ Snapshot.commit = commit /\ Snapshot.generation = generation
  /\ Snapshot.disk = disk /\ Snapshot.pending = pending
BY DEF Snapshot

\* A new transaction has the rows of the working state, and the views of the cache
\* if they are of its generation.
LEMMA FreshTableGood ==
  ASSUME WorkGood(Work), CacheGood(Work, cache), NEW t \in Tables
  PROVE  /\ Good(transient, Snapshot, t, FreshTable(t))
         /\ FreshTable(t).schema = schema[t]
<1>1. PICK idx : idx = IF CacheHit THEN [i \in DOMAIN CachedViews(t) |->
                                          [base |-> CachedViews(t)[i], local |-> <<>>]]
                       ELSE Empty
  OBVIOUS
<1>2. PICK st : st = FreshTable(t)
  OBVIOUS
<1>3. st = [schema |-> schema[t], edits |-> NoEdits, rows |-> Nil, idx |-> idx,
            dirty |-> FALSE, schemaDirty |-> FALSE]
  BY <1>1, <1>2 DEF FreshTable
<1>4. /\ st.schema = schema[t] /\ st.edits = NoEdits /\ st.idx = idx
      /\ st.dirty = FALSE /\ st.schemaDirty = FALSE
  BY <1>3
<1>5. /\ IsSchema(schema[t]) /\ IsSeq(schema[t].indexes)
      /\ schema[t].collation \in Nat /\ disk[t].schema.collation \in Nat
      /\ disk[t].schema.collation <= schema[t].collation
      /\ Sane(Work, t) => NoDuplicates(schema[t], Base(Work, t))
  BY WorkParts DEF WorkGood
<1>6. Base(Snapshot, t) = Base(Work, t) /\ \A i : Tree(Snapshot, t, i) = Tree(Work, t, i)
  BY BaseSame, WorkParts, SnapshotParts
<1>7. Sane(Work, t) <=> t \notin transient /\ ~Recoded(Snapshot.disk, schema[t], t)
  BY WorkParts, SnapshotParts DEF Sane
<1>8. /\ DOMAIN idx = Indexes(schema[t]) \/ idx = Empty
      /\ idx = [i \in DOMAIN idx |-> [base |-> idx[i].base, local |-> <<>>]]
      /\ Sane(Work, t) => \A i \in DOMAIN idx :
           Applied(Tree(Work, t, i), idx[i].base) = IndexOf(schema[t], i, Base(Work, t))
  <2>1. CASE CacheHit /\ t \in DOMAIN cache.views
    <3>1. PICK views : views = cache.views[t]
      OBVIOUS
    <3>2. CachedViews(t) = views
      BY <2>1, <3>1 DEF CachedViews, CacheHit
    <3>3. Hit(Work, cache)
      BY <2>1, WorkParts DEF Hit, CacheHit
    <3>4. ViewsGood(Work, t, views)
      BY <2>1, <3>1, <3>3 DEF CacheGood
    <3>5. /\ DOMAIN views = Indexes(schema[t])
          /\ Sane(Work, t) => \A i \in Indexes(schema[t]) :
               Applied(Tree(Work, t, i), views[i]) = IndexOf(schema[t], i, Base(Work, t))
      BY <3>4, WorkParts DEF ViewsGood
    <3>6. idx = [i \in DOMAIN views |-> [base |-> views[i], local |-> <<>>]]
      BY <1>1, <2>1, <3>2
    <3>7. DOMAIN idx = DOMAIN views /\ \A i \in DOMAIN views : idx[i].base = views[i]
      BY <3>6
    <3>8. idx = [i \in DOMAIN idx |-> [base |-> idx[i].base, local |-> <<>>]]
      BY <3>6, <3>7
    <3> QED
      BY <3>5, <3>7, <3>8
  <2>2. CASE ~(CacheHit /\ t \in DOMAIN cache.views)
    <3>1. idx = Empty
      BY <1>1, <2>2 DEF CachedViews, CacheHit, Empty
    <3>2. DOMAIN idx = {} /\ idx = [i \in DOMAIN idx |-> [base |-> idx[i].base, local |-> <<>>]]
      BY <3>1 DEF Empty
    <3> QED
      BY <3>1, <3>2
  <2> QED
    BY <2>1, <2>2
<1>9. Fresh(transient, Snapshot, t, st)
  BY <1>4, <1>5, <1>6, <1>7, <1>8, SnapshotParts DEF Fresh
<1>10. Good(transient, Snapshot, t, st)
  BY <1>9, FreshGood
<1> QED
  BY <1>2, <1>4, <1>10

LEMMA StartGood ==
  ASSUME DiskExact, SessionsSound, SessionsGood, WorkGood(Work), CacheGood(Work, cache),
         NEW s \in Sessions, StartTransaction(s)
  PROVE  SessionsGood'
<1>1. PICK tables : tables = [t \in Tables |-> FreshTable(t)]
  OBVIOUS
<1>2. PICK y : y = [snap |-> Snapshot, tables |-> tables, stmt |-> NoStmt]
  OBVIOUS
<1>3. session' = [session EXCEPT ![s] = y] /\ Quiet
  BY <1>1, <1>2 DEF StartTransaction, Quiet
<1>4. y.snap = Snapshot /\ y.tables = tables /\ y.stmt = NoStmt
  BY <1>2
<1>5. \A t \in Tables : Good(transient, Snapshot, t, tables[t]) /\ tables[t].schema = schema[t]
  BY <1>1, FreshTableGood
<1>6. TreesGood(Snapshot)
  BY SnapshotParts DEF TreesGood, DiskExact
<1>7. TxGood(transient, y)
  BY <1>4, <1>5, <1>6 DEF TxGood
<1>8. ASSUME NEW t \in Tables
      PROVE  Logged(Work, Snapshot, t, tables[t])
  <2>1. Base(Snapshot, t) = Base(Work, t)
    BY BaseSame, WorkParts, SnapshotParts
  <2>2. Snapshot.pending = Work.pending /\ tables[t].schema = Work.schema[t]
    BY <1>5, WorkParts, SnapshotParts
  <2> QED
    BY <2>1, <2>2 DEF Logged
<1>9. Linked(Work, y)
  BY <1>4, <1>8, WorkParts, SnapshotParts DEF Linked, WorkGood
<1> QED
  BY <1>3, <1>7, <1>9, GoodStep

-----------------------------------------------------------------------------
(* Schema changes.                                                          *)

\* A sequence without one of its elements.
LEMMA RemoveParts ==
  ASSUME NEW l, IsSeq(l), NEW n \in DOMAIN l
  PROVE  /\ IsSeq(RemoveAt(l, n))
         /\ ToSet(RemoveAt(l, n)) \subseteq ToSet(l)
<1> DEFINE S == {l[m] : m \in DOMAIN l}
<1>1. l \in Seq(S) /\ Len(l) \in Nat /\ n \in 1..Len(l)
  BY SeqParts DEF IsSeq
<1>2. PICK a, b : a = SubSeq(l, 1, n - 1) /\ b = SubSeq(l, n + 1, Len(l))
  OBVIOUS
<1> HIDE DEF S
<1>3. a \in Seq(S)
  BY <1>1, <1>2
<1>4. b \in Seq(S)
  BY <1>1, <1>2
<1>5. PICK r : r = RemoveAt(l, n)
  OBVIOUS
<1>6. r = a \o b
  BY <1>2, <1>5 DEF RemoveAt
<1>7. r \in Seq(S)
  BY <1>3, <1>4, <1>6
<1>8. /\ Len(r) \in Nat /\ r = [m \in 1..Len(r) |-> r[m]] /\ DOMAIN r = 1..Len(r)
      /\ \A m \in 1..Len(r) : r[m] \in S
  BY <1>7
<1>9. IsSeq(r)
  BY <1>8, SeqMade
<1>10. ToSet(r) \subseteq ToSet(l)
  BY <1>8 DEF ToSet, S
<1> QED
  BY <1>5, <1>9, <1>10

\* A changed table whose rows have no duplicate under its new schema.
LEMMA AlterGood ==
  ASSUME SessionsSound, SessionsGood, NEW s \in Sessions, NEW t \in Tables, NEW x, x = session[s],
         Settled(x), NEW sch, NEW edits, NEW rows, NEW idx, NEW d, NEW e,
         IsSchema(sch), IsSeq(sch.indexes), sch.collation \in Nat,
         x.snap.disk[t].schema.collation <= sch.collation,
         t \notin transient /\ ~Recoded(x.snap.disk, sch, t) =>
           NoDuplicates(sch, Rows(x.snap, t, edits)),
         Alter(s, t, [schema |-> sch, edits |-> edits, rows |-> rows, idx |-> idx,
                      dirty |-> d, schemaDirty |-> e])
  PROVE  SessionsGood'
<1>1. PICK yes : yes = TRUE
  OBVIOUS
<1>2. PICK st, st1, new :
        /\ st = [schema |-> sch, edits |-> edits, rows |-> rows, idx |-> idx,
                 dirty |-> d, schemaDirty |-> e]
        /\ st1 = [st EXCEPT !.dirty = yes]
        /\ new = [st1 EXCEPT !.schemaDirty = yes]
  OBVIOUS
<1>3. st1 = [schema |-> sch, edits |-> edits, rows |-> rows, idx |-> idx,
             dirty |-> yes, schemaDirty |-> e]
  BY <1>2
<1>4. new = [schema |-> sch, edits |-> edits, rows |-> rows, idx |-> idx,
             dirty |-> yes, schemaDirty |-> yes]
  BY <1>2, <1>3
<1>5. session' = [session EXCEPT ![s].tables[t] = new] /\ Quiet
  BY <1>1, <1>2 DEF Alter, Quiet
<1>6. /\ new.edits = edits /\ new.schemaDirty = TRUE
      /\ new.schema = sch /\ new.dirty = TRUE
  BY <1>1, <1>4
<1>7. x.snap.disk[t].schema.collation \in Nat
  BY DEF Settled, Good, Shape
<1>8. Shape(x.snap, t, new)
  BY <1>6, <1>7 DEF Shape
<1>9. Good(transient, x.snap, t, new)
  BY <1>6, <1>8 DEF Good, Exact
<1>10. x.stmt = NoStmt
  BY DEF Settled
<1> QED
  BY <1>5, <1>6, <1>9, <1>10, SettledWrite

\* What a schema change starts from.
LEMMA UneditedGood ==
  ASSUME SessionsSound, SessionsGood, NEW s \in Sessions, NEW t \in Tables, Unedited(s),
         NEW x, x = session[s], NEW st, st = x.tables[t]
  PROVE  /\ Settled(x) /\ st.edits = NoEdits /\ IsSchema(st.schema) /\ IsSeq(st.schema.indexes)
         /\ st.schema.collation \in Nat /\ x.snap.disk[t].schema.collation \in Nat
         /\ x.snap.disk[t].schema.collation <= st.schema.collation
         /\ t \notin transient /\ ~Recoded(x.snap.disk, st.schema, t) =>
              NoDuplicates(st.schema, Rows(x.snap, t, st.edits))
         /\ st = [schema |-> st.schema, edits |-> st.edits, rows |-> st.rows, idx |-> st.idx,
                  dirty |-> st.dirty, schemaDirty |-> st.schemaDirty]
         /\ Seen(s, t) = Rows(x.snap, t, st.edits)
<1>1. x # Nil /\ x.stmt = NoStmt /\ ~st.dirty
  BY DEF Unedited, Changeable, OnCurrent, Table
<1>2. Settled(x)
  BY <1>1, IdleSettled
<1>3. Good(transient, x.snap, t, st) /\ TableSound(x.snap, t, st)
  BY <1>2 DEF Settled
<1>4. Shape(x.snap, t, st)
  BY <1>3 DEF Good
<1>5. Seen(s, t) = Rows(x.snap, t, st.edits)
  BY VisibleThrough DEF Seen, Table, Rows
<1>6. t \notin transient /\ ~Recoded(x.snap.disk, st.schema, t) =>
        NoDuplicates(st.schema, Rows(x.snap, t, st.edits))
  BY <1>3 DEF Good, Exact
<1>7. st = [schema |-> st.schema, edits |-> st.edits, rows |-> st.rows, idx |-> st.idx,
            dirty |-> st.dirty, schemaDirty |-> st.schemaDirty]
  BY <1>3 DEF TableSound
<1> QED
  BY <1>1, <1>2, <1>4, <1>5, <1>6, <1>7 DEF Shape

\* CREATE INDEX looks for duplicates of a unique index.
LEMMA CreateGood ==
  ASSUME SessionsSound, SessionsGood, NEW s \in Sessions, NEW t \in Tables, NEW i,
         CreateIndex(s, t, i)
  PROVE  SessionsGood'
<1>1. PICK x, st : x = session[s] /\ st = x.tables[t]
  OBVIOUS
<1>2. Unedited(s)
  BY DEF CreateIndex
<1>3. /\ Settled(x) /\ st.edits = NoEdits /\ IsSchema(st.schema) /\ IsSeq(st.schema.indexes)
      /\ st.schema.collation \in Nat /\ x.snap.disk[t].schema.collation \in Nat
      /\ x.snap.disk[t].schema.collation <= st.schema.collation
      /\ t \notin transient /\ ~Recoded(x.snap.disk, st.schema, t) =>
           NoDuplicates(st.schema, Rows(x.snap, t, st.edits))
      /\ st = [schema |-> st.schema, edits |-> st.edits, rows |-> st.rows, idx |-> st.idx,
               dirty |-> st.dirty, schemaDirty |-> st.schemaDirty]
      /\ Seen(s, t) = Rows(x.snap, t, st.edits)
  BY <1>1, <1>2, UneditedGood
<1>4. PICK old, more : old = st.schema /\ more = Append(old.indexes, i)
  OBVIOUS
<1>5. PICK sch : sch = [old EXCEPT !.indexes = more]
  OBVIOUS
<1>6. sch = [indexes |-> more, collation |-> old.collation]
  BY <1>3, <1>4, <1>5 DEF IsSchema
<1>7. sch.indexes = more /\ sch.collation = old.collation
  BY <1>6
<1>8. IsSchema(sch) /\ IsSeq(sch.indexes)
  BY <1>3, <1>4, <1>6, <1>7, AppendParts DEF IsSchema
<1>9. PICK rows, st1 : /\ st1 = [st EXCEPT !.schema = sch]
                       /\ Alter(s, t, [st1 EXCEPT !.rows = rows])
  BY <1>1, <1>4, <1>5 DEF CreateIndex, Table
<1>10. st1 = [schema |-> sch, edits |-> st.edits, rows |-> st.rows, idx |-> st.idx,
              dirty |-> st.dirty, schemaDirty |-> st.schemaDirty]
  BY <1>3, <1>9
<1>11. [st1 EXCEPT !.rows = rows]
         = [schema |-> sch, edits |-> st.edits, rows |-> rows, idx |-> st.idx,
            dirty |-> st.dirty, schemaDirty |-> st.schemaDirty]
  BY <1>10
<1>12. Indexes(sch) \subseteq Indexes(old) \cup {i}
  <2>1. Len(old.indexes) \in Nat /\ DOMAIN old.indexes = 1..Len(old.indexes)
    BY <1>3, <1>4, SeqParts
  <2>2. /\ Len(more) = Len(old.indexes) + 1
        /\ \A n \in 1..Len(old.indexes) : more[n] = old.indexes[n]
        /\ more[Len(old.indexes) + 1] = i
    BY <1>3, <1>4, AppendParts
  <2>3. Indexes(sch) = {more[n] : n \in 1..Len(more)}
    BY <1>7, <1>8, IndexesEmpty
  <2>4. Indexes(old) = {old.indexes[n] : n \in 1..Len(old.indexes)}
    BY <1>3, <1>4, IndexesEmpty
  <2> QED
    BY <2>1, <2>2, <2>3, <2>4
<1>13. ASSUME t \notin transient, ~Recoded(x.snap.disk, sch, t)
       PROVE  NoDuplicates(sch, Rows(x.snap, t, st.edits))
  <2>1. PICK R : R = Rows(x.snap, t, st.edits)
    OBVIOUS
  <2>2. NoDuplicates(old, R)
    BY <1>3, <1>4, <1>7, <1>13, <2>1 DEF Recoded
  <2>3. ~Duplicate(old, i, R)
    <3>1. i \in Unique => ~Duplicate(old, i, Seen(s, t))
      BY <1>1, <1>4 DEF CreateIndex, Table
    <3> QED
      BY <1>3, <2>1, <3>1, DuplicateHas
  <2>4. \A j \in Indexes(sch) : ~Duplicate(old, j, R)
    BY <1>12, <2>2, <2>3 DEF NoDuplicates
  <2>5. \A j \in Indexes(sch) : ~Duplicate(sch, j, R)
    BY <1>7, <2>4, SameKeys
  <2> QED
    BY <2>1, <2>5 DEF NoDuplicates
<1>14. sch.collation \in Nat /\ x.snap.disk[t].schema.collation <= sch.collation
  BY <1>3, <1>4, <1>7
<1>15. Alter(s, t, [schema |-> sch, edits |-> st.edits, rows |-> rows, idx |-> st.idx,
                    dirty |-> st.dirty, schemaDirty |-> st.schemaDirty])
  BY <1>9, <1>11
<1> QED
  BY <1>1, <1>3, <1>8, <1>13, <1>14, <1>15, AlterGood

\* DROP INDEX leaves some of the indexes.
LEMMA DropGood ==
  ASSUME SessionsSound, SessionsGood, NEW s \in Sessions, NEW t \in Tables, NEW i,
         DropIndex(s, t, i)
  PROVE  SessionsGood'
<1>1. PICK x, st : x = session[s] /\ st = x.tables[t]
  OBVIOUS
<1>2. Unedited(s)
  BY DEF DropIndex
<1>3. /\ Settled(x) /\ st.edits = NoEdits /\ IsSchema(st.schema) /\ IsSeq(st.schema.indexes)
      /\ st.schema.collation \in Nat /\ x.snap.disk[t].schema.collation \in Nat
      /\ x.snap.disk[t].schema.collation <= st.schema.collation
      /\ t \notin transient /\ ~Recoded(x.snap.disk, st.schema, t) =>
           NoDuplicates(st.schema, Rows(x.snap, t, st.edits))
      /\ st = [schema |-> st.schema, edits |-> st.edits, rows |-> st.rows, idx |-> st.idx,
               dirty |-> st.dirty, schemaDirty |-> st.schemaDirty]
  BY <1>1, <1>2, UneditedGood
<1>n. PICK n \in DOMAIN st.schema.indexes : Alter(s, t, [st EXCEPT
              !.schema.indexes = RemoveAt(@, n),
              !.idx = [j \in DOMAIN @ \ {i} |-> @[j]]])
  BY <1>1 DEF DropIndex, Table
<1>4. PICK old, less : old = st.schema /\ less = RemoveAt(old.indexes, n)
  OBVIOUS
<1>5. PICK sch : sch = [old EXCEPT !.indexes = less]
  OBVIOUS
<1>6. sch = [indexes |-> less, collation |-> old.collation]
  BY <1>3, <1>4, <1>5 DEF IsSchema
<1>7. sch.indexes = less /\ sch.collation = old.collation
  BY <1>6
<1>8. IsSchema(sch) /\ IsSeq(sch.indexes) /\ Indexes(sch) \subseteq Indexes(old)
  BY <1>3, <1>4, <1>6, <1>7, RemoveParts DEF IsSchema, Indexes
<1>9. PICK idx, st1 : /\ st1 = [st EXCEPT !.schema = sch]
                      /\ Alter(s, t, [st1 EXCEPT !.idx = idx])
  BY <1>n, <1>4, <1>5
<1>10. st1 = [schema |-> sch, edits |-> st.edits, rows |-> st.rows, idx |-> st.idx,
              dirty |-> st.dirty, schemaDirty |-> st.schemaDirty]
  BY <1>3, <1>9
<1>11. [st1 EXCEPT !.idx = idx]
         = [schema |-> sch, edits |-> st.edits, rows |-> st.rows, idx |-> idx,
            dirty |-> st.dirty, schemaDirty |-> st.schemaDirty]
  BY <1>10
<1>13. ASSUME t \notin transient, ~Recoded(x.snap.disk, sch, t)
       PROVE  NoDuplicates(sch, Rows(x.snap, t, st.edits))
  <2>1. PICK R : R = Rows(x.snap, t, st.edits)
    OBVIOUS
  <2>2. NoDuplicates(old, R)
    BY <1>3, <1>4, <1>7, <1>13, <2>1 DEF Recoded
  <2>4. \A j \in Indexes(sch) : ~Duplicate(old, j, R)
    BY <1>8, <2>2 DEF NoDuplicates
  <2>5. \A j \in Indexes(sch) : ~Duplicate(sch, j, R)
    BY <1>7, <2>4, SameKeys
  <2> QED
    BY <2>1, <2>5 DEF NoDuplicates
<1>14. sch.collation \in Nat /\ x.snap.disk[t].schema.collation <= sch.collation
  BY <1>3, <1>4, <1>7
<1>15. Alter(s, t, [schema |-> sch, edits |-> st.edits, rows |-> st.rows, idx |-> idx,
                    dirty |-> st.dirty, schemaDirty |-> st.schemaDirty])
  BY <1>9, <1>11
<1> QED
  BY <1>1, <1>3, <1>8, <1>13, <1>14, <1>15, AlterGood

\* MODIFY COLUMN makes the index trees those of another column.
LEMMA ModifyGood ==
  ASSUME SessionsSound, SessionsGood, NEW s \in Sessions, NEW t \in Tables, ModifyColumn(s, t)
  PROVE  SessionsGood'
<1>1. PICK x, st : x = session[s] /\ st = x.tables[t]
  OBVIOUS
<1>2. Unedited(s)
  BY DEF ModifyColumn
<1>3. /\ Settled(x) /\ st.edits = NoEdits /\ IsSchema(st.schema) /\ IsSeq(st.schema.indexes)
      /\ st.schema.collation \in Nat /\ x.snap.disk[t].schema.collation \in Nat
      /\ x.snap.disk[t].schema.collation <= st.schema.collation
      /\ st = [schema |-> st.schema, edits |-> st.edits, rows |-> st.rows, idx |-> st.idx,
               dirty |-> st.dirty, schemaDirty |-> st.schemaDirty]
  BY <1>1, <1>2, UneditedGood
<1>4. PICK old, next : old = st.schema /\ next = old.collation + 1
  OBVIOUS
<1>5. PICK sch : sch = [old EXCEPT !.collation = next]
  OBVIOUS
<1>6. sch = [indexes |-> old.indexes, collation |-> next]
  BY <1>3, <1>4, <1>5 DEF IsSchema
<1>7. sch.indexes = old.indexes /\ sch.collation = next
  BY <1>6
<1>8. IsSchema(sch) /\ IsSeq(sch.indexes)
  BY <1>3, <1>4, <1>6, <1>7 DEF IsSchema
<1>9. PICK rows, edits, st1, st2, st3 :
        /\ st1 = [st EXCEPT !.schema = sch]
        /\ st2 = [st1 EXCEPT !.idx = Empty]
        /\ st3 = [st2 EXCEPT !.rows = rows]
        /\ Alter(s, t, [st3 EXCEPT !.edits = edits])
  BY <1>1, <1>4, <1>5 DEF ModifyColumn, Table
<1>10. st1 = [schema |-> sch, edits |-> st.edits, rows |-> st.rows, idx |-> st.idx,
              dirty |-> st.dirty, schemaDirty |-> st.schemaDirty]
  BY <1>3, <1>9
<1>11. st2 = [schema |-> sch, edits |-> st.edits, rows |-> st.rows, idx |-> Empty,
              dirty |-> st.dirty, schemaDirty |-> st.schemaDirty]
  BY <1>9, <1>10
<1>12. st3 = [schema |-> sch, edits |-> st.edits, rows |-> rows, idx |-> Empty,
              dirty |-> st.dirty, schemaDirty |-> st.schemaDirty]
  BY <1>9, <1>11
<1>13. [st3 EXCEPT !.edits = edits]
         = [schema |-> sch, edits |-> edits, rows |-> rows, idx |-> Empty,
            dirty |-> st.dirty, schemaDirty |-> st.schemaDirty]
  BY <1>12
<1>14. /\ sch.collation \in Nat /\ x.snap.disk[t].schema.collation <= sch.collation
       /\ x.snap.disk[t].schema.collation # sch.collation
  BY <1>3, <1>4, <1>7
<1>15. Alter(s, t, [schema |-> sch, edits |-> edits, rows |-> rows, idx |-> Empty,
                    dirty |-> st.dirty, schemaDirty |-> st.schemaDirty])
  BY <1>9, <1>13
<1>16. Recoded(x.snap.disk, sch, t)
  BY <1>14 DEF Recoded
<1> QED
  BY <1>1, <1>3, <1>8, <1>14, <1>15, <1>16, AlterGood

-----------------------------------------------------------------------------
(* The end of a transaction that wrote nothing.                             *)

\* A snapshot of the current generation is the working state.
LEMMA SameWork ==
  ASSUME NEW w, NEW x, Linked(w, x), x.snap.commit = w.commit, x.snap.generation = w.generation,
         NEW t \in Tables
  PROVE  /\ x.snap.disk = w.disk /\ Base(x.snap, t) = Base(w, t)
         /\ \A i : Tree(x.snap, t, i) = Tree(w, t, i)
         /\ \A k \in Keys : x.snap.pending[t][k] = w.pending[t][k]
         /\ ~x.tables[t].schemaDirty => x.tables[t].schema = w.schema[t]
<1>1. Logged(w, x.snap, t, x.tables[t]) /\ x.snap.disk = w.disk /\ w.generation \in Nat
  BY DEF Linked
<1>2. Unseen(w, x.snap) = {}
  BY <1>1 DEF Unseen
<1>3. \A k \in Keys : x.snap.pending[t][k] = w.pending[t][k]
  BY <1>1, <1>2 DEF Logged
<1>4. ~x.tables[t].schemaDirty => x.tables[t].schema = w.schema[t]
  BY <1>1, <1>2 DEF Logged
<1>5. Base(x.snap, t) = Base(w, t)
  BY <1>1, <1>3 DEF Base, Rows, Through
<1>6. \A i : Tree(x.snap, t, i) = Tree(w, t, i)
  BY <1>1 DEF Tree, Persisted
<1> QED
  BY <1>1, <1>3, <1>4, <1>5, <1>6

\* The views of a transaction's own table, when the working state has its rows.
LEMMA OwnViews ==
  ASSUME NEW spoilt, NEW snap, NEW t, NEW st, Good(spoilt, snap, t, st), ~st.schemaDirty,
         st.idx # Empty, NEW w, w.schema[t] = st.schema, w.disk = snap.disk,
         spoilt \subseteq w.transient, Base(w, t) = Rows(snap, t, st.edits)
  PROVE  ViewsGood(w, t, indexViews(st.idx))
<1>1. PICK views : views = indexViews(st.idx)
  OBVIOUS
<1>2. DOMAIN st.idx = Indexes(w.schema[t])
  BY DEF Good, Shape
<1>3. DOMAIN views = DOMAIN st.idx /\ \A i \in DOMAIN st.idx : views[i] = View(st.idx[i])
  BY <1>1 DEF indexViews
<1>4. ASSUME Sane(w, t), NEW i \in DOMAIN st.idx
      PROVE  Applied(Tree(w, t, i), views[i]) = IndexOf(w.schema[t], i, Base(w, t))
  <2>1. t \notin spoilt /\ ~Recoded(snap.disk, st.schema, t)
    BY <1>4 DEF Sane
  <2>2. IndexGood(snap, t, st, i)
    BY <1>4, <2>1 DEF Good, Exact
  <2>3. Tree(w, t, i) = Tree(snap, t, i)
    BY DEF Tree, Persisted
  <2> QED
    BY <1>3, <1>4, <2>2, <2>3 DEF IndexGood, Entries
<1>5. ViewsGood(w, t, views)
  BY <1>2, <1>3, <1>4 DEF ViewsGood
<1> QED
  BY <1>1, <1>5

\* rememberIndexEdits keeps views of the snapshot: the cache takes them when it is
\* the working state.
LEMMA RememberGood ==
  ASSUME SessionsSound, SessionsGood, WorkGood(Work), CacheGood(Work, cache),
         NEW s \in Sessions, Idle(s), Dirty(s) = {}
  PROVE  CacheGood(Work, rememberIndexEdits(s))
<1>1. PICK x, w, c, old : x = session[s] /\ w = Work /\ c = rememberIndexEdits(s) /\ old = cache
  OBVIOUS
<1>2. Settled(x)
  BY <1>1, IdleSettled DEF Idle
<1>3. \A t \in Tables : ~x.tables[t].dirty
  BY <1>1 DEF Dirty, Table
<1>4. PICK derived, kept :
        /\ derived = {t \in Tables : x.tables[t].idx # Empty}
        /\ kept = IF old # Nil /\ old.commit = x.snap.commit /\ old.generation = x.snap.generation
                  THEN old.views ELSE Empty
  OBVIOUS
<1>5. PICK views : views = [t \in DOMAIN kept \cup derived |->
                              IF t \in DOMAIN kept THEN kept[t] ELSE indexViews(x.tables[t].idx)]
  OBVIOUS
<1>6. c = IF derived = {} THEN old
          ELSE [commit |-> x.snap.commit, generation |-> x.snap.generation, views |-> views]
  BY <1>1, <1>4, <1>5 DEF rememberIndexEdits, Table
<1>7. CASE derived = {}
  BY <1>1, <1>6, <1>7
<1>8. CASE derived # {}
  <2>1. c.commit = x.snap.commit /\ c.generation = x.snap.generation /\ c.views = views
    BY <1>6, <1>8
  <2>2. Linked(w, x)
    BY <1>1, <1>2 DEF Settled
  <2>3. ASSUME Hit(w, c), NEW t \in Tables \cap DOMAIN c.views
        PROVE  ViewsGood(w, t, c.views[t])
    <3>1. x.snap.commit = w.commit /\ x.snap.generation = w.generation
      BY <2>1, <2>3 DEF Hit
    <3>2. CASE t \in DOMAIN kept
      <4>1. old # Nil /\ old.commit = w.commit /\ old.generation = w.generation /\ kept = old.views
        BY <1>4, <3>1, <3>2 DEF Empty
      <4>2. Hit(w, old)
        BY <4>1 DEF Hit
      <4>3. c.views[t] = old.views[t] /\ t \in DOMAIN old.views
        BY <1>5, <2>1, <3>2, <4>1
      <4> QED
        BY <1>1, <4>2, <4>3 DEF CacheGood
    <3>3. CASE t \notin DOMAIN kept
      <4>1. PICK st : st = x.tables[t]
        OBVIOUS
      <4>2. st.idx # Empty /\ c.views[t] = indexViews(st.idx)
        BY <1>4, <1>5, <2>1, <2>3, <3>3, <4>1
      <4>3. Good(transient, x.snap, t, st)
        BY <1>2, <4>1 DEF Settled
      <4>4. ~st.dirty /\ ~st.schemaDirty /\ st.edits = NoEdits
        BY <1>3, <4>1, <4>3 DEF Good, Shape
      <4>5. x.snap.disk = w.disk /\ Base(x.snap, t) = Base(w, t) /\ st.schema = w.schema[t]
        BY <2>2, <3>1, <4>1, <4>4, SameWork
      <4>6. Base(w, t) = Rows(x.snap, t, st.edits)
        BY <4>4, <4>5 DEF Base
      <4>7. transient \subseteq w.transient
        BY <1>1, WorkParts
      <4> QED
        BY <4>2, <4>3, <4>4, <4>5, <4>6, <4>7, OwnViews
    <3> QED
      BY <3>2, <3>3
  <2>4. /\ c.commit \in Nat /\ c.generation \in Nat
        /\ c.commit <= w.commit /\ c.generation <= w.generation
    BY <2>1, <2>2 DEF Linked
  <2> QED
    BY <1>1, <2>3, <2>4 DEF CacheGood
<1> QED
  BY <1>7, <1>8

=============================================================================
