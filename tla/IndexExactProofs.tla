-------------------------- MODULE IndexExactProofs --------------------------
(***************************************************************************)
(* Secondary indexes are exact for every number of sessions, tables, keys,  *)
(* values and indexes, as long as no statement goes on behind a failed row:  *)
(* in a transaction, in the cache the next one starts from, and, with the    *)
(* claims of unique keys in the log, among the rows that were committed.     *)
(***************************************************************************)
EXTENDS IndexSessionsProofs

-----------------------------------------------------------------------------
(* A commit.                                                                *)

\* What a commit of a transaction whose table t is st writes, and what the commits it
\* has not seen did not write.
TableWritten(w, snap, t, st, wr, w2) ==
  /\ w2.schema[t] = IF st.schemaDirty THEN st.schema ELSE w.schema[t]
  /\ \A k \in Keys : w2.pending[t][k] =
       IF st.dirty /\ st.edits[k] # NoEdit THEN st.edits[k] ELSE w.pending[t][k]
  /\ st.dirty =>
       /\ t \in wr.tables /\ (st.schemaDirty => t \in wr.schema)
       /\ \A k \in Keys : st.edits[k] # NoEdit => <<t, k>> \in wr.rows
       /\ \A c \in uniqueClaims(t, st) : c \in wr.claims
       /\ \A g \in Unseen(w, snap) :
            /\ t \notin w.log[g].schema /\ (st.schemaDirty => t \notin w.log[g].tables)
            /\ \A k \in Keys : st.edits[k] # NoEdit => <<t, k>> \notin w.log[g].rows
            /\ \A c \in uniqueClaims(t, st) : c \notin w.log[g].claims

Journalled(w, x, wr, w2) ==
  /\ x.snap.commit = w.commit /\ w2.commit = w.commit /\ w2.disk = w.disk
  /\ w2.generation = w.generation + 1 /\ w2.log = Append(w.log, wr)
  /\ w2.transient = w.transient \cup
       {t \in Tables : /\ x.tables[t].dirty /\ x.snap.generation # w.generation
                       /\ Releases(x.tables[t])}
  /\ \A t \in Tables : TableWritten(w, x.snap, t, x.tables[t], wr, w2)

\* What commitTypedEdits hands to the journal of a table.
LEMMA WrittenParts ==
  ASSUME NEW s, NEW t \in Tables, NEW st, st = Table(s, t), st.dirty
  PROVE  /\ t \in Written(s).tables /\ (st.schemaDirty => t \in Written(s).schema)
         /\ \A k \in Keys : st.edits[k] # NoEdit => <<t, k>> \in Written(s).rows
         /\ \A c \in uniqueClaims(t, st) : c \in Written(s).claims
<1>1. t \in Dirty(s)
  BY DEF Dirty
<1>2. /\ Written(s).rows = UNION {{<<r, k>> : k \in {k \in Keys : Table(s, r).edits[k] # NoEdit}} :
                                    r \in Dirty(s)}
      /\ Written(s).claims = UNION {uniqueClaims(r, Table(s, r)) : r \in Dirty(s)}
      /\ Written(s).tables = Dirty(s)
      /\ Written(s).schema = {r \in Dirty(s) : Table(s, r).schemaDirty}
  BY DEF Written
<1>3. \A k \in Keys : st.edits[k] # NoEdit => <<t, k>> \in Written(s).rows
  <2> TAKE k \in Keys
  <2> HAVE st.edits[k] # NoEdit
  <2> DEFINE part(r) == {<<r, m>> : m \in {m \in Keys : Table(s, r).edits[m] # NoEdit}}
  <2>1. <<t, k>> \in part(t)
    OBVIOUS
  <2>2. Written(s).rows = UNION {part(r) : r \in Dirty(s)}
    BY <1>2
  <2> HIDE DEF part
  <2> QED
    BY <1>1, <2>1, <2>2
<1>4. \A c \in uniqueClaims(t, st) : c \in Written(s).claims
  BY <1>1, <1>2
<1> QED
  BY <1>1, <1>2, <1>3, <1>4

LEMMA CommitForm ==
  ASSUME NEW s \in Sessions, NEW stored, CommitTypedEdits(s, stored), NEW x, x = session[s]
  PROVE  Journalled(Work, x, Written(s), Work')
<1>1. PICK w, w2, wr : w = Work /\ w2 = Work' /\ wr = Written(s)
  OBVIOUS
<1>2. /\ w.commit = commit /\ w.generation = generation /\ w.disk = disk /\ w.log = log
      /\ w.pending = pending /\ w.schema = schema /\ w.transient = transient
  BY <1>1, WorkParts
<1>3. /\ w2.commit = commit' /\ w2.generation = generation' /\ w2.disk = disk' /\ w2.log = log'
      /\ w2.pending = pending' /\ w2.schema = schema' /\ w2.transient = transient'
  BY <1>1 DEF Work
<1>4. ~Conflict(s)
  BY DEF CommitTypedEdits
<1>5. x.snap.commit = w.commit
  BY <1>2, <1>4 DEF Conflict
<1>6. \A g \in Unseen(w, x.snap) :
        /\ log[g].rows \cap wr.rows = {}
        /\ log[g].claims \cap wr.claims = {}
        /\ log[g].schema \cap wr.tables = {}
        /\ log[g].tables \cap wr.schema = {}
  BY <1>1, <1>2, <1>4 DEF Conflict, Unseen
<1>7. /\ w2.commit = w.commit /\ w2.disk = w.disk
      /\ w2.generation = w.generation + 1 /\ w2.log = Append(w.log, wr)
  BY <1>1, <1>2, <1>3 DEF CommitTypedEdits
<1>8. w2.transient = w.transient \cup
        {t \in Tables : /\ x.tables[t].dirty /\ x.snap.generation # w.generation
                        /\ Releases(x.tables[t])}
  <2>1. transient' = transient \cup
          {t \in Dirty(s) : session[s].snap.generation # generation /\ Releases(Table(s, t))}
    BY DEF CommitTypedEdits
  <2> QED
    BY <1>2, <1>3, <2>1 DEF Dirty, Table
<1>9. ASSUME NEW t \in Tables
      PROVE  TableWritten(w, x.snap, t, x.tables[t], wr, w2)
  <2>1. PICK st : st = x.tables[t] /\ st = Table(s, t)
    BY DEF Table
  <2>2. w2.schema[t] = IF st.schemaDirty THEN st.schema ELSE w.schema[t]
    BY <1>2, <1>3, <2>1 DEF CommitTypedEdits
  <2>3. \A k \in Keys : w2.pending[t][k] =
          IF st.dirty /\ st.edits[k] # NoEdit THEN st.edits[k] ELSE w.pending[t][k]
    <3> TAKE k \in Keys
    <3>1. pending'[t] = IF st.dirty THEN Patched(pending[t], st.edits) ELSE pending[t]
      BY <2>1 DEF CommitTypedEdits
    <3>2. Patched(pending[t], st.edits)[k] = IF st.edits[k] = NoEdit THEN pending[t][k] ELSE st.edits[k]
      BY DEF Patched
    <3> QED
      BY <1>2, <1>3, <3>1, <3>2
  <2>4. ASSUME st.dirty
        PROVE  /\ t \in wr.tables /\ (st.schemaDirty => t \in wr.schema)
               /\ \A k \in Keys : st.edits[k] # NoEdit => <<t, k>> \in wr.rows
               /\ \A c \in uniqueClaims(t, st) : c \in wr.claims
    BY <1>1, <2>1, <2>4, WrittenParts
  <2>5. ASSUME st.dirty, NEW g \in Unseen(w, x.snap)
        PROVE  /\ t \notin w.log[g].schema /\ (st.schemaDirty => t \notin w.log[g].tables)
               /\ \A k \in Keys : st.edits[k] # NoEdit => <<t, k>> \notin w.log[g].rows
               /\ \A c \in uniqueClaims(t, st) : c \notin w.log[g].claims
    BY <1>2, <1>6, <2>4, <2>5
  <2> QED
    BY <2>1, <2>2, <2>3, <2>4, <2>5 DEF TableWritten
<1> QED
  BY <1>1, <1>5, <1>7, <1>8, <1>9 DEF Journalled

\* The rows such a commit leaves: those it edited as it sees them, of which no other
\* commit took one meanwhile, and the others as they are.
Lands(w, snap, t, st, w2) ==
  /\ w2.disk = w.disk /\ snap.disk = w.disk
  /\ \A k \in Keys : st.edits[k] # NoEdit =>
       /\ st.dirty /\ Base(snap, t)[k] = Base(w, t)[k]
       /\ Base(w2, t)[k] = Rows(snap, t, st.edits)[k]
  /\ \A k \in Keys : st.edits[k] = NoEdit =>
       /\ Base(w2, t)[k] = Base(w, t)[k]
       /\ Rows(snap, t, st.edits)[k] = Base(snap, t)[k]
  /\ w2.schema[t] = IF st.schemaDirty THEN st.schema ELSE w.schema[t]
  /\ st.dirty /\ ~st.schemaDirty => st.schema = w.schema[t]
  /\ st.schemaDirty => st.dirty /\ Base(w2, t) = Rows(snap, t, st.edits)
  /\ ~st.dirty => ~st.schemaDirty /\ st.edits = NoEdits /\ Base(w2, t) = Base(w, t)
  /\ \A i : Tree(snap, t, i) = Tree(w, t, i) /\ Tree(w2, t, i) = Tree(w, t, i)

LEMMA CommitLands ==
  ASSUME NEW w, NEW x, Linked(w, x), NEW wr, NEW w2, Journalled(w, x, wr, w2), NEW t \in Tables,
         NEW st, st = x.tables[t], NEW spoilt, Good(spoilt, x.snap, t, st)
  PROVE  Lands(w, x.snap, t, st, w2)
<1>1. TableWritten(w, x.snap, t, st, wr, w2) /\ x.snap.commit = w.commit /\ w2.disk = w.disk
  BY DEF Journalled
<1>2. x.snap.disk = w.disk /\ Logged(w, x.snap, t, st)
  BY <1>1 DEF Linked
<1>3. (st.schemaDirty => st.dirty) /\ (~st.dirty => st.edits = NoEdits)
  BY DEF Good, Shape
<1>4. \A k \in Keys : st.edits[k] # NoEdit => st.dirty
  BY <1>3 DEF NoEdits
<1>5. PICK S, R, W, W2 : /\ S = Base(x.snap, t) /\ R = Rows(x.snap, t, st.edits)
                         /\ W = Base(w, t) /\ W2 = Base(w2, t)
  OBVIOUS
<1>6. ASSUME NEW k \in Keys, st.edits[k] # NoEdit \/ st.schemaDirty
      PROVE  x.snap.pending[t][k] = w.pending[t][k]
  BY <1>1, <1>2, <1>3, <1>4, <1>6 DEF Logged, TableWritten
<1>7. \A k \in Keys :
        /\ S[k] = IF x.snap.pending[t][k] = NoEdit THEN x.snap.disk[t].rows[k]
                                                  ELSE x.snap.pending[t][k]
        /\ W[k] = IF w.pending[t][k] = NoEdit THEN w.disk[t].rows[k] ELSE w.pending[t][k]
        /\ W2[k] = IF w2.pending[t][k] = NoEdit THEN w2.disk[t].rows[k] ELSE w2.pending[t][k]
        /\ R[k] = IF st.edits[k] # NoEdit THEN st.edits[k] ELSE S[k]
  <2>1. \A snap : \A k \in Keys : Base(snap, t)[k] =
          IF snap.pending[t][k] = NoEdit THEN snap.disk[t].rows[k] ELSE snap.pending[t][k]
    BY RowsParts
  <2>2. \A k \in Keys : Rows(x.snap, t, st.edits)[k] =
          IF st.edits[k] # NoEdit THEN st.edits[k] ELSE Base(x.snap, t)[k]
    BY RowsParts
  <2> QED
    BY <1>5, <2>1, <2>2
<1>8. \A k \in Keys : st.edits[k] # NoEdit \/ st.schemaDirty => S[k] = W[k]
  BY <1>2, <1>6, <1>7
<1>9. \A k \in Keys : W2[k] = IF st.edits[k] # NoEdit THEN st.edits[k] ELSE W[k]
  BY <1>1, <1>4, <1>7 DEF TableWritten
<1>10. /\ W2 = [k \in Keys |-> W2[k]] /\ W = [k \in Keys |-> W[k]] /\ R = [k \in Keys |-> R[k]]
  BY <1>5 DEF Base, Rows
<1>11. st.schemaDirty => W2 = R
  BY <1>7, <1>8, <1>9, <1>10
<1>12. ~st.dirty => W2 = W
  BY <1>4, <1>9, <1>10
<1>13. st.dirty /\ ~st.schemaDirty => st.schema = w.schema[t]
  BY <1>1, <1>2 DEF Logged, TableWritten
<1>14. \A i : Tree(x.snap, t, i) = Tree(w, t, i) /\ Tree(w2, t, i) = Tree(w, t, i)
  BY <1>1, <1>2 DEF Tree, Persisted
<1>15. w2.schema[t] = IF st.schemaDirty THEN st.schema ELSE w.schema[t]
  BY <1>1 DEF TableWritten
<1>16. \A k \in Keys : st.edits[k] # NoEdit =>
         st.dirty /\ S[k] = W[k] /\ W2[k] = R[k]
  BY <1>4, <1>7, <1>8, <1>9
<1>17. \A k \in Keys : st.edits[k] = NoEdit => W2[k] = W[k] /\ R[k] = S[k]
  BY <1>7, <1>9
<1> QED
  BY <1>1, <1>2, <1>3, <1>5, <1>11, <1>12, <1>13, <1>14, <1>15, <1>16, <1>17 DEF Lands

\* What a transaction's own edits of an index say: where they lead, or else where the
\* index of its snapshot did.
LEMMA NetKnown ==
  ASSUME NEW snap, NEW t, NEW st, Exact(snap, t, st), ~st.schemaDirty,
         NEW i \in DOMAIN st.idx, i \in Indexes(st.schema), NEW e, NEW k
  PROVE  Has(st.schema, i, Rows(snap, t, st.edits), k, e) <=>
           IF e \in DOMAIN Net(st.idx[i].local)
           THEN Net(st.idx[i].local)[e] = k /\ k # Deleted
           ELSE Has(st.schema, i, Base(snap, t), k, e)
<1>1. PICK sch, local, base, tree, S, R :
        /\ sch = st.schema /\ local = st.idx[i].local /\ base = st.idx[i].base
        /\ tree = Tree(snap, t, i) /\ S = Base(snap, t) /\ R = Rows(snap, t, st.edits)
  OBVIOUS
<1>2. ~Duplicate(sch, i, S) /\ ~Duplicate(sch, i, R)
  BY <1>1 DEF Exact, NoDuplicates
<1>3. IndexGood(snap, t, st, i)
  BY DEF Exact
<1>4. Applied(tree, base) = IndexOf(sch, i, S) /\ Applied(tree, With(base, local)) = IndexOf(sch, i, R)
  BY <1>1, <1>3 DEF IndexGood, Entries, View
<1>5. Maps(Applied(tree, base), e, k) <=> Has(sch, i, S, k, e)
  BY <1>2, <1>4, IndexMaps
<1>6. Maps(Applied(tree, With(base, local)), e, k) <=> Has(sch, i, R, k, e)
  BY <1>2, <1>4, IndexMaps
<1>7. Maps(Applied(tree, With(base, local)), e, k) <=>
        IF e \in DOMAIN Net(local) THEN Net(local)[e] = k /\ k # Deleted
                                   ELSE Maps(Applied(tree, base), e, k)
  BY FoundNet
<1> QED
  BY <1>1, <1>5, <1>6, <1>7

\* A key put into a unique index is claimed.
LEMMA PutIsClaimed ==
  ASSUME NEW t, NEW st, NEW i \in Indexes(st.schema) \cap Unique, i \in DOMAIN st.idx,
         NEW e \in DOMAIN Net(st.idx[i].local), Net(st.idx[i].local)[e] # Deleted
  PROVE  <<t, i, e>> \in uniqueClaims(t, st)
<1> DEFINE part(j) == {<<t, j, f>> : f \in {f \in DOMAIN With(Empty, st.idx[j].local) :
                                             With(Empty, st.idx[j].local)[f] # Deleted}}
<1>1. <<t, i, e>> \in part(i)
  BY DEF Net
<1>2. uniqueClaims(t, st) = UNION {part(j) : j \in Indexes(st.schema) \cap Unique \cap DOMAIN st.idx}
  BY DEF uniqueClaims
<1> HIDE DEF part
<1> QED
  BY <1>1, <1>2

\* A row a transaction edited, and its key in a unique index: the transaction claimed
\* it, or the row had it before.
LEMMA ClaimedOrKept ==
  ASSUME NEW spoilt, NEW snap, NEW t, NEW st, Good(spoilt, snap, t, st), ~st.schemaDirty,
         t \notin spoilt, ~Recoded(snap.disk, st.schema, t),
         NEW i \in Indexes(st.schema) \cap Unique, NEW k \in Keys, st.edits[k] # NoEdit,
         NEW e, Has(st.schema, i, Rows(snap, t, st.edits), k, e)
  PROVE  <<t, i, e>> \in uniqueClaims(t, st) \/ Has(st.schema, i, Base(snap, t), k, e)
<1>1. DOMAIN st.idx = Indexes(st.schema)
  BY DEF Good, Shape, NoEdits
<1>2. Exact(snap, t, st)
  BY DEF Good
<1>3. IF e \in DOMAIN Net(st.idx[i].local)
      THEN Net(st.idx[i].local)[e] = k /\ k # Deleted
      ELSE Has(st.schema, i, Base(snap, t), k, e)
  BY <1>1, <1>2, NetKnown
<1>4. CASE e \in DOMAIN Net(st.idx[i].local)
  <2>1. Net(st.idx[i].local)[e] # Deleted
    BY <1>3, <1>4
  <2> QED
    BY <1>1, <1>4, <2>1, PutIsClaimed
<1>5. CASE e \notin DOMAIN Net(st.idx[i].local)
  BY <1>3, <1>5
<1> QED
  BY <1>4, <1>5

\* A commit of one table, with what it was checked against.
Commits(w, snap, t, st, wr, w2) ==
  /\ Good(w.transient, snap, t, st) /\ Lands(w, snap, t, st, w2)
  /\ TableWritten(w, snap, t, st, wr, w2) /\ Logged(w, snap, t, st)
  /\ Sane(w, t) => NoDuplicates(w.schema[t], Base(w, t))
  /\ w.transient \subseteq w2.transient

\* The rows that have a key depend on their values alone.
LEMMA HasSame ==
  ASSUME NEW sch, NEW i, NEW R, NEW S, NEW k, R[k] = S[k], NEW e, Has(sch, i, R, k, e)
  PROVE  Has(sch, i, S, k, e)
BY DEF Has

\* Of two rows that have one unique key at the end of a commit, it did not edit just
\* one: other commits claimed what they put, and it would have been refused.
LEMMA NoSecondRow ==
  ASSUME NEW w, NEW snap, NEW t, NEW st, NEW wr, NEW w2, Commits(w, snap, t, st, wr, w2),
         st.dirty, ~st.schemaDirty, Sane(w, t), t \notin w.transient,
         ~Recoded(snap.disk, st.schema, t), st.schema = w.schema[t],
         NEW i \in Indexes(st.schema), NEW k \in Keys, NEW l \in Keys, NEW e,
         Has(st.schema, i, Base(w2, t), k, e), Has(st.schema, i, Base(w2, t), l, e),
         st.edits[k] # NoEdit, st.edits[l] = NoEdit
  PROVE  k = l
<1>1. PICK sch, S, R, W, W2 : /\ sch = st.schema /\ S = Base(snap, t) /\ W = Base(w, t)
                              /\ R = Rows(snap, t, st.edits) /\ W2 = Base(w2, t)
  OBVIOUS
<1>2. /\ S[k] = W[k] /\ W2[k] = R[k] /\ W2[l] = W[l] /\ R[l] = S[l]
  BY <1>1 DEF Commits, Lands
<1>3. Has(sch, i, R, k, e) /\ Has(sch, i, W, l, e)
  BY <1>1, <1>2, HasSame
<1>4. Exact(snap, t, st) /\ Good(w.transient, snap, t, st)
  BY DEF Commits, Good
<1>5. ~Duplicate(sch, i, R) /\ ~Duplicate(sch, i, W)
  BY <1>1, <1>4 DEF Exact, NoDuplicates, Commits
<1>6. R[k] = W[l] /\ (W[l] = Null \/ i \notin Unique => k = l)
  <2>1. e = encodeIndexKey(sch, i, k, R[k]) /\ e = encodeIndexKey(sch, i, l, W[l])
    BY <1>3 DEF Has
  <2>2. encodeIndexKey(sch, i, k, R[k]) = encodeIndexKey(sch, i, l, W[l]) =>
          R[k] = W[l] /\ (R[k] = Null \/ i \notin Unique => k = l)
    BY EncodeParts
  <2> QED
    BY <2>1, <2>2
<1>7. ASSUME i \in Unique PROVE k = l
  <2>1. <<t, i, e>> \in uniqueClaims(t, st) \/ Has(sch, i, S, k, e)
    BY <1>1, <1>3, <1>4, <1>7, ClaimedOrKept
  <2>2. CASE Has(sch, i, S, k, e)
    <3>1. Has(sch, i, W, k, e)
      BY <1>2, <2>2, HasSame
    <3> QED
      BY <1>3, <1>5, <3>1, DuplicateHas
  <2>3. CASE <<t, i, e>> \in uniqueClaims(t, st)
    <3>1. CASE W[l] = S[l]
      <4>1. Has(sch, i, R, l, e)
        BY <1>2, <1>3, <3>1, HasSame
      <4> QED
        BY <1>3, <1>5, <4>1, DuplicateHas
    <3>2. CASE W[l] = Null
      BY <1>6, <3>2
    <3>3. CASE W[l] # S[l] /\ W[l] # Null
      <4>1. W[l] # Absent /\ e = encodeIndexKey(w.schema[t], i, l, W[l])
        BY <1>1, <1>3 DEF Has
      <4>2. \A g \in Unseen(w, snap) : t \notin w.log[g].schema /\ <<t, i, e>> \notin w.log[g].claims
        BY <2>3 DEF Commits, TableWritten
      <4>3. Logged(w, snap, t, st) /\ i \in Indexes(w.schema[t]) \cap Unique
        BY <1>7 DEF Commits
      <4>4. \E g \in Unseen(w, snap) :
              <<t, i, encodeIndexKey(w.schema[t], i, l, Base(w, t)[l])>> \in w.log[g].claims
        BY <1>1, <3>3, <4>1, <4>2, <4>3 DEF Logged
      <4> QED
        BY <1>1, <4>1, <4>2, <4>4
    <3> QED
      BY <3>1, <3>2, <3>3
  <2> QED
    BY <2>1, <2>2, <2>3
<1> QED
  BY <1>6, <1>7

\* No commit leaves two rows with one unique key.
LEMMA CommitUnique ==
  ASSUME NEW w, NEW snap, NEW t, NEW st, NEW wr, NEW w2, Commits(w, snap, t, st, wr, w2),
         Sane(w2, t)
  PROVE  NoDuplicates(w2.schema[t], Base(w2, t))
<1>1. t \notin w.transient /\ ~Recoded(w2.disk, w2.schema[t], t)
  BY DEF Sane, Commits
<1>2. w2.disk = w.disk /\ snap.disk = w.disk
  BY DEF Commits, Lands
<1>3. CASE ~st.dirty
  <2>1. w2.schema[t] = w.schema[t] /\ Base(w2, t) = Base(w, t)
    BY <1>3 DEF Commits, Lands
  <2>2. Sane(w, t)
    BY <1>1, <1>2, <2>1 DEF Sane
  <2> QED
    BY <2>1, <2>2 DEF Commits
<1>4. CASE st.schemaDirty
  <2>1. w2.schema[t] = st.schema /\ Base(w2, t) = Rows(snap, t, st.edits)
    BY <1>4 DEF Commits, Lands
  <2>2. Exact(snap, t, st)
    BY <1>1, <1>2, <2>1 DEF Commits, Good
  <2> QED
    BY <2>1, <2>2 DEF Exact
<1>5. CASE st.dirty /\ ~st.schemaDirty
  <2>1. w2.schema[t] = st.schema /\ st.schema = w.schema[t]
    BY <1>5 DEF Commits, Lands
  <2>2. Sane(w, t) /\ ~Recoded(snap.disk, st.schema, t)
    BY <1>1, <1>2, <2>1 DEF Sane
  <2>3. PICK sch, W, R, W2 : /\ sch = st.schema /\ W = Base(w, t)
                             /\ R = Rows(snap, t, st.edits) /\ W2 = Base(w2, t)
    OBVIOUS
  <2>4. Exact(snap, t, st)
    BY <1>1, <2>2 DEF Commits, Good
  <2>5. ASSUME NEW i \in Indexes(sch) PROVE ~Duplicate(sch, i, W2)
    <3>1. ~Duplicate(sch, i, R) /\ ~Duplicate(sch, i, W)
      BY <2>1, <2>2, <2>3, <2>4 DEF Exact, NoDuplicates, Commits
    <3>2. ASSUME NEW k, NEW l, NEW e, Has(sch, i, W2, k, e), Has(sch, i, W2, l, e)
          PROVE  k = l
      <4>1. k \in Keys /\ l \in Keys
        BY <3>2 DEF Has
      <4>2. CASE st.edits[k] # NoEdit /\ st.edits[l] # NoEdit
        <5>1. W2[k] = R[k] /\ W2[l] = R[l]
          BY <2>3, <4>1, <4>2 DEF Commits, Lands
        <5>2. Has(sch, i, R, k, e) /\ Has(sch, i, R, l, e)
          BY <3>2, <5>1, HasSame
        <5> QED
          BY <3>1, <5>2, DuplicateHas
      <4>3. CASE st.edits[k] = NoEdit /\ st.edits[l] = NoEdit
        <5>1. W2[k] = W[k] /\ W2[l] = W[l]
          BY <2>3, <4>1, <4>3 DEF Commits, Lands
        <5>2. Has(sch, i, W, k, e) /\ Has(sch, i, W, l, e)
          BY <3>2, <5>1, HasSame
        <5> QED
          BY <3>1, <5>2, DuplicateHas
      <4>4. CASE st.edits[k] # NoEdit /\ st.edits[l] = NoEdit
        BY <1>1, <1>5, <2>1, <2>2, <2>3, <3>2, <4>1, <4>4, NoSecondRow
      <4>5. CASE st.edits[k] = NoEdit /\ st.edits[l] # NoEdit
        BY <1>1, <1>5, <2>1, <2>2, <2>3, <3>2, <4>1, <4>5, NoSecondRow
      <4> QED
        BY <4>2, <4>3, <4>4, <4>5
    <3> QED
      BY <3>2, DuplicateHas
  <2> QED
    BY <2>1, <2>3, <2>5 DEF NoDuplicates
<1> QED
  BY <1>3, <1>4, <1>5

\* A journal with one entry more.
Longer(w, wr, w2) ==
  /\ w.generation \in Nat /\ w2.generation = w.generation + 1
  /\ \A g \in 1..w.generation : w2.log[g] = w.log[g]
  /\ w2.log[w.generation + 1] = wr

\* The working state behind a commit.
LEMMA CommitWork ==
  ASSUME NEW w, WorkGood(w), NEW x, Linked(w, x), NEW wr, NEW w2, Journalled(w, x, wr, w2),
         \A t \in Tables : Good(w.transient, x.snap, t, x.tables[t])
  PROVE  /\ WorkGood(w2) /\ Longer(w, wr, w2)
         /\ \A t \in Tables : Commits(w, x.snap, t, x.tables[t], wr, w2)
<1>1. /\ w2.commit = w.commit /\ w2.generation = w.generation + 1 /\ w2.log = Append(w.log, wr)
      /\ x.snap.commit = w.commit /\ w2.disk = w.disk /\ w.transient \subseteq w2.transient
  BY DEF Journalled
<1>2. /\ w.commit \in Nat /\ w.generation \in Nat /\ IsSeq(w.log) /\ Len(w.log) = w.generation
  BY DEF WorkGood
<1>3. ASSUME NEW t \in Tables
      PROVE  Commits(w, x.snap, t, x.tables[t], wr, w2)
  <2>1. PICK st : st = x.tables[t]
    OBVIOUS
  <2>2. Lands(w, x.snap, t, st, w2)
    BY <2>1, CommitLands
  <2>3. TableWritten(w, x.snap, t, st, wr, w2)
    BY <2>1 DEF Journalled
  <2>4. Logged(w, x.snap, t, st)
    BY <1>1, <2>1 DEF Linked
  <2>5. Sane(w, t) => NoDuplicates(w.schema[t], Base(w, t))
    BY DEF WorkGood
  <2> QED
    BY <1>1, <2>1, <2>2, <2>3, <2>4, <2>5 DEF Commits
<1>4. /\ IsSeq(w2.log) /\ Len(w2.log) = w2.generation
      /\ \A g \in 1..w.generation : w2.log[g] = w.log[g]
      /\ w2.log[w.generation + 1] = wr
  BY <1>1, <1>2, AppendParts
<1>5. ASSUME NEW t \in Tables
      PROVE  /\ IsSchema(w2.schema[t]) /\ IsSeq(w2.schema[t].indexes)
             /\ w2.schema[t].collation \in Nat /\ w2.disk[t].schema.collation \in Nat
             /\ w2.disk[t].schema.collation <= w2.schema[t].collation
             /\ Sane(w2, t) => NoDuplicates(w2.schema[t], Base(w2, t))
  <2>1. PICK st : st = x.tables[t]
    OBVIOUS
  <2>2. Commits(w, x.snap, t, st, wr, w2)
    BY <1>3, <2>1
  <2>3. Sane(w2, t) => NoDuplicates(w2.schema[t], Base(w2, t))
    BY <2>2, CommitUnique
  <2>4. x.snap.disk = w2.disk /\ w2.schema[t] = IF st.schemaDirty THEN st.schema ELSE w.schema[t]
    BY <1>1, <2>2 DEF Commits, Lands
  <2>5. Shape(x.snap, t, st)
    BY <2>1 DEF Good
  <2>6. CASE st.schemaDirty
    BY <2>3, <2>4, <2>5, <2>6 DEF Shape
  <2>7. CASE ~st.schemaDirty
    BY <1>1, <2>3, <2>4, <2>7 DEF WorkGood
  <2> QED
    BY <2>6, <2>7
<1>6. WorkGood(w2)
  BY <1>1, <1>2, <1>4, <1>5 DEF WorkGood
<1>7. Longer(w, wr, w2)
  BY <1>1, <1>2, <1>4 DEF Longer
<1> QED
  BY <1>3, <1>6, <1>7

\* What changed since the snapshot of another transaction stays in the log, with what
\* the commit changed.
LEMMA LoggedMore ==
  ASSUME NEW w, NEW snap, NEW t, NEW st, NEW wr, NEW w2, Commits(w, snap, t, st, wr, w2),
         Longer(w, wr, w2), NEW old, old.generation \in Nat, old.generation <= w.generation,
         NEW ot, Logged(w, old, t, ot)
  PROVE  Logged(w2, old, t, ot)
<1>1. PICK g2 : g2 = w.generation + 1
  OBVIOUS
<1>2. /\ g2 \in Unseen(w2, old) /\ w2.log[g2] = wr
      /\ \A g \in Unseen(w, old) : g \in Unseen(w2, old) /\ w2.log[g] = w.log[g]
  BY <1>1 DEF Longer, Unseen
<1>3. /\ TableWritten(w, snap, t, st, wr, w2) /\ Lands(w, snap, t, st, w2)
      /\ Good(w.transient, snap, t, st)
  BY DEF Commits
<1>4. ASSUME NEW k \in Keys, old.pending[t][k] # w2.pending[t][k]
      PROVE  \E g \in Unseen(w2, old) : <<t, k>> \in w2.log[g].rows /\ t \in w2.log[g].tables
  <2>1. CASE st.dirty /\ st.edits[k] # NoEdit
    <3>1. <<t, k>> \in w2.log[g2].rows /\ t \in w2.log[g2].tables
      BY <1>2, <1>3, <2>1 DEF TableWritten
    <3> QED
      BY <1>2, <3>1
  <2>2. CASE ~(st.dirty /\ st.edits[k] # NoEdit)
    <3>1. old.pending[t][k] # w.pending[t][k]
      BY <1>3, <1>4, <2>2 DEF TableWritten
    <3>2. PICK g \in Unseen(w, old) : <<t, k>> \in w.log[g].rows /\ t \in w.log[g].tables
      BY <3>1 DEF Logged
    <3> QED
      BY <1>2, <3>2
  <2> QED
    BY <2>1, <2>2
<1>5. st.schemaDirty => st.dirty /\ t \in w2.log[g2].schema
  BY <1>2, <1>3 DEF TableWritten, Lands
<1>6. ASSUME ~ot.schemaDirty, ot.schema # w2.schema[t]
      PROVE  \E g \in Unseen(w2, old) : t \in w2.log[g].schema
  <2>1. CASE st.schemaDirty
    BY <1>2, <1>5, <2>1
  <2>2. CASE ~st.schemaDirty
    <3>1. ot.schema # w.schema[t]
      BY <1>3, <1>6, <2>2 DEF TableWritten
    <3>2. PICK g \in Unseen(w, old) : t \in w.log[g].schema
      BY <1>6, <3>1 DEF Logged
    <3> QED
      BY <1>2, <3>2
  <2> QED
    BY <2>1, <2>2
<1>7. ASSUME Sane(w2, t), \A g \in Unseen(w2, old) : t \notin w2.log[g].schema,
             NEW i \in Indexes(w2.schema[t]) \cap Unique, NEW k \in Keys,
             Base(w2, t)[k] \notin {Base(old, t)[k], Absent, Null}
      PROVE  \E g \in Unseen(w2, old) :
               <<t, i, encodeIndexKey(w2.schema[t], i, k, Base(w2, t)[k])>> \in w2.log[g].claims
  <2>1. PICK e : e = encodeIndexKey(w2.schema[t], i, k, Base(w2, t)[k])
    OBVIOUS
  <2>2. ~st.schemaDirty
    BY <1>2, <1>5, <1>7
  <2>3. w2.schema[t] = w.schema[t] /\ w2.disk = w.disk /\ snap.disk = w.disk
    BY <1>3, <2>2 DEF Lands
  <2>4. t \notin w.transient /\ Sane(w, t)
    BY <1>7, <2>3 DEF Sane, Commits
  <2>5. ASSUME Base(w2, t)[k] = Base(w, t)[k]
        PROVE  \E g \in Unseen(w2, old) : <<t, i, e>> \in w2.log[g].claims
    <3>1. \A g \in Unseen(w, old) : t \notin w.log[g].schema
      BY <1>2, <1>7
    <3>2. Base(w, t)[k] \notin {Base(old, t)[k], Absent, Null} /\ i \in Indexes(w.schema[t]) \cap Unique
      BY <1>7, <2>3, <2>5
    <3>3. PICK g \in Unseen(w, old) :
            <<t, i, encodeIndexKey(w.schema[t], i, k, Base(w, t)[k])>> \in w.log[g].claims
      BY <2>4, <3>1, <3>2 DEF Logged
    <3>4. <<t, i, e>> \in w2.log[g].claims /\ g \in Unseen(w2, old)
      BY <1>2, <2>1, <2>3, <2>5, <3>3
    <3> QED
      BY <3>4
  <2>6. CASE st.edits[k] = NoEdit
    BY <1>3, <2>1, <2>5, <2>6 DEF Lands
  <2>7. CASE st.edits[k] # NoEdit
    <3>1. /\ st.dirty /\ Base(snap, t)[k] = Base(w, t)[k]
          /\ Base(w2, t)[k] = Rows(snap, t, st.edits)[k] /\ st.schema = w.schema[t]
      BY <1>3, <2>2, <2>7 DEF Lands
    <3>2. Has(st.schema, i, Rows(snap, t, st.edits), k, e)
      BY <1>7, <2>1, <2>3, <3>1 DEF Has
    <3>3. ~Recoded(snap.disk, st.schema, t) /\ i \in Indexes(st.schema) \cap Unique
      BY <1>7, <2>3, <2>4, <3>1 DEF Sane
    <3>4. <<t, i, e>> \in uniqueClaims(t, st) \/ Has(st.schema, i, Base(snap, t), k, e)
      BY <1>3, <2>2, <2>4, <2>7, <3>2, <3>3, ClaimedOrKept
    <3>5. CASE <<t, i, e>> \in uniqueClaims(t, st)
      <4>1. <<t, i, e>> \in w2.log[g2].claims
        BY <1>2, <1>3, <3>1, <3>5 DEF TableWritten
      <4> QED
        BY <1>2, <2>1, <4>1
    <3>6. CASE Has(st.schema, i, Base(snap, t), k, e)
      <4>1. e = encodeIndexKey(st.schema, i, k, Base(snap, t)[k])
        BY <3>6 DEF Has
      <4>2. e = encodeIndexKey(st.schema, i, k, Base(w2, t)[k])
        BY <2>1, <2>3, <3>1
      <4>v. \A v : encodeIndexKey(st.schema, i, k, v)[2] = v
        BY EncodeParts
      <4>3. Base(snap, t)[k] = Base(w2, t)[k]
        BY <4>1, <4>2, <4>v
      <4> QED
        BY <2>1, <2>5, <3>1, <4>3
    <3> QED
      BY <3>4, <3>5, <3>6
  <2> QED
    BY <2>6, <2>7
<1> QED
  BY <1>4, <1>6, <1>7 DEF Logged

\* A table and a statement stay good when other tables are spoilt.
LEMMA TxGoodMore ==
  ASSUME NEW spoilt, NEW more, spoilt \subseteq more, NEW x, TxGood(spoilt, x)
  PROVE  TxGood(more, x)
<1>1. \A t \in Tables : Failing(x, t) \/ Good(more, x.snap, t, x.tables[t])
  BY GoodMore DEF TxGood
<1>2. x.stmt # NoStmt => StmtGood(more, x.snap, x.tables[x.stmt.table], x.stmt)
  BY GoodMore DEF TxGood, StmtGood
<1> QED
  BY <1>1, <1>2 DEF TxGood

\* The other transactions behind a commit.
LEMMA CommitLinked ==
  ASSUME NEW w, WorkGood(w), NEW x, Linked(w, x), NEW wr, NEW w2, Journalled(w, x, wr, w2),
         \A t \in Tables : Good(w.transient, x.snap, t, x.tables[t]),
         NEW y, Linked(w, y), TxGood(w.transient, y)
  PROVE  Linked(w2, y) /\ TxGood(w2.transient, y)
<1>1. /\ WorkGood(w2) /\ Longer(w, wr, w2)
      /\ \A t \in Tables : Commits(w, x.snap, t, x.tables[t], wr, w2)
  BY CommitWork
<1>2. /\ w2.commit = w.commit /\ w2.generation = w.generation + 1 /\ w2.disk = w.disk
      /\ w.transient \subseteq w2.transient
  BY DEF Journalled
<1>3. /\ y.snap.commit \in Nat /\ y.snap.generation \in Nat
      /\ y.snap.commit <= w.commit /\ y.snap.generation <= w.generation
      /\ w.generation \in Nat
  BY DEF Linked, WorkGood
<1>4. ASSUME y.snap.commit = w.commit, NEW t \in Tables
      PROVE  Logged(w2, y.snap, t, y.tables[t])
  BY <1>1, <1>3, <1>4, LoggedMore DEF Linked
<1>5. Linked(w2, y)
  BY <1>2, <1>3, <1>4 DEF Linked
<1>6. TxGood(w2.transient, y)
  BY <1>2, TxGoodMore
<1> QED
  BY <1>5, <1>6

\* An edit of the net effect of some index edits is the last of its key.
LEMMA NetNewest ==
  ASSUME NEW local, Tidy(local), NEW e \in DOMAIN Net(local)
  PROVE  \E n \in DOMAIN local : Newest(local, n, e) /\ Net(local)[e] = local[n].value
<1>1. e \in {local[n].key : n \in DOMAIN local} /\ Net(local)[e] = local[Latest(local, e)].value
  BY NetParts
<1>2. PICK m \in DOMAIN local : local[m].key = e
  BY <1>1
<1>3. PICK n \in DOMAIN local : Newest(local, n, e)
  BY <1>2 DEF Tidy
<1>4. IsSeq(local)
  BY DEF Tidy
<1>5. Latest(local, e) = n
  BY <1>3, <1>4, NewestIsLatest
<1> QED
  BY <1>1, <1>3, <1>5

\* The transaction's edits to one index, put on the view of an index of rows others
\* committed meanwhile, give the index of the rows behind the commit, unless the
\* transaction released a unique value it had taken itself.
LEMMA RebasedIndex ==
  ASSUME NEW w, NEW snap, NEW t, NEW st, NEW wr, NEW w2, Commits(w, snap, t, st, wr, w2),
         st.dirty, ~st.schemaDirty, Sane(w2, t), ~Releases(st),
         NEW i \in Indexes(st.schema), i \in DOMAIN st.idx, NEW view,
         Applied(Tree(w, t, i), view) = IndexOf(w.schema[t], i, Base(w, t))
  PROVE  Applied(Tree(w2, t, i), With(view, st.idx[i].local))
           = IndexOf(w2.schema[t], i, Base(w2, t))
<1>1. PICK sch, S, R, W, W2 : /\ sch = st.schema /\ S = Base(snap, t) /\ W = Base(w, t)
                              /\ R = Rows(snap, t, st.edits) /\ W2 = Base(w2, t)
  OBVIOUS
<1>2. PICK local, tree, net : /\ local = st.idx[i].local /\ tree = Tree(w, t, i) /\ net = Net(local)
  OBVIOUS
<1>3. /\ w2.schema[t] = sch /\ w.schema[t] = sch /\ w2.disk = w.disk /\ snap.disk = w.disk
      /\ Tree(w2, t, i) = tree /\ Tree(snap, t, i) = tree
  BY <1>1, <1>2 DEF Commits, Lands
<1>4. t \notin w.transient /\ Sane(w, t) /\ ~Recoded(snap.disk, sch, t)
  BY <1>3 DEF Sane, Commits
<1>5. Good(w.transient, snap, t, st) /\ Exact(snap, t, st) /\ Shape(snap, t, st)
  BY <1>1, <1>4 DEF Commits, Good
<1>6. ~Duplicate(sch, i, W) /\ ~Duplicate(sch, i, W2)
  <2>1. NoDuplicates(w.schema[t], W) /\ NoDuplicates(w2.schema[t], W2)
    BY <1>1, <1>4, CommitUnique DEF Commits
  <2> QED
    BY <1>1, <1>3, <2>1 DEF NoDuplicates
<1>7. \A e, k : Has(sch, i, R, k, e) <=>
        IF e \in DOMAIN net THEN net[e] = k /\ k # Deleted ELSE Has(sch, i, S, k, e)
  BY <1>1, <1>2, <1>5, NetKnown
<1>8. /\ \A k \in Keys : st.edits[k] # NoEdit => S[k] = W[k] /\ W2[k] = R[k]
      /\ \A k \in Keys : st.edits[k] = NoEdit => W2[k] = W[k] /\ R[k] = S[k]
  BY <1>1 DEF Commits, Lands
<1>9. Tidy(local) /\ Own(sch, i, st.edits, local) /\ Backed(sch, i, S, local)
  BY <1>1, <1>2, <1>5 DEF Shape, Exact, IndexGood
<1>10. PICK f : f = Applied(tree, With(view, local))
  OBVIOUS
<1>11. f = [e \in DOMAIN f |-> f[e]]
  BY <1>10, AppliedMaps
<1>12. \A e, k : Maps(f, e, k) <=>
         IF e \in DOMAIN net THEN net[e] = k /\ k # Deleted ELSE Has(sch, i, W, k, e)
  <2> TAKE e, k
  <2>1. Maps(f, e, k) <=> IF e \in DOMAIN Net(local) THEN Net(local)[e] = k /\ k # Deleted
                                                     ELSE Maps(Applied(tree, view), e, k)
    BY <1>10, FoundNet
  <2>2. Applied(tree, view) = IndexOf(sch, i, W)
    BY <1>1, <1>2, <1>3
  <2>3. Maps(Applied(tree, view), e, k) <=> Has(sch, i, W, k, e)
    BY <1>6, <2>2, IndexMaps
  <2> QED
    BY <1>2, <2>1, <2>3
<1>h. /\ \A k, e : k \in Keys /\ st.edits[k] # NoEdit =>
           (Has(sch, i, S, k, e) <=> Has(sch, i, W, k, e)) /\ (Has(sch, i, W2, k, e) <=> Has(sch, i, R, k, e))
      /\ \A k, e : k \in Keys /\ st.edits[k] = NoEdit =>
           (Has(sch, i, W2, k, e) <=> Has(sch, i, W, k, e)) /\ (Has(sch, i, R, k, e) <=> Has(sch, i, S, k, e))
      /\ \A k, e, rows : Has(sch, i, rows, k, e) => k \in Keys
  BY <1>8 DEF Has
\* A key the transaction did not edit.
<1>13. ASSUME NEW e, NEW k, e \notin DOMAIN net
       PROVE  Has(sch, i, W, k, e) <=> Has(sch, i, W2, k, e)
  BY <1>7, <1>13, <1>h
\* A key the transaction put.
<1>14. ASSUME NEW e \in DOMAIN net, NEW k, net[e] # Deleted
       PROVE  net[e] = k <=> Has(sch, i, W2, k, e)
  <2>1. PICK n \in DOMAIN local : Newest(local, n, e) /\ net[e] = local[n].value
    BY <1>2, <1>9, <1>14, NetNewest
  <2>2. PICK l \in Keys : st.edits[l] # NoEdit /\ local[n].value \in {l, Deleted}
    BY <1>9, <2>1 DEF Own
  <2>3. net[e] = l /\ l # Deleted
    BY <1>14, <2>1, <2>2
  <2>4. Has(sch, i, R, l, e)
    BY <1>7, <2>3
  <2>5. Has(sch, i, W2, l, e)
    BY <1>h, <2>2, <2>4
  <2>6. \A k1, l1, e1 : Has(sch, i, W2, k1, e1) /\ Has(sch, i, W2, l1, e1) => k1 = l1
    BY <1>6, DuplicateHas
  <2> QED
    BY <2>3, <2>5, <2>6
\* A key the transaction deleted.
<1>15. ASSUME NEW e \in DOMAIN net, NEW k, net[e] = Deleted, Has(sch, i, W2, k, e)
       PROVE  FALSE
  <2>1. \A l : ~Has(sch, i, R, l, e)
    BY <1>7, <1>15
  <2>2. k \in Keys /\ st.edits[k] = NoEdit /\ Has(sch, i, W, k, e)
    BY <1>15, <1>h, <2>1
  <2>3. PICK n \in DOMAIN local : Newest(local, n, e) /\ net[e] = local[n].value
    BY <1>2, <1>9, <1>15, NetNewest
  <2>4. local[n].value = Deleted /\ local[n].key = e
    BY <1>15, <2>3 DEF Newest
  <2>5. \/ \E m \in DOMAIN local : m < n /\ local[m].key = e /\ local[m].value # Deleted
        \/ \E l \in Keys : Has(sch, i, S, l, e)
    BY <1>9, <2>3, <2>4 DEF Backed
  <2>6. CASE \E m \in DOMAIN local : m < n /\ local[m].key = e /\ local[m].value # Deleted
    <3>1. i \notin Unique
      BY <1>2, <2>3, <2>4, <2>6 DEF Releases
    <3>2. PICK l \in Keys : st.edits[l] # NoEdit /\ e = encodeIndexKey(sch, i, l, e[2])
      BY <1>9, <2>3, <2>4 DEF Own
    <3>3. e = encodeIndexKey(sch, i, k, W[k])
      BY <2>2 DEF Has
    <3>4. encodeIndexKey(sch, i, l, e[2]) = encodeIndexKey(sch, i, k, W[k]) => l = k
      BY <3>1, EncodeParts
    <3> QED
      BY <2>2, <3>2, <3>3, <3>4
  <2>7. CASE \E l \in Keys : Has(sch, i, S, l, e)
    <3>1. PICK l \in Keys : Has(sch, i, S, l, e)
      BY <2>7
    <3>2. st.edits[l] # NoEdit
      BY <1>h, <2>1, <3>1
    <3>3. Has(sch, i, W, l, e)
      BY <1>h, <3>1, <3>2
    <3>4. k = l
      BY <1>6, <2>2, <3>3, DuplicateHas
    <3> QED
      BY <2>2, <3>2, <3>4
  <2> QED
    BY <2>5, <2>6, <2>7
<1>16. \A e, k : Maps(f, e, k) <=> Has(sch, i, W2, k, e)
  <2> TAKE e, k
  <2>1. CASE e \notin DOMAIN net
    BY <1>12, <1>13, <2>1
  <2>2. CASE e \in DOMAIN net /\ net[e] # Deleted
    BY <1>12, <1>14, <2>2
  <2>3. CASE e \in DOMAIN net /\ net[e] = Deleted
    BY <1>12, <1>15, <2>3
  <2> QED
    BY <2>1, <2>2, <2>3
<1>17. f = IndexOf(sch, i, W2)
  BY <1>6, <1>11, <1>16, IsIndex
<1> QED
  BY <1>1, <1>2, <1>3, <1>10, <1>17

\* What storeIndexEdits keeps of a table is right for the rows behind the commit.
LEMMA EntryGood ==
  ASSUME NEW w, WorkGood(w), NEW x, Linked(w, x), NEW wr, NEW w2, Journalled(w, x, wr, w2),
         \A t \in Tables : Good(w.transient, x.snap, t, x.tables[t]),
         NEW t \in Tables, NEW rebased \in BOOLEAN, rebased <=> x.snap.generation # w.generation,
         NEW carried, carried # Empty => ViewsGood(w, t, carried),
         NEW entry, entry = CacheEntry(x.tables[t], rebased, carried), entry # Empty
  PROVE  ViewsGood(w2, t, entry)
<1>1. PICK st : st = x.tables[t]
  OBVIOUS
<1>2. Commits(w, x.snap, t, st, wr, w2)
  BY <1>1, CommitWork
<1>3. ~st.schemaDirty
  BY <1>1 DEF CacheEntry
<1>4. /\ w2.schema[t] = w.schema[t] /\ w2.disk = w.disk /\ x.snap.disk = w.disk
      /\ w.transient \subseteq w2.transient
      /\ \A i : Tree(w2, t, i) = Tree(w, t, i)
  BY <1>2, <1>3 DEF Commits, Lands
<1>5. Good(w.transient, x.snap, t, st)
  BY <1>1
<1>6. Sane(w2, t) => Sane(w, t)
  BY <1>4 DEF Sane
\* A table the transaction did not write.
<1>7. CASE entry = carried /\ ~st.dirty
  <2>1. ViewsGood(w, t, carried)
    BY <1>7
  <2>2. Base(w2, t) = Base(w, t)
    BY <1>2, <1>7 DEF Commits, Lands
  <2> QED
    BY <1>4, <1>6, <1>7, <2>1, <2>2 DEF ViewsGood
\* A transaction on the working state keeps its own views.
<1>8. CASE ~rebased /\ st.idx # Empty
  <2>1. entry = indexViews(st.idx)
    BY <1>1, <1>3, <1>8 DEF CacheEntry
  <2>2. x.snap.generation = w.generation /\ x.snap.commit = w.commit
    BY <1>8 DEF Journalled
  <2>3. st.schema = w.schema[t] /\ Base(x.snap, t) = Base(w, t)
    BY <1>1, <1>3, <2>2, SameWork
  <2>4. Base(w2, t) = Rows(x.snap, t, st.edits)
    <3>1. \A k \in Keys : Base(w2, t)[k] = Rows(x.snap, t, st.edits)[k]
      BY <1>2, <2>3 DEF Commits, Lands
    <3>2. /\ Base(w2, t) = [k \in Keys |-> Base(w2, t)[k]]
          /\ Rows(x.snap, t, st.edits) = [k \in Keys |-> Rows(x.snap, t, st.edits)[k]]
      BY DEF Base, Rows
    <3> QED
      BY <3>1, <3>2
  <2>5. w2.schema[t] = st.schema /\ w2.disk = x.snap.disk
    BY <1>4, <2>3
  <2> QED
    BY <1>3, <1>4, <1>5, <1>8, <2>1, <2>4, <2>5, OwnViews
\* A rebased one puts its edits on the views there are.
<1>9. CASE rebased /\ st.dirty
  <2>1. entry = rebaseIndexViews(carried, st.idx)
    BY <1>1, <1>3, <1>9 DEF CacheEntry
  <2>2. /\ DOMAIN carried = DOMAIN st.idx
        /\ entry = [i \in DOMAIN st.idx |-> With(carried[i], st.idx[i].local)]
    BY <2>1 DEF rebaseIndexViews
  <2>3. carried # Empty
    <3>1. ASSUME carried = Empty PROVE FALSE
      <4>1. DOMAIN st.idx = {}
        BY <2>2, <3>1 DEF Empty
      <4>2. entry = [i \in {} |-> With(carried[i], st.idx[i].local)]
        BY <2>2, <4>1
      <4> QED
        BY <4>2 DEF Empty
    <3> QED
      BY <3>1
  <2>4. ViewsGood(w, t, carried)
    BY <2>3
  <2>5. st.schema = w.schema[t]
    BY <1>2, <1>3, <1>9 DEF Commits, Lands
  <2>6. DOMAIN st.idx = Indexes(w2.schema[t]) /\ DOMAIN entry = DOMAIN st.idx
    BY <1>4, <2>2, <2>4 DEF ViewsGood
  <2>7. ASSUME Sane(w2, t), NEW i \in Indexes(w2.schema[t])
        PROVE  Applied(Tree(w2, t, i), entry[i]) = IndexOf(w2.schema[t], i, Base(w2, t))
    <3>1. ~Releases(st)
      BY <1>1, <1>9, <2>7 DEF Sane, Journalled
    <3>2. PICK view : view = carried[i]
      OBVIOUS
    <3>3. Applied(Tree(w, t, i), view) = IndexOf(w.schema[t], i, Base(w, t))
      BY <1>4, <1>6, <2>4, <2>7, <3>2 DEF ViewsGood
    <3>4. i \in Indexes(st.schema) /\ i \in DOMAIN st.idx
      BY <1>4, <2>5, <2>6, <2>7
    <3>5. Applied(Tree(w2, t, i), With(view, st.idx[i].local)) = IndexOf(w2.schema[t], i, Base(w2, t))
      BY <1>2, <1>3, <1>9, <2>7, <3>1, <3>3, <3>4, RebasedIndex
    <3> QED
      BY <2>2, <3>2, <3>4, <3>5
  <2> QED
    BY <2>6, <2>7 DEF ViewsGood
<1>10. \/ entry = carried /\ ~st.dirty
       \/ ~rebased /\ st.idx # Empty
       \/ rebased /\ st.dirty
  BY <1>1, <1>3 DEF CacheEntry
<1> QED
  BY <1>7, <1>8, <1>9, <1>10

\* The cache behind a commit.
LEMMA StoreGood ==
  ASSUME WorkGood(Work), CacheGood(Work, cache), NEW s \in Sessions, NEW x, x = session[s],
         Linked(Work, x), \A t \in Tables : Good(transient, x.snap, t, x.tables[t]),
         NEW wr, NEW w2, Journalled(Work, x, wr, w2)
  PROVE  CacheGood(w2, cache) /\ CacheGood(w2, storeIndexEdits(s))
<1>1. PICK w, old, c : w = Work /\ old = cache /\ c = storeIndexEdits(s)
  OBVIOUS
<1>2. /\ w.commit = commit /\ w.generation = generation /\ w.transient = transient
  BY <1>1, WorkParts
<1>3. /\ w2.commit = w.commit /\ w2.generation = w.generation + 1
      /\ w.generation \in Nat /\ w.commit \in Nat
  BY <1>1 DEF Journalled, WorkGood
<1>4. CacheGood(w2, old)
  <2>1. old # Nil => /\ old.commit \in Nat /\ old.generation \in Nat
                     /\ old.commit <= w.commit /\ old.generation <= w.generation
    BY <1>1 DEF CacheGood
  <2>2. old # Nil => old.generation # w2.generation /\ old.generation <= w2.generation
    BY <1>3, <2>1
  <2>3. ~Hit(w2, old)
    BY <2>2 DEF Hit
  <2> QED
    BY <1>3, <2>1, <2>2, <2>3 DEF CacheGood
<1>5. PICK rebased \in BOOLEAN : rebased <=> x.snap.generation # generation
  OBVIOUS
<1>6. rebased = (session[s].snap.generation # generation)
  BY <1>5
<1> DEFINE carried(t) == IF CacheHit THEN CachedViews(t) ELSE Empty
           entry(t) == CacheEntry(x.tables[t], rebased, carried(t))
           views == [t \in {t \in Tables : entry(t) # Empty} |-> entry(t)]
<1>7. c = IF rebased /\ ~CacheHit THEN cache
          ELSE [commit |-> commit, generation |-> generation + 1, views |-> views]
  BY <1>1, <1>6 DEF storeIndexEdits, Table
<1>8. ASSUME NEW t \in Tables, entry(t) # Empty
      PROVE  ViewsGood(w2, t, entry(t))
  <2>1. PICK car, ent : car = carried(t) /\ ent = entry(t)
    OBVIOUS
  <2>2. car # Empty => ViewsGood(w, t, car)
    <3>1. ASSUME car # Empty PROVE ViewsGood(w, t, car)
      <4>1. CacheHit /\ t \in DOMAIN cache.views /\ car = cache.views[t]
        BY <2>1, <3>1 DEF CachedViews
      <4>2. Hit(w, cache)
        BY <1>2, <4>1 DEF Hit, CacheHit
      <4> QED
        BY <1>1, <4>1, <4>2 DEF CacheGood
    <3> QED
      BY <3>1
  <2>3. ent = CacheEntry(x.tables[t], rebased, car) /\ ent # Empty
    BY <1>8, <2>1
  <2> HIDE DEF entry, carried
  <2>4. \A r \in Tables : Good(w.transient, x.snap, r, x.tables[r])
    BY <1>2
  <2>5. WorkGood(w) /\ Linked(w, x) /\ Journalled(w, x, wr, w2) /\ (rebased <=> x.snap.generation # w.generation)
    BY <1>1, <1>2, <1>5
  <2>6. ViewsGood(w2, t, ent)
    BY <2>2, <2>3, <2>4, <2>5, EntryGood
  <2> QED
    BY <2>1, <2>6
<1>9. CacheGood(w2, c)
  <2>1. CASE rebased /\ ~CacheHit
    BY <1>1, <1>4, <1>7, <2>1
  <2>2. CASE ~(rebased /\ ~CacheHit)
    <3>1. /\ DOMAIN views = {t \in Tables : entry(t) # Empty}
          /\ \A t \in DOMAIN views : views[t] = entry(t)
      OBVIOUS
    <3> HIDE DEF views, entry
    <3>2. c.commit = commit /\ c.generation = generation + 1 /\ c.views = views
      BY <1>7, <2>2
    <3>3. \A t \in Tables \cap DOMAIN c.views : ViewsGood(w2, t, c.views[t])
      BY <1>8, <3>1, <3>2
    <3>4. /\ c.commit \in Nat /\ c.generation \in Nat
          /\ c.commit <= w2.commit /\ c.generation <= w2.generation
      BY <1>2, <1>3, <3>2
    <3> QED
      BY <3>3, <3>4 DEF CacheGood
  <2> QED
    BY <2>1, <2>2
<1> QED
  BY <1>1, <1>4, <1>9

-----------------------------------------------------------------------------
(* The end of a transaction, and checkpoints.                               *)

\* The other sessions behind the end of one, of which the working state may change.
LEMMA EndStep ==
  ASSUME SessionsSound, SessionsGood, NEW s \in Sessions, session' = [session EXCEPT ![s] = Nil],
         \A y : TxGood(transient, y) /\ Linked(Work, y) =>
                  TxGood(transient', y) /\ Linked(Work', y)
  PROVE  SessionsGood'
<1>1. session' = [r \in Sessions |-> IF r = s THEN Nil ELSE session[r]]
  BY DEF SessionsSound
<1>2. ASSUME NEW r \in Sessions, session'[r] # Nil
      PROVE  TxGood(transient', session'[r]) /\ Linked(Work', session'[r])
  <2>1. session'[r] = session[r] /\ session[r] # Nil
    BY <1>1, <1>2
  <2>2. TxGood(transient, session[r]) /\ Linked(Work, session[r])
    BY <2>1 DEF SessionsGood
  <2> QED
    BY <2>1, <2>2
<1> QED
  BY <1>2 DEF SessionsGood

\* A commit leaves rows without duplicates, a cache that is right for them, and every
\* other transaction with all it has not seen in the log.
LEMMA CommitGood ==
  ASSUME SessionsSound, SessionsGood, WorkGood(Work), CacheGood(Work, cache),
         NEW s \in Sessions, NEW stored, CommitTypedEdits(s, stored)
  PROVE  SessionsGood' /\ WorkGood(Work)' /\ CacheGood(Work, cache)'
<1>1. PICK x, w, w2, wr : x = session[s] /\ w = Work /\ w2 = Work' /\ wr = Written(s)
  OBVIOUS
<1>2. w.transient = transient /\ w2.transient = transient'
  BY <1>1, WorkParts DEF Work
<1>3. Settled(x)
  BY <1>1, IdleSettled DEF CommitTypedEdits, Idle
<1>4. Linked(w, x) /\ \A t \in Tables : Good(w.transient, x.snap, t, x.tables[t])
  BY <1>1, <1>2, <1>3 DEF Settled
<1>5. Journalled(w, x, wr, w2)
  BY <1>1, CommitForm
<1>6. WorkGood(w) /\ CacheGood(w, cache)
  BY <1>1
<1>7. WorkGood(w2)
  BY <1>4, <1>5, <1>6, CommitWork
<1>8. CacheGood(w2, cache) /\ CacheGood(w2, storeIndexEdits(s))
  <2>1. Linked(Work, x) /\ Journalled(Work, x, wr, w2)
    BY <1>1, <1>4, <1>5
  <2>2. \A t \in Tables : Good(transient, x.snap, t, x.tables[t])
    BY <1>2, <1>4
  <2> QED
    BY <1>1, <2>1, <2>2, StoreGood
<1>9. cache' = cache \/ cache' = storeIndexEdits(s)
  BY DEF CommitTypedEdits
<1>10. session' = [session EXCEPT ![s] = Nil]
  BY DEF CommitTypedEdits
<1>11. ASSUME NEW y, TxGood(transient, y), Linked(Work, y)
       PROVE  TxGood(transient', y) /\ Linked(Work', y)
  <2>1. TxGood(w.transient, y) /\ Linked(w, y)
    BY <1>1, <1>2, <1>11
  <2>2. Linked(w2, y) /\ TxGood(w2.transient, y)
    BY <1>4, <1>5, <1>6, <2>1, CommitLinked
  <2> QED
    BY <1>1, <1>2, <2>2
<1>12. SessionsGood'
  BY <1>10, <1>11, EndStep
<1>13. CacheGood(w2, cache')
  BY <1>8, <1>9
<1> QED
  BY <1>1, <1>7, <1>12, <1>13

\* A transaction without edits leaves the views it derived in the cache.
LEMMA EndCleanGood ==
  ASSUME SessionsSound, SessionsGood, WorkGood(Work), CacheGood(Work, cache),
         NEW s \in Sessions, EndClean(s)
  PROVE  SessionsGood' /\ WorkGood(Work)' /\ CacheGood(Work, cache)'
<1>1. Work' = Work /\ transient' = transient
  BY DEF EndClean, Work
<1>2. session' = [session EXCEPT ![s] = Nil] /\ cache' = rememberIndexEdits(s)
  BY DEF EndClean
<1>3. CacheGood(Work, rememberIndexEdits(s))
  BY RememberGood DEF EndClean
<1>4. SessionsGood'
  BY <1>1, <1>2, EndStep
<1> QED
  BY <1>1, <1>2, <1>3, <1>4

LEMMA EndWithoutGood ==
  ASSUME SessionsSound, SessionsGood, NEW s \in Sessions, EndWithoutCommit(s)
  PROVE  SessionsGood' /\ Quiet
<1>1. Quiet /\ session' = [session EXCEPT ![s] = Nil]
  BY DEF EndWithoutCommit, Quiet
<1> QED
  BY <1>1, GoodStep

\* The rows of the working state are the pending edits over those on disk.
LEMMA BasePatched ==
  ASSUME NEW t
  PROVE  Base(Work, t) = Patched(disk[t].rows, pending[t])
<1>1. PICK w : w = Work /\ w.disk = disk /\ w.pending = pending
  BY WorkParts
<1>2. Base(w, t) = Patched(disk[t].rows, pending[t])
  BY <1>1 DEF Base, Rows, Through, NoEdits, Patched
<1> QED
  BY <1>1, <1>2

\* A checkpoint has the rows and the schemas of the working state, and makes every
\* snapshot and the cache those of an earlier data commit.
LEMMA CheckpointGood ==
  ASSUME SessionsSound, SessionsGood, WorkGood(Work), CacheGood(Work, cache), Checkpoint
  PROVE  SessionsGood' /\ WorkGood(Work)' /\ CacheGood(Work, cache)'
<1>1. PICK w, w2 : w = Work /\ w2 = Work'
  OBVIOUS
<1>2. /\ w.commit = commit /\ w.generation = generation /\ w.disk = disk /\ w.log = log
      /\ w.pending = pending /\ w.schema = schema /\ w.transient = transient
  BY <1>1, WorkParts
<1>3. /\ w2.commit = commit + 1 /\ w2.generation = generation /\ w2.log = log
      /\ w2.disk = [t \in Tables |-> Checkpointed(t)]
      /\ w2.pending = [t \in Tables |-> NoEdits]
      /\ w2.schema = schema /\ w2.transient = transient
  BY <1>1 DEF Work, Checkpoint
<1>4. commit \in Nat /\ generation \in Nat /\ IsSeq(log) /\ Len(log) = generation
  BY <1>1, <1>2 DEF WorkGood
<1>5. transient' = transient /\ cache' = cache /\ session' = session
  BY DEF Checkpoint
<1>6. ASSUME NEW y, Linked(w, y) PROVE Linked(w2, y)
  <2>1. /\ y.snap.commit \in Nat /\ y.snap.generation \in Nat
        /\ y.snap.commit <= commit /\ y.snap.generation <= generation
    BY <1>2, <1>6 DEF Linked
  <2>2. y.snap.commit # w2.commit /\ y.snap.commit <= w2.commit /\ y.snap.generation <= w2.generation
    BY <1>3, <1>4, <2>1
  <2> QED
    BY <2>1, <2>2 DEF Linked
<1>7. SessionsGood'
  <2>1. ASSUME NEW r \in Sessions, session'[r] # Nil
        PROVE  TxGood(transient', session'[r]) /\ Linked(Work', session'[r])
    <3>1. TxGood(transient, session[r]) /\ Linked(w, session[r])
      BY <1>1, <1>5, <2>1 DEF SessionsGood
    <3> QED
      BY <1>1, <1>5, <1>6, <3>1
  <2> QED
    BY <2>1 DEF SessionsGood
<1>8. CacheGood(w2, cache')
  <2>1. cache # Nil => /\ cache.commit \in Nat /\ cache.generation \in Nat
                       /\ cache.commit <= commit /\ cache.generation <= generation
    BY <1>1, <1>2 DEF CacheGood
  <2>2. cache # Nil => cache.commit # w2.commit /\ cache.commit <= w2.commit
    BY <1>3, <1>4, <2>1
  <2>3. ~Hit(w2, cache)
    BY <2>2 DEF Hit
  <2> QED
    BY <1>3, <1>5, <2>1, <2>2, <2>3 DEF CacheGood
<1>9. ASSUME NEW t \in Tables
      PROVE  /\ IsSchema(w2.schema[t]) /\ IsSeq(w2.schema[t].indexes)
             /\ w2.schema[t].collation \in Nat /\ w2.disk[t].schema.collation \in Nat
             /\ w2.disk[t].schema.collation <= w2.schema[t].collation
             /\ NoDuplicates(w2.schema[t], Base(w2, t))
  <2>1. /\ IsSchema(schema[t]) /\ IsSeq(schema[t].indexes)
        /\ schema[t].collation \in Nat /\ disk[t].schema.collation \in Nat
        /\ disk[t].schema.collation <= schema[t].collation
    BY <1>1, <1>2 DEF WorkGood
  <2>2. w2.disk[t] = Checkpointed(t) /\ w2.pending[t] = NoEdits
    BY <1>3
  <2>3. w2.disk[t].schema = disk[t].schema \/ w2.disk[t].schema = schema[t]
    BY <2>2 DEF Checkpointed
  <2>4. Base(w2, t) = [k \in Keys |-> Checkpointed(t).rows[k]]
    BY <2>2 DEF Base, Rows, Through, NoEdits
  <2>5. \A k \in Keys : Checkpointed(t).rows[k] = Patched(disk[t].rows, pending[t])[k]
    BY DEF Checkpointed, Untouched, Patched, NoEdits
  <2>6. Base(w2, t) = Patched(disk[t].rows, pending[t])
    BY <2>4, <2>5 DEF Patched
  <2>7. NoDuplicates(schema[t], Patched(disk[t].rows, pending[t]))
    BY DEF Checkpoint, NoDuplicates
  <2> QED
    BY <1>3, <2>1, <2>3, <2>6, <2>7
<1>10. WorkGood(w2)
  BY <1>3, <1>4, <1>9 DEF WorkGood
<1> QED
  BY <1>1, <1>7, <1>8, <1>10

-----------------------------------------------------------------------------
(* The invariant holds.                                                     *)

\* A finite set has a listing, and SetToSeq is one.
LEMMA SetToSeqIsSeq ==
  ASSUME NEW S, IsFiniteSet(S)
  PROVE  SetToSeq(S) \in Seq(S)
<1>1. PICK n : n = Cardinality(S) /\ n \in Nat /\ ExistsBijection(1..n, S)
  BY FS_CardinalityType
<1>2. PICK g : g \in Bijection(1..n, S)
  BY <1>1 DEF ExistsBijection
<1>3. g \in [1..n -> S] /\ IsInjective(g)
  BY <1>2 DEF Bijection, Injection
<1>4. SetToSeq(S) \in [1..n -> S]
  BY <1>1, <1>3 DEF SetToSeq
<1> QED
  BY <1>1, <1>4

LEMMA AllIndexesIsSeq == IsSeq(AllIndexes)
<1>1. PICK a, b, c : a = SetToSeq(Unique) /\ b = SetToSeq(IndexNames \ Unique) /\ c = a \o b
  OBVIOUS
<1>2. Unique \subseteq IndexNames /\ IsFiniteSet(Unique) /\ IsFiniteSet(IndexNames \ Unique)
  BY IndexAssumption, FS_Subset
<1>3. a \in Seq(Unique) /\ b \in Seq(IndexNames \ Unique)
  BY <1>1, <1>2, SetToSeqIsSeq
<1>4. a \in Seq(IndexNames) /\ b \in Seq(IndexNames)
  BY <1>2, <1>3
<1>5. c \in Seq(IndexNames)
  BY <1>1, <1>4
<1>6. Len(c) \in Nat /\ c = [m \in 1..Len(c) |-> c[m]]
  BY <1>5
<1>7. IsSeq(c)
  BY <1>6, SeqMade
<1> QED
  BY <1>1, <1>7 DEF AllIndexes

LEMMA IInvInit == Init => IInv
<1> SUFFICES ASSUME Init PROVE IInv
  OBVIOUS
<1>1. DiskExact
  BY DiskExactInit
<1>2. SessionsSound /\ SessionsGood
  BY DEF Init, SessionsSound, SessionsGood
<1>3. CacheGood(Work, cache)
  BY DEF Init, CacheGood, Hit
<1>4. PICK w : w = Work
  OBVIOUS
<1>5. /\ w.commit = commit /\ w.generation = generation /\ w.disk = disk /\ w.log = log
      /\ w.schema = schema
  BY <1>4, WorkParts
<1>6. w.commit \in Nat /\ w.generation \in Nat /\ IsSeq(w.log) /\ Len(w.log) = w.generation
  <2>1. w.commit = 1 /\ w.generation = 0 /\ w.log = <<>>
    BY <1>5 DEF Init
  <2>2. IsSeq(<<>>) /\ Len(<<>>) = 0
    BY DEF IsSeq
  <2> QED
    BY <2>1, <2>2
<1>7. ASSUME NEW t \in Tables
      PROVE  /\ IsSchema(w.schema[t]) /\ IsSeq(w.schema[t].indexes)
             /\ w.schema[t].collation \in Nat /\ w.disk[t].schema.collation \in Nat
             /\ w.disk[t].schema.collation <= w.schema[t].collation
             /\ NoDuplicates(w.schema[t], Base(w, t))
  <2>1. PICK rows \in [Tables -> [Keys -> Cells \cup {Absent}]] :
          /\ \A r \in Tables : \A i \in Indexes(schema[r]) : ~Duplicate(schema[r], i, rows[r])
          /\ disk = [r \in Tables |-> [schema |-> schema[r], rows |-> rows[r],
                                       trees |-> Rebuilt(schema[r], rows[r])]]
    BY DEF Init
  <2>2. disk[t].schema = schema[t] /\ disk[t].rows = rows[t] /\ NoDuplicates(schema[t], rows[t])
    BY <2>1 DEF NoDuplicates
  <2>3. schema[t] = [indexes |-> AllIndexes, collation |-> 0] /\ pending[t] = NoEdits
    BY DEF Init
  <2>4. Patched(rows[t], NoEdits) = rows[t]
    BY DEF Patched, NoEdits
  <2>5. Base(w, t) = rows[t]
    BY <1>4, <2>2, <2>3, <2>4, BasePatched
  <2>6. IsSchema(schema[t]) /\ IsSeq(schema[t].indexes) /\ schema[t].collation = 0
    BY <2>3, AllIndexesIsSeq DEF IsSchema
  <2> QED
    BY <1>5, <2>2, <2>5, <2>6
<1>8. WorkGood(w)
  BY <1>6, <1>7 DEF WorkGood
<1> QED
  BY <1>1, <1>2, <1>3, <1>4, <1>8 DEF IInv

\* What the steps within a transaction leave alone.
LEMMA QuietSteps ==
  ASSUME NEW s
  PROVE  /\ StartTransaction(s) \/ StatementComplete(s) \/ DiscardChanges(s) => Quiet
         /\ \A t : Lookup(s, t) \/ StatementBegin(s, t) \/ ModifyColumn(s, t) => Quiet
         /\ \A t, i : CreateIndex(s, t, i) \/ DropIndex(s, t, i) => Quiet
         /\ \A k : Delete(s, k) => Quiet
         /\ \A k, v : Insert(s, k, v) => Quiet
         /\ \A k, l, v : Update(s, k, l, v) => Quiet
<1>1. StartTransaction(s) \/ StatementComplete(s) \/ DiscardChanges(s) => Quiet
  BY DEF StartTransaction, StatementComplete, DiscardChanges, Quiet
<1>2. \A t, st : Alter(s, t, st) => Quiet
  BY DEF Alter, Quiet
<1>3. \A st, stmt, failed : RowOp(s, st, stmt, failed) => Quiet
  BY DEF RowOp, Quiet
<1>4. \A t : Lookup(s, t) \/ StatementBegin(s, t) \/ ModifyColumn(s, t) => Quiet
  <2>1. \A t : Lookup(s, t) \/ StatementBegin(s, t) => Quiet
    BY DEF Lookup, StatementBegin, Quiet
  <2> QED
    BY <1>2, <2>1 DEF ModifyColumn
<1>5. \A t, i : CreateIndex(s, t, i) \/ DropIndex(s, t, i) => Quiet
  BY <1>2 DEF CreateIndex, DropIndex
<1>6. \A k : Delete(s, k) => Quiet
  BY <1>3 DEF Delete
<1>7. \A k, v : Insert(s, k, v) => Quiet
  BY <1>3 DEF Insert
<1>8. \A k, l, v : Update(s, k, l, v) => Quiet
  <2>1. ASSUME NEW k, NEW l, NEW v, Update(s, k, l, v) PROVE Quiet
    BY <2>1 DEF Update, RowOp, Quiet
  <2> QED
    BY <2>1
<1> QED
  BY <1>1, <1>4, <1>5, <1>6, <1>7, <1>8

\* Sessions, working state and cache behind a step, one case per action.
LEMMA GoodNext ==
  ASSUME ~Ignoring, IInv, [Next]_vars
  PROVE  SessionsGood' /\ WorkGood(Work)' /\ CacheGood(Work, cache)'
<1>1. DiskExact /\ SessionsSound /\ SessionsGood /\ WorkGood(Work) /\ CacheGood(Work, cache)
  BY DEF IInv
<1>2. Quiet => WorkGood(Work)' /\ CacheGood(Work, cache)'
  BY <1>1, QuietWork
<1>3. CASE UNCHANGED vars
  <2>1. Quiet /\ session' = session
    BY <1>3 DEF vars, Quiet
  <2>2. SessionsGood'
    BY <1>1, <2>1, QuietWork DEF SessionsGood
  <2> QED
    BY <1>2, <2>1, <2>2
<1>4. CASE Checkpoint
  BY <1>1, <1>4, CheckpointGood
<1>5. ASSUME NEW s \in Sessions, StartTransaction(s) \/ StatementComplete(s) \/ DiscardChanges(s)
      PROVE  SessionsGood' /\ Quiet
  BY <1>1, <1>5, QuietSteps, StartGood, CompleteGood, DiscardGood
<1>6. ASSUME NEW s \in Sessions, NEW t \in Tables,
             Lookup(s, t) \/ StatementBegin(s, t) \/ ModifyColumn(s, t)
      PROVE  SessionsGood' /\ Quiet
  BY <1>1, <1>6, QuietSteps, LookupGood, BeginGood, ModifyGood
<1>7. ASSUME NEW s \in Sessions, NEW t \in Tables, NEW i \in IndexNames,
             CreateIndex(s, t, i) \/ DropIndex(s, t, i)
      PROVE  SessionsGood' /\ Quiet
  BY <1>1, <1>7, QuietSteps, CreateGood, DropGood
<1>8. ASSUME NEW s \in Sessions, NEW k \in Keys, Delete(s, k)
      PROVE  SessionsGood' /\ Quiet
  BY <1>1, <1>8, QuietSteps, DeleteGood
<1>9. ASSUME NEW s \in Sessions, NEW k \in Keys, NEW v \in Cells, Insert(s, k, v)
      PROVE  SessionsGood' /\ Quiet
  BY <1>1, <1>9, QuietSteps, InsertGood
<1>10. ASSUME NEW s \in Sessions, NEW k \in Keys, NEW l \in Keys, NEW v \in Cells,
              Update(s, k, l, v)
       PROVE  SessionsGood' /\ Quiet
  BY <1>1, <1>10, QuietSteps, UpdateGood
<1>11. ASSUME NEW s \in Sessions, EndWithoutCommit(s)
       PROVE  SessionsGood' /\ Quiet
  BY <1>1, <1>11, EndWithoutGood
<1>12. ASSUME NEW s \in Sessions,
              EndClean(s) \/ \E stored \in BOOLEAN : CommitTypedEdits(s, stored)
       PROVE  SessionsGood' /\ WorkGood(Work)' /\ CacheGood(Work, cache)'
  BY <1>1, <1>12, EndCleanGood, CommitGood
<1> QED
  BY <1>2, <1>3, <1>4, <1>5, <1>6, <1>7, <1>8, <1>9, <1>10, <1>11, <1>12 DEF Next

LEMMA IInvNext ==
  ASSUME ~Ignoring
  PROVE  IInv /\ [Next]_vars => IInv'
<1> SUFFICES ASSUME IInv, [Next]_vars PROVE IInv'
  OBVIOUS
<1>1. DiskExact' /\ SessionsSound'
  BY DiskExactNext, SessionsSoundNext DEF IInv
<1>2. SessionsGood' /\ WorkGood(Work)' /\ CacheGood(Work, cache)'
  BY GoodNext
<1> QED
  BY <1>1, <1>2 DEF IInv

\* The inductive invariant, of every behaviour in which a statement ends at its first
\* failed row.
THEOREM IndexInvariant == ASSUME ~Ignoring PROVE Spec => []IInv
  BY IInvInit, IInvNext, PTL DEF Spec

\* Whatever a transaction did, rebased, undone or begun from the cache, the index it
\* looks rows up through is the index of the rows it sees (deriveIndexEdits,
\* addIndexEdit, storeIndexEdits, DiscardChanges), as long as statements stop at a
\* failed row.
THEOREM IndexesExactHolds == ASSUME ~Ignoring PROVE Spec => []IndexesExact
<1>1. IInv => IndexesExact
  <2> SUFFICES ASSUME IInv, NEW s \in Sessions, NEW t \in Tables, session[s] # Nil,
                      Table(s, t).idx # Empty, ~Table(s, t).schemaDirty,
                      ~Recoded(session[s].snap.disk, Table(s, t).schema, t),
                      session[s].stmt # NoStmt => ~session[s].stmt.failed, t \notin transient,
                      NEW i \in Indexes(Table(s, t).schema)
               PROVE  Entries(session[s].snap, t, Table(s, t), i)
                        = IndexOf(Table(s, t).schema, i, Seen(s, t))
    BY DEF IndexesExact
  <2>1. PICK x, st : x = session[s] /\ st = Table(s, t) /\ st = x.tables[t]
    BY DEF Table
  <2>2. Good(transient, x.snap, t, st)
    BY <2>1 DEF IInv, SessionsGood, TxGood, Failing
  <2>3. Shape(x.snap, t, st) /\ Exact(x.snap, t, st)
    BY <2>1, <2>2 DEF Good
  <2>4. DOMAIN st.idx = Indexes(st.schema)
    BY <2>1, <2>3 DEF Shape
  <2>5. IndexGood(x.snap, t, st, i)
    BY <2>1, <2>3, <2>4 DEF Exact
  <2>6. Seen(s, t) = Rows(x.snap, t, st.edits)
    BY <2>1, VisibleThrough DEF Seen, Rows
  <2> QED
    BY <2>1, <2>5, <2>6 DEF IndexGood
<1> QED
  BY <1>1, IndexInvariant, PTL

\* The views in the cache are those of the rows of its generation, in whatever order
\* transactions stored and remembered theirs (storeIndexEdits, rememberIndexEdits,
\* rebaseIndexViews), but for tables of which one that took and released a unique value
\* was rebased.
THEOREM CacheExactHolds == ASSUME ~Ignoring PROVE Spec => []CacheExact
<1>1. IInv => CacheExact
  <2> SUFFICES ASSUME IInv, CacheHit, NEW t \in Tables, t \notin transient,
                      ~Recoded(disk, schema[t], t), t \in DOMAIN cache.views
               PROVE  /\ DOMAIN cache.views[t] = Indexes(schema[t])
                      /\ \A i \in DOMAIN cache.views[t] :
                           Applied(Tree(Snapshot, t, i), cache.views[t][i])
                             = IndexOf(schema[t], i, Patched(disk[t].rows, pending[t]))
    BY DEF CacheExact, CacheExactFor
  <2>1. PICK w : /\ w = Work /\ w.commit = commit /\ w.generation = generation
                 /\ w.disk = disk /\ w.pending = pending /\ w.schema = schema
                 /\ w.transient = transient
    BY WorkParts
  <2>2. Hit(w, cache) /\ Sane(w, t)
    BY <2>1 DEF CacheHit, Hit, Sane
  <2>3. ViewsGood(w, t, cache.views[t])
    BY <2>1, <2>2 DEF IInv, CacheGood
  <2>4. Base(w, t) = Patched(disk[t].rows, pending[t])
    BY <2>1, BasePatched
  <2>5. \A i : Tree(Snapshot, t, i) = Tree(w, t, i)
    BY <2>1, SnapshotParts, BaseSame
  <2> QED
    BY <2>1, <2>2, <2>3, <2>4, <2>5 DEF ViewsGood
<1> QED
  BY <1>1, IndexInvariant, PTL

\* No two committed rows have one key of a unique index, although a transaction checks
\* only the rows it sees: what it did not see was claimed in the log, and two claims of
\* one key conflict (uniqueClaims, writeLog.conflict).
THEOREM UniqueKept == ASSUME ~Ignoring PROVE Spec => []UniqueHolds
<1>1. IInv => UniqueHolds
  <2> SUFFICES ASSUME IInv, NEW t \in Tables, t \notin transient, NEW i \in Unique,
                      i \in Indexes(schema[t]), ~Recoded(disk, schema[t], t)
               PROVE  ~Duplicate(schema[t], i, Patched(disk[t].rows, pending[t]))
    BY DEF UniqueHolds, UniqueFor
  <2>1. PICK w : /\ w = Work /\ w.disk = disk /\ w.schema = schema /\ w.transient = transient
    BY WorkParts
  <2>2. Sane(w, t)
    BY <2>1 DEF Sane
  <2>3. NoDuplicates(w.schema[t], Base(w, t))
    BY <2>1, <2>2 DEF IInv, WorkGood
  <2> QED
    BY <2>1, <2>3, BasePatched DEF NoDuplicates
<1> QED
  BY <1>1, IndexInvariant, PTL

=============================================================================
