-------------------------- MODULE IndexRowsProofs --------------------------
(***************************************************************************)
(* The invariant behind exact secondary indexes, and what a row operation   *)
(* and its undo make of one table: lemmas about sequences of index edits,    *)
(* views and trees, up to OpGood and RewindGood.                             *)
(***************************************************************************)
EXTENDS IndexEditsProofs, SequenceTheorems, FiniteSetTheorems


-----------------------------------------------------------------------------
(* The invariant.                                                           *)

\* A sequence, of whatever elements.
IsSeq(l) == l \in Seq({l[n] : n \in DOMAIN l})

\* The rows that edits make visible over a snapshot, and those of the snapshot.
Rows(snap, t, edits) == [k \in Keys |-> Through(snap, t, edits[k], k)]
Base(snap, t) == Rows(snap, t, NoEdits)

\* Row k has index key e.
Has(sch, i, rows, k, e) ==
  k \in Keys /\ rows[k] # Absent /\ e = encodeIndexKey(sch, i, k, rows[k])

\* The last of some index edits that is of a key, which every key has.
Newest(local, n, e) ==
  /\ n \in DOMAIN local /\ local[n].key = e
  /\ \A m \in DOMAIN local : local[m].key = e => m <= n

Tidy(local) ==
  IsSeq(local) /\ \A m \in DOMAIN local : \E n \in DOMAIN local : Newest(local, n, local[m].key)

\* A transaction's own index edits are of rows it edited.
Own(sch, i, edits, local) ==
  \A n \in DOMAIN local : \E k \in Keys :
    /\ edits[k] # NoEdit
    /\ local[n].key = encodeIndexKey(sch, i, k, local[n].key[2])
    /\ local[n].value \in {k, Deleted}

\* A delete is of an entry the transaction put itself or found in its snapshot.
Backed(sch, i, rows, local) ==
  \A n \in DOMAIN local : local[n].value = Deleted =>
    \/ \E m \in DOMAIN local :
         m < n /\ local[m].key = local[n].key /\ local[m].value # Deleted
    \/ \E k \in Keys : Has(sch, i, rows, k, local[n].key)

\* The fields of a schema.
IsSchema(sch) == sch = [indexes |-> sch.indexes, collation |-> sch.collation]

\* The fields of a table.  Without index edits there are no row edits either, as
\* a statement derives the index edits before it edits a row.
Shape(snap, t, st) ==
  /\ IsSchema(st.schema) /\ IsSeq(st.schema.indexes)
  /\ st.schema.collation \in Nat /\ snap.disk[t].schema.collation \in Nat
  /\ snap.disk[t].schema.collation <= st.schema.collation
  /\ st.dirty \in BOOLEAN /\ st.schemaDirty \in BOOLEAN
  /\ st.schemaDirty => st.dirty
  /\ ~st.dirty => st.edits = NoEdits
  /\ ~st.schemaDirty =>
       /\ DOMAIN st.idx = Indexes(st.schema) \/ (st.idx = Empty /\ st.edits = NoEdits)
       /\ st.idx = [i \in DOMAIN st.idx |->
                      [base |-> st.idx[i].base, local |-> st.idx[i].local]]
       /\ \A i \in DOMAIN st.idx :
            Tidy(st.idx[i].local) /\ Own(st.schema, i, st.edits, st.idx[i].local)

\* One index: the edits a transaction began with make the index of its snapshot,
\* and with its own the index of what it sees.
IndexGood(snap, t, st, i) ==
  /\ Applied(Tree(snap, t, i), st.idx[i].base) = IndexOf(st.schema, i, Base(snap, t))
  /\ Entries(snap, t, st, i) = IndexOf(st.schema, i, Rows(snap, t, st.edits))
  /\ Backed(st.schema, i, Base(snap, t), st.idx[i].local)

Exact(snap, t, st) ==
  /\ NoDuplicates(st.schema, Rows(snap, t, st.edits))
  /\ ~st.schemaDirty =>
       /\ NoDuplicates(st.schema, Base(snap, t))
       /\ \A i \in DOMAIN st.idx : IndexGood(snap, t, st, i)

\* A table of a transaction; the tables in spoilt have no more than their shape.
Good(spoilt, snap, t, st) ==
  /\ Shape(snap, t, st)
  /\ t \notin spoilt /\ ~Recoded(snap.disk, st.schema, t) => Exact(snap, t, st)

\* Behind a failed row only the table that DiscardChanges gives back is good.
StmtGood(spoilt, snap, st, stmt) ==
  /\ Good(spoilt, snap, stmt.table, Undone(st, stmt))
  /\ stmt.failed \in BOOLEAN
  /\ ~stmt.failed =>
       /\ DOMAIN st.idx = Indexes(st.schema)
       /\ \A i \in DOMAIN st.idx : stmt.lens[i] \in 0..Len(st.idx[i].local)

Failing(x, t) == x.stmt # NoStmt /\ x.stmt.failed /\ t = x.stmt.table

TreesGood(snap) ==
  \A t \in Tables :
    /\ snap.disk[t].trees = Rebuilt(snap.disk[t].schema, snap.disk[t].rows)
    /\ NoDuplicates(snap.disk[t].schema, snap.disk[t].rows)

TxGood(spoilt, x) ==
  /\ TreesGood(x.snap)
  /\ \A t \in Tables : Failing(x, t) \/ Good(spoilt, x.snap, t, x.tables[t])
  /\ x.stmt # NoStmt => StmtGood(spoilt, x.snap, x.tables[x.stmt.table], x.stmt)

\* The working state: a snapshot of it, with what else it has.
Work ==
  [commit |-> commit, generation |-> generation, disk |-> disk, pending |-> pending,
   schema |-> schema, log |-> log, transient |-> transient]

\* A table of the working state whose unique keys and cached views are right.
Sane(w, t) == t \notin w.transient /\ ~Recoded(w.disk, w.schema[t], t)

WorkGood(w) ==
  /\ w.commit \in Nat /\ w.generation \in Nat
  /\ IsSeq(w.log) /\ Len(w.log) = w.generation
  /\ \A t \in Tables :
       /\ IsSchema(w.schema[t]) /\ IsSeq(w.schema[t].indexes)
       /\ w.schema[t].collation \in Nat /\ w.disk[t].schema.collation \in Nat
       /\ w.disk[t].schema.collation <= w.schema[t].collation
       /\ Sane(w, t) => NoDuplicates(w.schema[t], Base(w, t))

\* The generations a transaction has not seen.
Unseen(w, snap) == snap.generation + 1 .. w.generation

\* What has changed since a snapshot is in the log: rows, schemas, and the unique
\* keys of the rows that changed.
Logged(w, snap, t, st) ==
  /\ \A k \in Keys : snap.pending[t][k] # w.pending[t][k] =>
       \E g \in Unseen(w, snap) : <<t, k>> \in w.log[g].rows /\ t \in w.log[g].tables
  /\ ~st.schemaDirty /\ st.schema # w.schema[t] =>
       \E g \in Unseen(w, snap) : t \in w.log[g].schema
  /\ Sane(w, t) /\ (\A g \in Unseen(w, snap) : t \notin w.log[g].schema) =>
       \A i \in Indexes(w.schema[t]) \cap Unique, k \in Keys :
         Base(w, t)[k] \notin {Base(snap, t)[k], Absent, Null} =>
           \E g \in Unseen(w, snap) :
             <<t, i, encodeIndexKey(w.schema[t], i, k, Base(w, t)[k])>> \in w.log[g].claims

Linked(w, x) ==
  /\ x.snap.commit \in Nat /\ x.snap.generation \in Nat
  /\ x.snap.commit <= w.commit /\ x.snap.generation <= w.generation
  /\ x.snap.commit = w.commit =>
       x.snap.disk = w.disk /\ \A t \in Tables : Logged(w, x.snap, t, x.tables[t])

Hit(w, c) == c # Nil /\ c.commit = w.commit /\ c.generation = w.generation

\* A view of the cache.
ViewsGood(w, t, views) ==
  /\ DOMAIN views = Indexes(w.schema[t])
  /\ Sane(w, t) =>
       \A i \in Indexes(w.schema[t]) :
         Applied(Tree(w, t, i), views[i]) = IndexOf(w.schema[t], i, Base(w, t))

CacheGood(w, c) ==
  /\ c # Nil => /\ c.commit \in Nat /\ c.generation \in Nat
                /\ c.commit <= w.commit /\ c.generation <= w.generation
  /\ Hit(w, c) => \A t \in Tables \cap DOMAIN c.views : ViewsGood(w, t, c.views[t])

SessionsGood ==
  \A s \in Sessions : session[s] # Nil => TxGood(transient, session[s]) /\ Linked(Work, session[s])

IInv ==
  DiskExact /\ SessionsSound /\ SessionsGood /\ WorkGood(Work) /\ CacheGood(Work, cache)
-----------------------------------------------------------------------------
(* Sequences.                                                               *)

\* A sequence has its length and its elements.
LEMMA SeqParts ==
  ASSUME NEW l, IsSeq(l)
  PROVE  /\ Len(l) \in Nat /\ DOMAIN l = 1..Len(l)
         /\ l = [n \in 1..Len(l) |-> l[n]]
BY DEF IsSeq

\* A function on 1..n is a sequence.
LEMMA SeqMade ==
  ASSUME NEW n \in Nat, NEW f, f = [m \in 1..n |-> f[m]]
  PROVE  IsSeq(f) /\ Len(f) = n
<1>1. DOMAIN f = 1..n
  OBVIOUS
<1>2. f \in [1..n -> {f[m] : m \in DOMAIN f}]
  BY <1>1
<1>3. f \in Seq({f[m] : m \in DOMAIN f})
  BY <1>2
<1> QED
  BY <1>1, <1>3 DEF IsSeq

\* An edit behind the others.
LEMMA AppendParts ==
  ASSUME NEW l, IsSeq(l), NEW x
  PROVE  /\ IsSeq(Append(l, x))
         /\ Len(Append(l, x)) = Len(l) + 1
         /\ \A n \in 1..Len(l) : Append(l, x)[n] = l[n]
         /\ Append(l, x)[Len(l) + 1] = x
<1> DEFINE S == {l[n] : n \in DOMAIN l} \cup {x}
<1>1. l \in Seq(S)
  BY DEF IsSeq
<1>2. Append(l, x) \in Seq(S)
  BY <1>1
<1>3. /\ Len(Append(l, x)) = Len(l) + 1
      /\ \A n \in 1..Len(l) : Append(l, x)[n] = l[n]
      /\ Append(l, x)[Len(l) + 1] = x
  BY <1>1
<1>4. IsSeq(Append(l, x))
  <2>1. PICK f : f = Append(l, x)
    OBVIOUS
  <2>2. f \in Seq(S)
    BY <1>2, <2>1
  <2> HIDE DEF S
  <2>3. Len(f) \in Nat /\ f = [m \in 1..Len(f) |-> f[m]]
    BY <2>2
  <2> QED
    BY <2>1, <2>3, SeqMade
<1> QED
  BY <1>3, <1>4

\* Cutting a sequence back to what it was before something was put behind it.
LEMMA CutBack ==
  ASSUME NEW l, IsSeq(l), NEW x, NEW n \in 0..Len(l)
  PROVE  SubSeq(Append(l, x), 1, n) = SubSeq(l, 1, n)
<1>1. PICK f : f = Append(l, x)
  OBVIOUS
<1>2. /\ IsSeq(f) /\ Len(f) = Len(l) + 1 /\ Len(l) \in Nat
      /\ \A m \in 1..Len(l) : f[m] = l[m]
  BY <1>1, AppendParts, SeqParts
<1>3. f \in Seq({f[m] : m \in DOMAIN f}) /\ l \in Seq({l[m] : m \in DOMAIN l})
  BY <1>2 DEF IsSeq
<1>4. SubSeq(f, 1, n) = [m \in 1..n |-> f[m]]
  BY <1>2, <1>3
<1>5. SubSeq(l, 1, n) = [m \in 1..n |-> l[m]]
  BY <1>2, <1>3
<1>6. \A m \in 1..n : f[m] = l[m]
  BY <1>2
<1> QED
  BY <1>1, <1>4, <1>5, <1>6

\* A beginning of a sequence is a sequence of its elements.
LEMMA CutParts ==
  ASSUME NEW l, IsSeq(l), NEW n \in 0..Len(l)
  PROVE  /\ IsSeq(SubSeq(l, 1, n)) /\ Len(SubSeq(l, 1, n)) = n
         /\ \A m \in 1..n : SubSeq(l, 1, n)[m] = l[m]
<1>1. l \in Seq({l[m] : m \in DOMAIN l})
  BY DEF IsSeq
<1>2. PICK f : f = SubSeq(l, 1, n)
  OBVIOUS
<1>3. f = [m \in 1..n |-> f[m]] /\ \A m \in 1..n : f[m] = l[m]
  BY <1>1, <1>2
<1>4. n \in Nat
  OBVIOUS
<1>5. IsSeq(f) /\ Len(f) = n
  BY <1>3, <1>4, SeqMade
<1> QED
  BY <1>2, <1>3, <1>5

LEMMA CutWhole ==
  ASSUME NEW l, IsSeq(l)
  PROVE  SubSeq(l, 1, Len(l)) = l
<1>1. l \in Seq({l[m] : m \in DOMAIN l})
  BY DEF IsSeq
<1> QED
  BY <1>1

\* addIndexEdit of no edit, of one and of two.
LEMMA ConcatParts ==
  ASSUME NEW l, IsSeq(l), NEW x, NEW y
  PROVE  /\ l \o (<<>> \o <<>>) = l
         /\ l \o (<<x>> \o <<>>) = Append(l, x)
         /\ l \o (<<>> \o <<y>>) = Append(l, y)
         /\ l \o (<<x>> \o <<y>>) = Append(Append(l, x), y)
<1> DEFINE S == {l[m] : m \in DOMAIN l} \cup {x, y}
<1>1. l \in Seq(S) /\ x \in S /\ y \in S
  BY DEF IsSeq
<1> HIDE DEF S
<1>2. <<x>> \in Seq(S) /\ <<y>> \in Seq(S) /\ <<>> \in Seq(S)
  BY <1>1
<1>3. <<x>> \o <<>> = <<x>> /\ <<>> \o <<y>> = <<y>> /\ <<>> \o <<>> = <<>>
  BY <1>2
<1>5. l \o <<>> = l /\ l \o <<x>> = Append(l, x) /\ l \o <<y>> = Append(l, y)
  BY <1>1
<1>6. l \o (<<x>> \o <<y>>) = Append(Append(l, x), y)
  <2>1. l \o (<<x>> \o <<y>>) = (l \o <<x>>) \o <<y>>
    BY <1>1, <1>2, ConcatAssociative
  <2>2. Append(l, x) \in Seq(S)
    BY <1>1
  <2>3. Append(l, x) \o <<y>> = Append(Append(l, x), y)
    BY <1>1, <2>2
  <2> QED
    BY <1>5, <2>1, <2>3
<1> QED
  BY <1>3, <1>5, <1>6


-----------------------------------------------------------------------------
(* Index trees, and edits over them.                                        *)

\* An index leads from key e to row k.
Maps(f, e, k) == e \in DOMAIN f /\ f[e] = k

\* Trees that lead to the same rows are the same.
LEMMA MapsEqual ==
  ASSUME NEW f, NEW g, f = [e \in DOMAIN f |-> f[e]], g = [e \in DOMAIN g |-> g[e]],
         \A e, k : Maps(f, e, k) <=> Maps(g, e, k)
  PROVE  f = g
<1>1. \A e \in DOMAIN f : e \in DOMAIN g /\ f[e] = g[e]
  BY DEF Maps
<1>2. \A e \in DOMAIN g : e \in DOMAIN f
  BY DEF Maps
<1>3. DOMAIN f = DOMAIN g
  BY <1>1, <1>2
<1> QED
  BY <1>1, <1>3

\* What an index key says of its row: the value, and the primary key unless the
\* index is unique and the value is not NULL.
LEMMA EncodeParts ==
  ASSUME NEW sch, NEW i, NEW k, NEW v, NEW l, NEW u
  PROVE  /\ encodeIndexKey(sch, i, k, v)[2] = v
         /\ encodeIndexKey(sch, i, k, v) = encodeIndexKey(sch, i, l, u) =>
              v = u /\ (v = Null \/ i \notin Unique => k = l)
         /\ v # Null /\ i \in Unique => encodeIndexKey(sch, i, k, v) = encodeIndexKey(sch, i, l, v)
BY DEF encodeIndexKey

\* Only a unique index can have duplicates, and not of NULL.
LEMMA DuplicateHas ==
  ASSUME NEW sch, NEW i, NEW rows
  PROVE  /\ ~Duplicate(sch, i, rows) <=>
              \A k, l, e : Has(sch, i, rows, k, e) /\ Has(sch, i, rows, l, e) => k = l
         /\ i \notin Unique => ~Duplicate(sch, i, rows)
<1>1. ASSUME Duplicate(sch, i, rows)
      PROVE  /\ i \in Unique
             /\ \E k, l, e : Has(sch, i, rows, k, e) /\ Has(sch, i, rows, l, e) /\ k # l
  <2>1. PICK k, l \in Present(rows) :
          k # l /\ encodeIndexKey(sch, i, k, rows[k]) = encodeIndexKey(sch, i, l, rows[l])
    BY <1>1 DEF Duplicate
  <2>2. i \in Unique
    BY <2>1, EncodeParts
  <2>3. /\ Has(sch, i, rows, k, encodeIndexKey(sch, i, k, rows[k]))
        /\ Has(sch, i, rows, l, encodeIndexKey(sch, i, k, rows[k]))
    BY <2>1 DEF Has, Present
  <2> QED
    BY <2>1, <2>2, <2>3
<1>2. ASSUME ~Duplicate(sch, i, rows), NEW k, NEW l, NEW e,
             Has(sch, i, rows, k, e), Has(sch, i, rows, l, e)
      PROVE  k = l
  BY <1>2 DEF Duplicate, Has, Present
<1> QED
  BY <1>1, <1>2

\* The index of rows without duplicates leads to the rows that have the key.
LEMMA IndexMaps ==
  ASSUME NEW sch, NEW i, NEW rows, ~Duplicate(sch, i, rows)
  PROVE  /\ IndexOf(sch, i, rows) = [e \in DOMAIN IndexOf(sch, i, rows) |-> IndexOf(sch, i, rows)[e]]
         /\ \A e, k : Maps(IndexOf(sch, i, rows), e, k) <=> Has(sch, i, rows, k, e)
<1>1. PICK f : f = IndexOf(sch, i, rows)
  OBVIOUS
<1>2. f = [e \in DOMAIN f |-> f[e]]
  BY <1>1 DEF IndexOf
<1>3. ASSUME NEW e, NEW k, Has(sch, i, rows, k, e)
      PROVE  Maps(f, e, k)
  BY <1>1, <1>3, IndexOfRow DEF Has, Maps, Present
<1>4. ASSUME NEW e, NEW k, Maps(f, e, k)
      PROVE  Has(sch, i, rows, k, e)
  <2>1. PICK l \in Present(rows) : e = encodeIndexKey(sch, i, l, rows[l])
    BY <1>1, <1>4, IndexOfKeys DEF Maps
  <2>2. Has(sch, i, rows, l, e)
    BY <2>1 DEF Has, Present
  <2> QED
    BY <2>2, <1>3, <1>4 DEF Maps
<1> QED
  BY <1>1, <1>2, <1>3, <1>4

\* Being the index of rows, said by where it leads.
LEMMA IsIndex ==
  ASSUME NEW sch, NEW i, NEW rows, ~Duplicate(sch, i, rows),
         NEW f, f = [e \in DOMAIN f |-> f[e]]
  PROVE  f = IndexOf(sch, i, rows) <=> \A e, k : Maps(f, e, k) <=> Has(sch, i, rows, k, e)
<1>1. PICK g : g = IndexOf(sch, i, rows)
  OBVIOUS
<1>2. g = [e \in DOMAIN g |-> g[e]] /\ \A e, k : Maps(g, e, k) <=> Has(sch, i, rows, k, e)
  BY <1>1, IndexMaps
<1>3. ASSUME \A e, k : Maps(f, e, k) <=> Has(sch, i, rows, k, e)
      PROVE  f = g
  BY <1>2, <1>3, MapsEqual
<1> QED
  BY <1>1, <1>2, <1>3

\* A tree with edits leads where the edits do, and else where the tree does.
LEMMA AppliedMaps ==
  ASSUME NEW tree, NEW view
  PROVE  /\ Applied(tree, view) = [e \in DOMAIN Applied(tree, view) |-> Applied(tree, view)[e]]
         /\ \A e, k : Maps(Applied(tree, view), e, k) <=>
              IF e \in DOMAIN view THEN view[e] = k /\ k # Deleted ELSE Maps(tree, e, k)
<1>1. PICK D : D = {e \in DOMAIN tree \cup DOMAIN view : e \in DOMAIN view => view[e] # Deleted}
  OBVIOUS
<1>2. PICK f : f = [e \in D |-> IF e \in DOMAIN view THEN view[e] ELSE tree[e]]
  OBVIOUS
<1>3. f = Applied(tree, view)
  BY <1>1, <1>2 DEF Applied
<1>4. DOMAIN f = D /\ \A e \in D : f[e] = IF e \in DOMAIN view THEN view[e] ELSE tree[e]
  BY <1>2
<1>5. f = [e \in DOMAIN f |-> f[e]]
  BY <1>2
<1>6. ASSUME NEW e, NEW k
      PROVE  Maps(f, e, k) <=>
               IF e \in DOMAIN view THEN view[e] = k /\ k # Deleted ELSE Maps(tree, e, k)
  BY <1>1, <1>4 DEF Maps
<1> QED
  BY <1>3, <1>5, <1>6

\* What some edits come to, key by key.
Net(local) == With(Empty, local)

LEMMA NetParts ==
  ASSUME NEW local
  PROVE  /\ DOMAIN Net(local) = {local[n].key : n \in DOMAIN local}
         /\ \A e \in DOMAIN Net(local) : Net(local)[e] = local[Latest(local, e)].value
BY DEF Net, With, Empty

\* The edits win over the view they are put on.
LEMMA WithParts ==
  ASSUME NEW view, NEW local
  PROVE  /\ DOMAIN With(view, local) = DOMAIN view \cup DOMAIN Net(local)
         /\ \A e \in DOMAIN With(view, local) :
              With(view, local)[e] = IF e \in DOMAIN Net(local) THEN Net(local)[e] ELSE view[e]
<1>1. PICK D : D = {local[n].key : n \in DOMAIN local}
  OBVIOUS
<1>2. With(view, local) = [e \in DOMAIN view \cup D |->
                             IF e \in D THEN local[Latest(local, e)].value ELSE view[e]]
  BY <1>1 DEF With
<1>3. DOMAIN Net(local) = D /\ \A e \in D : Net(local)[e] = local[Latest(local, e)].value
  BY <1>1, NetParts
<1> QED
  BY <1>2, <1>3

\* Where a tree leads with a view and edits over it.
LEMMA FoundNet ==
  ASSUME NEW tree, NEW view, NEW local, NEW e, NEW k
  PROVE  Maps(Applied(tree, With(view, local)), e, k) <=>
           IF e \in DOMAIN Net(local) THEN Net(local)[e] = k /\ k # Deleted
                                      ELSE Maps(Applied(tree, view), e, k)
<1>1. PICK w : w = With(view, local)
  OBVIOUS
<1>2. PICK net : net = Net(local)
  OBVIOUS
<1>a. /\ DOMAIN With(view, local) = DOMAIN view \cup DOMAIN Net(local)
      /\ \A c \in DOMAIN With(view, local) :
           With(view, local)[c] = IF c \in DOMAIN Net(local) THEN Net(local)[c] ELSE view[c]
  BY WithParts
<1>3. /\ DOMAIN w = DOMAIN view \cup DOMAIN net
      /\ \A c \in DOMAIN w : w[c] = IF c \in DOMAIN net THEN net[c] ELSE view[c]
  BY <1>1, <1>2, <1>a
<1>4. Maps(Applied(tree, w), e, k) <=>
        IF e \in DOMAIN w THEN w[e] = k /\ k # Deleted ELSE Maps(tree, e, k)
  BY AppliedMaps
<1>5. Maps(Applied(tree, view), e, k) <=>
        IF e \in DOMAIN view THEN view[e] = k /\ k # Deleted ELSE Maps(tree, e, k)
  BY AppliedMaps
<1> QED
  BY <1>1, <1>2, <1>3, <1>4, <1>5

\* The newest edit of a key is the latest.
LEMMA NewestIsLatest ==
  ASSUME NEW local, IsSeq(local), NEW n, NEW e, Newest(local, n, e)
  PROVE  Latest(local, e) = n
<1>1. DOMAIN local \subseteq Nat
  BY SeqParts
<1>2. \A m \in DOMAIN local :
        local[m].key = e /\ (\A j \in DOMAIN local : local[j].key = e => j <= m) => m = n
  BY <1>1 DEF Newest
<1> QED
  BY <1>2 DEF Latest, Newest

\* No edits come to nothing.
LEMMA NetNone == Tidy(<<>>) /\ DOMAIN Net(<<>>) = {}
<1>1. IsSeq(<<>>) /\ DOMAIN <<>> = {}
  BY DEF IsSeq
<1> QED
  BY <1>1, NetParts DEF Tidy

\* One more edit decides its key and no other.
LEMMA NetAppend ==
  ASSUME NEW local, Tidy(local), NEW x
  PROVE  /\ Tidy(Append(local, x))
         /\ DOMAIN Net(Append(local, x)) = DOMAIN Net(local) \cup {x.key}
         /\ Net(Append(local, x))[x.key] = x.value
         /\ \A e \in DOMAIN Net(local) : e # x.key => Net(Append(local, x))[e] = Net(local)[e]
<1>1. PICK f : f = Append(local, x)
  OBVIOUS
<1>2. PICK n : n = Len(local)
  OBVIOUS
<1>3. /\ n \in Nat /\ DOMAIN local = 1..n /\ DOMAIN f = 1..n + 1 /\ IsSeq(f) /\ IsSeq(local)
      /\ \A m \in 1..n : f[m] = local[m]
      /\ f[n + 1] = x
  BY <1>1, <1>2, SeqParts, AppendParts DEF Tidy
<1>4. Newest(f, n + 1, x.key)
  BY <1>3 DEF Newest
<1>5. ASSUME NEW e, e # x.key, NEW m \in DOMAIN local, local[m].key = e
      PROVE  \E j \in DOMAIN local : Newest(local, j, e) /\ Newest(f, j, e)
  <2>1. PICK j \in DOMAIN local : Newest(local, j, e)
    BY <1>5 DEF Tidy
  <2>2. Newest(f, j, e)
    BY <2>1, <1>3, <1>5 DEF Newest
  <2> QED
    BY <2>1, <2>2
<1>6. ASSUME NEW m \in DOMAIN f
      PROVE  \E j \in DOMAIN f : Newest(f, j, f[m].key)
  <2>1. CASE f[m].key = x.key
    BY <1>4, <2>1 DEF Newest
  <2>2. CASE f[m].key # x.key
    <3>1. m \in DOMAIN local /\ local[m].key = f[m].key
      BY <1>3, <2>2
    <3>2. PICK j \in DOMAIN local : Newest(f, j, f[m].key)
      BY <1>5, <2>2, <3>1
    <3> QED
      BY <3>2 DEF Newest
  <2> QED
    BY <2>1, <2>2
<1>7. Tidy(f)
  BY <1>3, <1>6 DEF Tidy
<1>a. /\ DOMAIN Net(f) = {f[m].key : m \in DOMAIN f}
      /\ \A e \in DOMAIN Net(f) : Net(f)[e] = f[Latest(f, e)].value
  BY NetParts
<1>b. /\ DOMAIN Net(local) = {local[m].key : m \in DOMAIN local}
      /\ \A e \in DOMAIN Net(local) : Net(local)[e] = local[Latest(local, e)].value
  BY NetParts
<1>8. DOMAIN Net(f) = DOMAIN Net(local) \cup {x.key}
  <2>1. \A e \in DOMAIN Net(f) : e \in DOMAIN Net(local) \cup {x.key}
    BY <1>3, <1>a, <1>b
  <2>2. \A e \in DOMAIN Net(local) \cup {x.key} : e \in DOMAIN Net(f)
    BY <1>3, <1>a, <1>b
  <2> QED
    BY <2>1, <2>2
<1>9. Net(f)[x.key] = x.value
  <2>1. Latest(f, x.key) = n + 1
    BY <1>3, <1>4, NewestIsLatest
  <2> QED
    BY <1>3, <1>8, <2>1, <1>a
<1>10. ASSUME NEW e \in DOMAIN Net(local), e # x.key
       PROVE  Net(f)[e] = Net(local)[e]
  <2>1. PICK m \in DOMAIN local : local[m].key = e
    BY <1>b
  <2>2. PICK j \in DOMAIN local : Newest(local, j, e) /\ Newest(f, j, e)
    BY <1>5, <1>10, <2>1
  <2>3. Latest(local, e) = j /\ Latest(f, e) = j
    BY <1>3, <2>2, NewestIsLatest
  <2>4. Net(f)[e] = f[j].value /\ Net(local)[e] = local[j].value
    BY <1>8, <1>10, <2>3, <1>a, <1>b
  <2> QED
    BY <1>3, <2>2, <2>4
<1> QED
  BY <1>1, <1>7, <1>8, <1>9, <1>10

-----------------------------------------------------------------------------
(* A row operation, for one index.                                          *)

\* The row old at k becomes the row new at l: the entry that goes, and the entry
\* that comes, of an index whose keys of the two are gone and come.
Cuts(old, new, gone, come) == old # Absent /\ ~(new # Absent /\ gone = come)
Puts(k, old, l, new, gone, come) == new # Absent /\ ~(old # Absent /\ gone = come /\ k = l)

\* The rows behind the operation have no duplicate, and the index of these rows is
\* the one before with the entry that goes removed and the one that comes put.
LEMMA EditOne ==
  ASSUME NEW sch, NEW i, NEW R, ~Duplicate(sch, i, R), NEW S,
         NEW k \in Keys, NEW l \in Keys, NEW old, NEW new,
         R[k] = old, k = l \/ R[l] = Absent,
         \A m \in Keys : S[m] = IF m = l THEN new ELSE IF m = k THEN Absent ELSE R[m],
         NEW gone, gone = encodeIndexKey(sch, i, k, old),
         NEW come, come = encodeIndexKey(sch, i, l, new),
         new # Absent /\ ~(old # Absent /\ gone = come) /\ i \in Unique /\ new # Null =>
           \A m : ~Has(sch, i, R, m, come)
  PROVE  /\ ~Duplicate(sch, i, S)
         /\ \A e, m : Has(sch, i, S, m, e) <=>
              IF Puts(k, old, l, new, gone, come) /\ e = come THEN m = l
              ELSE ~(Cuts(old, new, gone, come) /\ e = gone) /\ Has(sch, i, R, m, e)
<1>1. \A m, n, e : Has(sch, i, R, m, e) /\ Has(sch, i, R, n, e) => m = n
  BY DuplicateHas
<1>2. \A m, e : m # k /\ m # l => (Has(sch, i, S, m, e) <=> Has(sch, i, R, m, e))
  BY DEF Has
<1>3. \A e : Has(sch, i, S, l, e) <=> new # Absent /\ e = come
  BY DEF Has
<1>4. \A e : Has(sch, i, R, k, e) <=> old # Absent /\ e = gone
  BY DEF Has
<1>5. k # l => \A e : ~Has(sch, i, S, k, e) /\ ~Has(sch, i, R, l, e)
  BY DEF Has
<1>6. ASSUME NEW m, m # l, Has(sch, i, S, m, come), new # Absent
      PROVE  FALSE
  <2>1. m # k /\ Has(sch, i, R, m, come)
    BY <1>2, <1>5, <1>6
  <2>2. CASE i \in Unique /\ new # Null
    <3>1. old # Absent /\ gone = come
      BY <2>1, <2>2, <1>6
    <3> QED
      BY <3>1, <2>1, <1>1, <1>4
  <2>3. CASE i \notin Unique \/ new = Null
    <3>1. encodeIndexKey(sch, i, m, R[m]) = encodeIndexKey(sch, i, l, new)
      BY <2>1 DEF Has
    <3>2. R[m] = new /\ (R[m] = Null \/ i \notin Unique => m = l)
      BY <3>1, EncodeParts
    <3> QED
      BY <3>2, <2>3, <1>6
  <2> QED
    BY <2>2, <2>3
<1>7. ASSUME NEW m, NEW n, NEW e, Has(sch, i, S, m, e), Has(sch, i, S, n, e)
      PROVE  m = n
  <2>1. CASE m = l
    BY <2>1, <1>3, <1>6, <1>7
  <2>2. CASE n = l
    BY <2>2, <1>3, <1>6, <1>7
  <2>3. CASE m # l /\ n # l
    <3>1. m # k /\ n # k
      BY <2>3, <1>5, <1>7
    <3> QED
      BY <3>1, <2>3, <1>1, <1>2, <1>7
  <2> QED
    BY <2>1, <2>2, <2>3
<1>8. ~Duplicate(sch, i, S)
  BY <1>7, DuplicateHas
<1>9. ASSUME NEW e, NEW m
      PROVE  Has(sch, i, S, m, e) <=>
               IF Puts(k, old, l, new, gone, come) /\ e = come THEN m = l
               ELSE ~(Cuts(old, new, gone, come) /\ e = gone) /\ Has(sch, i, R, m, e)
  <2>1. CASE Puts(k, old, l, new, gone, come) /\ e = come
    BY <2>1, <1>3, <1>6 DEF Puts
  <2>2. CASE ~(Puts(k, old, l, new, gone, come) /\ e = come)
    <3>1. CASE m = l
      <4>1. CASE k = l
        BY <2>2, <3>1, <4>1, <1>3, <1>4 DEF Puts, Cuts
      <4>2. CASE k # l
        BY <2>2, <3>1, <4>2, <1>3, <1>5 DEF Puts, Cuts
      <4> QED
        BY <4>1, <4>2
    <3>2. CASE m = k /\ k # l
      BY <2>2, <3>2, <1>4, <1>5 DEF Puts, Cuts
    <3>3. CASE m # k /\ m # l
      <4>1. Has(sch, i, S, m, e) <=> Has(sch, i, R, m, e)
        BY <3>3, <1>2
      <4>2. Cuts(old, new, gone, come) /\ e = gone => ~Has(sch, i, R, m, e)
        BY <3>3, <1>1, <1>4 DEF Cuts
      <4> QED
        BY <2>2, <4>1, <4>2
    <3> QED
      BY <3>1, <3>2, <3>3
  <2> QED
    BY <2>1, <2>2
<1> QED
  BY <1>8, <1>9

\* More edits behind some: the old ones stay where they are, and cutting back to
\* them or before gives what it gave.
Grown(local, f, edits) ==
  /\ Tidy(f) /\ Len(f) \in Nat /\ Len(local) \in Nat /\ Len(local) <= Len(f)
  /\ DOMAIN f = 1..Len(f) /\ DOMAIN local = 1..Len(local)
  /\ \A n \in 1..Len(local) : f[n] = local[n]
  /\ \A n \in 1..Len(f) : n > Len(local) => f[n] \in edits
  /\ \A n \in 0..Len(local) : SubSeq(f, 1, n) = SubSeq(local, 1, n)

LEMMA GrownOne ==
  ASSUME NEW local, Tidy(local), NEW x
  PROVE  Grown(local, Append(local, x), {x}) /\ Grown(local, local, {})
<1>1. PICK f : f = Append(local, x)
  OBVIOUS
<1>2. /\ Tidy(f) /\ Len(f) = Len(local) + 1 /\ Len(local) \in Nat
      /\ DOMAIN local = 1..Len(local) /\ DOMAIN f = 1..Len(f)
      /\ \A n \in 1..Len(local) : f[n] = local[n]
      /\ f[Len(local) + 1] = x
  <2>1. Tidy(f) /\ IsSeq(local)
    BY <1>1, NetAppend DEF Tidy
  <2>2. IsSeq(f)
    BY <2>1 DEF Tidy
  <2> QED
    BY <1>1, <2>1, <2>2, AppendParts, SeqParts
<1>3. \A n \in 0..Len(local) : SubSeq(f, 1, n) = SubSeq(local, 1, n)
  BY <1>1, CutBack DEF Tidy
<1>4. \A n \in 1..Len(f) : n > Len(local) => f[n] \in {x}
  BY <1>2
<1>5. Grown(local, f, {x})
  BY <1>2, <1>3, <1>4 DEF Grown
<1>6. Grown(local, local, {})
  BY <1>2 DEF Grown
<1> QED
  BY <1>1, <1>5, <1>6

LEMMA GrownTwice ==
  ASSUME NEW local, NEW f, NEW g, NEW A, NEW B, Grown(local, f, A), Grown(f, g, B)
  PROVE  Grown(local, g, A \cup B)
<1>1. \A n \in 1..Len(local) : g[n] = local[n]
  BY DEF Grown
<1>2. \A n \in 1..Len(g) : n > Len(local) => g[n] \in A \cup B
  BY DEF Grown
<1>3. \A n \in 0..Len(local) : SubSeq(g, 1, n) = SubSeq(local, 1, n)
  BY DEF Grown
<1> QED
  BY <1>1, <1>2, <1>3 DEF Grown

-----------------------------------------------------------------------------
(* A row operation, for all indexes of a table.                             *)

\* The edits of an operation to one index.
Added(sch, i, k, old, l, new) ==
  LET gone == encodeIndexKey(sch, i, k, old)
      come == encodeIndexKey(sch, i, l, new)
  IN  (IF Cuts(old, new, gone, come) THEN <<[key |-> gone, value |-> Deleted]>> ELSE <<>>)
        \o (IF Puts(k, old, l, new, gone, come) THEN <<[key |-> come, value |-> l]>> ELSE <<>>)

\* An operation that would put a second entry of a unique key.
Collides(snap, t, st, i, k, old, l, new) ==
  /\ new # Absent
  /\ ~(old # Absent /\ encodeIndexKey(st.schema, i, k, old) = encodeIndexKey(st.schema, i, l, new))
  /\ i \in Unique /\ new # Null
  /\ encodeIndexKey(st.schema, i, l, new) \in DOMAIN Entries(snap, t, st, i)

\* The record of a table and of its overlays.
Formed(st) ==
  /\ st = [schema |-> st.schema, edits |-> st.edits, rows |-> st.rows, idx |-> st.idx,
           dirty |-> st.dirty, schemaDirty |-> st.schemaDirty]
  /\ st.edits = [k \in Keys |-> st.edits[k]]
  /\ st.idx = [i \in DOMAIN st.idx |-> [base |-> st.idx[i].base, local |-> st.idx[i].local]]

\* EditIndexes adds to an index what belongs there or nothing, and to every index
\* what belongs there if none collides.
MadeOf(snap, t, st, k, old, l, new, made, idx) ==
  /\ made.st = [schema |-> st.schema, edits |-> st.edits, rows |-> st.rows,
                idx |-> idx, dirty |-> st.dirty, schemaDirty |-> st.schemaDirty]
  /\ DOMAIN idx = DOMAIN st.idx
  /\ idx = [i \in DOMAIN idx |-> [base |-> idx[i].base, local |-> idx[i].local]]
  /\ \A i \in DOMAIN st.idx :
       /\ idx[i].base = st.idx[i].base
       /\ \/ idx[i].local = st.idx[i].local
          \/ idx[i].local = st.idx[i].local \o Added(st.schema, i, k, old, l, new)
  /\ made.ok => \A i \in Indexes(st.schema) \cap DOMAIN st.idx :
       /\ idx[i].local = st.idx[i].local \o Added(st.schema, i, k, old, l, new)
       /\ ~Collides(snap, t, st, i, k, old, l, new)
  /\ new = Absent => made.ok

LEMMA EditIndexesParts ==
  ASSUME NEW snap, NEW t, NEW st, NEW k, NEW old, NEW l, NEW new, Formed(st)
  PROVE  \E idx : MadeOf(snap, t, st, k, old, l, new,
                         EditIndexes(snap, t, st, k, old, l, new), idx)
<1>m. PICK made : made = EditIndexes(snap, t, st, k, old, l, new)
  OBVIOUS
<1>n. /\ st = [schema |-> st.schema, edits |-> st.edits, rows |-> st.rows, idx |-> st.idx,
               dirty |-> st.dirty, schemaDirty |-> st.schemaDirty]
      /\ st.idx = [i \in DOMAIN st.idx |-> [base |-> st.idx[i].base, local |-> st.idx[i].local]]
  BY DEF Formed
<1> DEFINE order   == st.schema.indexes
           gone(i) == encodeIndexKey(st.schema, i, k, old)
           come(i) == encodeIndexKey(st.schema, i, l, new)
           same(i) == old # Absent /\ new # Absent /\ gone(i) = come(i)
           collides(i) == /\ new # Absent /\ ~same(i)
                          /\ i \in Unique /\ new # Null
                          /\ lookupIndexKey(snap, t, st, i, come(i))
           stops   == {n \in DOMAIN order : collides(order[n])}
           reached == {order[n] : n \in {n \in DOMAIN order : \A m \in stops : n < m}}
           more(i) == (IF old = Absent \/ same(i) THEN <<>>
                       ELSE <<[key |-> gone(i), value |-> Deleted]>>)
                      \o (IF new = Absent \/ (same(i) /\ k = l) THEN <<>>
                          ELSE <<[key |-> come(i), value |-> l]>>)
           add(i)  == [base |-> st.idx[i].base, local |-> st.idx[i].local \o Added(st.schema, i, k, old, l, new)]
           idx     == [i \in DOMAIN st.idx |-> IF i \in reached THEN add(i) ELSE st.idx[i]]
<1>1. \A i : more(i) = Added(st.schema, i, k, old, l, new)
  <2> TAKE i
  <2>1. (old = Absent \/ same(i)) <=> ~Cuts(old, new, gone(i), come(i))
    BY DEF Cuts
  <2>2. (new = Absent \/ (same(i) /\ k = l)) <=> ~Puts(k, old, l, new, gone(i), come(i))
    BY DEF Puts
  <2> QED
    BY <2>1, <2>2 DEF Added
<1>2. \A i : Collides(snap, t, st, i, k, old, l, new) <=> collides(i)
  BY DEF Collides, lookupIndexKey
<1>3. /\ made.ok = (stops = {})
      /\ made.st = IF reached = {} THEN st
                   ELSE [st EXCEPT !.idx = [i \in DOMAIN @ |->
                           IF i \in reached THEN addIndexEdit(@[i], more(i)) ELSE @[i]]]
  BY <1>m DEF EditIndexes
<1>4. \A i \in Indexes(st.schema) : \E n \in DOMAIN order : order[n] = i
  BY DEF Indexes, ToSet
<1>5. stops = {} => \A i \in Indexes(st.schema) : i \in reached /\ ~collides(i)
  <2> HIDE DEF collides
  <2> QED
    BY <1>4
<1>6. (made.ok => stops = {}) /\ (new = Absent => made.ok)
  BY <1>3
<1> HIDE DEF reached, stops, collides, more
<1>7. \A i \in DOMAIN st.idx : addIndexEdit(st.idx[i], more(i)) = add(i)
  <2> TAKE i \in DOMAIN st.idx
  <2>1. PICK b, c, m : b = st.idx[i].base /\ c = st.idx[i].local /\ m = more(i)
    OBVIOUS
  <2>2. PICK o, z : o = st.idx[i] /\ z = c \o m
    OBVIOUS
  <2>3. o = [base |-> b, local |-> c]
    BY <1>n, <2>1, <2>2
  <2>4. [o EXCEPT !.local = z] = [base |-> b, local |-> z]
    BY <2>3
  <2>5. addIndexEdit(o, m) = [o EXCEPT !.local = z]
    BY <2>2, <2>3 DEF addIndexEdit
  <2> QED
    BY <2>1, <2>2, <2>4, <2>5, <1>1
<1>8. DOMAIN idx = DOMAIN st.idx
  OBVIOUS
<1>9. \A i \in DOMAIN st.idx : idx[i] = IF i \in reached THEN add(i) ELSE st.idx[i]
  OBVIOUS
<1>10. \A i \in DOMAIN st.idx : add(i).base = st.idx[i].base
         /\ add(i).local = st.idx[i].local \o Added(st.schema, i, k, old, l, new)
         /\ add(i) = [base |-> add(i).base, local |-> add(i).local]
  OBVIOUS
<1>11. reached = {} => idx = st.idx
  BY <1>n
<1>12. made.st = [schema |-> st.schema, edits |-> st.edits, rows |-> st.rows,
                  idx |-> idx, dirty |-> st.dirty, schemaDirty |-> st.schemaDirty]
  <2>1. CASE reached = {}
    <3>1. made.st = st /\ idx = st.idx
      BY <2>1, <1>3, <1>11
    <3> HIDE DEF idx
    <3> QED
      BY <1>n, <3>1
  <2>2. CASE reached # {}
    <3>1. [i \in DOMAIN st.idx |->
             IF i \in reached THEN addIndexEdit(st.idx[i], more(i)) ELSE st.idx[i]] = idx
      BY <1>7
    <3>2. made.st = [st EXCEPT !.idx = idx]
      BY <2>2, <3>1, <1>3
    <3> HIDE DEF idx
    <3> QED
      BY <1>n, <3>2
  <2> QED
    BY <2>1, <2>2
<1> HIDE DEF idx, add
<1>13. \A i \in DOMAIN st.idx : idx[i] = [base |-> idx[i].base, local |-> idx[i].local]
  BY <1>n, <1>9, <1>10
<1>14. idx = [i \in DOMAIN idx |-> [base |-> idx[i].base, local |-> idx[i].local]]
  <2>1. idx = [i \in DOMAIN idx |-> idx[i]]
    BY DEF idx
  <2> QED
    BY <2>1, <1>8, <1>13
<1>15. \A i \in DOMAIN st.idx :
         /\ idx[i].base = st.idx[i].base
         /\ \/ idx[i].local = st.idx[i].local
            \/ idx[i].local = st.idx[i].local \o Added(st.schema, i, k, old, l, new)
  BY <1>9, <1>10
<1>16. made.ok => \A i \in Indexes(st.schema) \cap DOMAIN st.idx :
         /\ idx[i].local = st.idx[i].local \o Added(st.schema, i, k, old, l, new)
         /\ ~Collides(snap, t, st, i, k, old, l, new)
  BY <1>2, <1>5, <1>6, <1>9, <1>10
<1> QED
  BY <1>m, <1>6, <1>8, <1>12, <1>14, <1>15, <1>16 DEF MadeOf

\* The edits of an operation to an index behind the others, taken apart.
Behind(sch, i, k, old, l, new, local, f) ==
  LET gone == encodeIndexKey(sch, i, k, old)
      come == encodeIndexKey(sch, i, l, new)
  IN  /\ Grown(local, f, {[key |-> gone, value |-> Deleted], [key |-> come, value |-> l]})
      /\ \A n \in DOMAIN f : n > Len(local) =>
           \/ Cuts(old, new, gone, come) /\ f[n].key = gone /\ f[n].value = Deleted
           \/ Puts(k, old, l, new, gone, come) /\ f[n].key = come /\ f[n].value = l
      /\ \A e : e \in DOMAIN Net(f) <=>
           \/ e \in DOMAIN Net(local)
           \/ Cuts(old, new, gone, come) /\ e = gone
           \/ Puts(k, old, l, new, gone, come) /\ e = come
      /\ \A e \in DOMAIN Net(f) :
           Net(f)[e] = IF Puts(k, old, l, new, gone, come) /\ e = come THEN l
                       ELSE IF Cuts(old, new, gone, come) /\ e = gone THEN Deleted
                       ELSE Net(local)[e]

LEMMA AddedParts ==
  ASSUME NEW sch, NEW i, NEW k, NEW old, NEW l, NEW new, NEW local, Tidy(local)
  PROVE  Behind(sch, i, k, old, l, new, local, local \o Added(sch, i, k, old, l, new))
<1>f. PICK f : f = local \o Added(sch, i, k, old, l, new)
  OBVIOUS
<1>g. PICK gone, come : /\ gone = encodeIndexKey(sch, i, k, old)
                        /\ come = encodeIndexKey(sch, i, l, new)
  OBVIOUS
<1>1. PICK c \in BOOLEAN : c <=> Cuts(old, new, gone, come)
  BY DEF Cuts
<1>2. PICK p \in BOOLEAN : p <=> Puts(k, old, l, new, gone, come)
  BY DEF Puts
<1>3. PICK x, y : x = [key |-> gone, value |-> Deleted] /\ y = [key |-> come, value |-> l]
  OBVIOUS
<1>4. f = local \o ((IF c THEN <<x>> ELSE <<>>) \o (IF p THEN <<y>> ELSE <<>>))
  BY <1>f, <1>g, <1>1, <1>2, <1>3 DEF Added
<1>5. x.key = gone /\ x.value = Deleted /\ y.key = come /\ y.value = l
  BY <1>3
<1>6. PICK h : h = IF c THEN Append(local, x) ELSE local
  OBVIOUS
<1>7. /\ Tidy(h) /\ Grown(local, h, IF c THEN {x} ELSE {})
      /\ \A e : e \in DOMAIN Net(h) <=> e \in DOMAIN Net(local) \/ (c /\ e = gone)
      /\ \A e \in DOMAIN Net(h) : Net(h)[e] = IF c /\ e = gone THEN Deleted ELSE Net(local)[e]
  <2>1. CASE c
    <3>1. /\ Tidy(Append(local, x))
          /\ DOMAIN Net(Append(local, x)) = DOMAIN Net(local) \cup {x.key}
          /\ Net(Append(local, x))[x.key] = x.value
          /\ \A e \in DOMAIN Net(local) : e # x.key => Net(Append(local, x))[e] = Net(local)[e]
      BY NetAppend
    <3>2. Grown(local, Append(local, x), {x})
      BY GrownOne
    <3> QED
      BY <2>1, <1>5, <1>6, <3>1, <3>2
  <2>2. CASE ~c
    BY <2>2, <1>6, GrownOne
  <2> QED
    BY <2>1, <2>2
<1>8. f = IF p THEN Append(h, y) ELSE h
  <2>1. /\ local \o (<<>> \o <<>>) = local
        /\ local \o (<<x>> \o <<>>) = Append(local, x)
        /\ local \o (<<>> \o <<y>>) = Append(local, y)
        /\ local \o (<<x>> \o <<y>>) = Append(Append(local, x), y)
    BY ConcatParts DEF Tidy
  <2>2. CASE c /\ p
    BY <1>4, <2>1, <2>2, <1>6
  <2>3. CASE c /\ ~p
    BY <1>4, <2>1, <2>3, <1>6
  <2>4. CASE ~c /\ p
    BY <1>4, <2>1, <2>4, <1>6
  <2>5. CASE ~c /\ ~p
    BY <1>4, <2>1, <2>5, <1>6
  <2> QED
    BY <2>2, <2>3, <2>4, <2>5
<1>9. /\ Grown(h, f, IF p THEN {y} ELSE {})
      /\ \A e : e \in DOMAIN Net(f) <=> e \in DOMAIN Net(h) \/ (p /\ e = come)
      /\ \A e \in DOMAIN Net(f) : Net(f)[e] = IF p /\ e = come THEN l ELSE Net(h)[e]
  <2>1. CASE p
    <3>1. /\ DOMAIN Net(Append(h, y)) = DOMAIN Net(h) \cup {y.key}
          /\ Net(Append(h, y))[y.key] = y.value
          /\ \A e \in DOMAIN Net(h) : e # y.key => Net(Append(h, y))[e] = Net(h)[e]
      BY <1>7, NetAppend
    <3>2. Grown(h, Append(h, y), {y})
      BY <1>7, GrownOne
    <3> QED
      BY <2>1, <1>5, <1>8, <3>1, <3>2
  <2>2. CASE ~p
    BY <2>2, <1>7, <1>8, GrownOne
  <2> QED
    BY <2>1, <2>2
<1>10. Grown(local, f, (IF c THEN {x} ELSE {}) \cup (IF p THEN {y} ELSE {}))
  BY <1>7, <1>9, GrownTwice
<1>11. PICK more : more = (IF c THEN {x} ELSE {}) \cup (IF p THEN {y} ELSE {})
  OBVIOUS
<1>12. Grown(local, f, {x, y})
  <2>1. more \subseteq {x, y}
    BY <1>11
  <2> QED
    BY <1>10, <1>11, <2>1 DEF Grown
<1>13. ASSUME NEW n \in DOMAIN f, n > Len(local)
       PROVE  \/ c /\ f[n].key = gone /\ f[n].value = Deleted
              \/ p /\ f[n].key = come /\ f[n].value = l
  <2>1. f[n] \in more
    BY <1>10, <1>11, <1>13 DEF Grown
  <2> QED
    BY <2>1, <1>5, <1>11
<1>14. \A e : e \in DOMAIN Net(f) <=> e \in DOMAIN Net(local) \/ (c /\ e = gone) \/ (p /\ e = come)
  BY <1>7, <1>9
<1>15. \A e \in DOMAIN Net(f) :
         Net(f)[e] = IF p /\ e = come THEN l ELSE IF c /\ e = gone THEN Deleted ELSE Net(local)[e]
  BY <1>7, <1>9
<1> QED
  BY <1>f, <1>g, <1>1, <1>2, <1>3, <1>12, <1>13, <1>14, <1>15 DEF Behind

\* An operation of which both keys are edited.
Editable(sch, i, k, l, local, edits, edits2) ==
  /\ k \in Keys /\ l \in Keys /\ Tidy(local) /\ Own(sch, i, edits, local)
  /\ \A m \in Keys : edits[m] # NoEdit \/ m \in {k, l} => edits2[m] # NoEdit

\* Its index edits are of rows it edited.
LEMMA EditKeepsOwn ==
  ASSUME NEW sch, NEW i, NEW k, NEW old, NEW l, NEW new, NEW local, NEW edits, NEW edits2,
         Editable(sch, i, k, l, local, edits, edits2)
  PROVE  LET f == local \o Added(sch, i, k, old, l, new)
         IN  Tidy(f) /\ Own(sch, i, edits2, f)
<1>f. PICK f : f = local \o Added(sch, i, k, old, l, new)
  OBVIOUS
<1>a. /\ k \in Keys /\ l \in Keys /\ Tidy(local) /\ Own(sch, i, edits, local)
      /\ \A m \in Keys : edits[m] # NoEdit => edits2[m] # NoEdit
      /\ edits2[k] # NoEdit /\ edits2[l] # NoEdit
  BY DEF Editable
<1>1. PICK gone, come : /\ gone = encodeIndexKey(sch, i, k, old)
                        /\ come = encodeIndexKey(sch, i, l, new)
  OBVIOUS
<1>2. /\ Tidy(f) /\ Len(local) \in Nat /\ Len(f) \in Nat
      /\ DOMAIN f = 1..Len(f) /\ DOMAIN local = 1..Len(local)
      /\ \A n \in 1..Len(local) : f[n] = local[n]
      /\ \A n \in DOMAIN f : n > Len(local) =>
           \/ f[n].key = gone /\ f[n].value = Deleted
           \/ f[n].key = come /\ f[n].value = l
  <2>1. Behind(sch, i, k, old, l, new, local, f)
    BY <1>a, <1>f, AddedParts
  <2> QED
    BY <1>1, <2>1 DEF Behind, Grown
<1>3. /\ gone = encodeIndexKey(sch, i, k, gone[2])
      /\ come = encodeIndexKey(sch, i, l, come[2])
  BY <1>1, EncodeParts
<1>4. ASSUME NEW n \in DOMAIN f
      PROVE  \E m \in Keys : /\ edits2[m] # NoEdit
                             /\ f[n].key = encodeIndexKey(sch, i, m, f[n].key[2])
                             /\ f[n].value \in {m, Deleted}
  <2>1. CASE n <= Len(local)
    BY <1>a, <2>1, <1>2, <1>4 DEF Own
  <2>2. CASE n > Len(local) /\ f[n].key = gone /\ f[n].value = Deleted
    BY <1>a, <2>2, <1>3
  <2>3. CASE n > Len(local) /\ f[n].key = come /\ f[n].value = l
    BY <1>a, <2>3, <1>3
  <2> QED
    BY <2>1, <2>2, <2>3, <1>2
<1> QED
  BY <1>f, <1>2, <1>4 DEF Own

\* An operation on an index that is exact: of base over the rows B of the snapshot,
\* with the transaction's edits over the rows R, which become the rows S.
Operable(sch, i, k, old, l, new, tree, base, local, B, R, S) ==
  /\ k \in Keys /\ l \in Keys /\ Tidy(local)
  /\ ~Duplicate(sch, i, B) /\ ~Duplicate(sch, i, R)
  /\ Applied(tree, base) = IndexOf(sch, i, B)
  /\ Applied(tree, With(base, local)) = IndexOf(sch, i, R)
  /\ Backed(sch, i, B, local)
  /\ R[k] = old /\ (k = l \/ R[l] = Absent)
  /\ \A m \in Keys : S[m] = IF m = l THEN new ELSE IF m = k THEN Absent ELSE R[m]
  /\ LET gone == encodeIndexKey(sch, i, k, old)
         come == encodeIndexKey(sch, i, l, new)
     IN  new # Absent /\ ~(old # Absent /\ gone = come) /\ i \in Unique /\ new # Null =>
           come \notin DOMAIN Applied(tree, With(base, local))

\* It stays exact, and its deletes stay backed.
LEMMA EditKeepsIndex ==
  ASSUME NEW sch, NEW i, NEW k, NEW old, NEW l, NEW new,
         NEW tree, NEW base, NEW local, NEW B, NEW R, NEW S,
         Operable(sch, i, k, old, l, new, tree, base, local, B, R, S)
  PROVE  LET f == local \o Added(sch, i, k, old, l, new)
         IN  /\ ~Duplicate(sch, i, S)
             /\ Applied(tree, With(base, f)) = IndexOf(sch, i, S)
             /\ Backed(sch, i, B, f)
<1>f. PICK f : f = local \o Added(sch, i, k, old, l, new)
  OBVIOUS
<1>g. PICK gone, come : /\ gone = encodeIndexKey(sch, i, k, old)
                        /\ come = encodeIndexKey(sch, i, l, new)
  OBVIOUS
<1>a. /\ k \in Keys /\ l \in Keys /\ Tidy(local)
      /\ ~Duplicate(sch, i, B) /\ ~Duplicate(sch, i, R)
      /\ Applied(tree, base) = IndexOf(sch, i, B)
      /\ Applied(tree, With(base, local)) = IndexOf(sch, i, R)
      /\ Backed(sch, i, B, local)
      /\ R[k] = old /\ (k = l \/ R[l] = Absent)
      /\ \A m \in Keys : S[m] = IF m = l THEN new ELSE IF m = k THEN Absent ELSE R[m]
      /\ new # Absent /\ ~(old # Absent /\ gone = come) /\ i \in Unique /\ new # Null =>
           come \notin DOMAIN Applied(tree, With(base, local))
  BY <1>g DEF Operable
<1>1. \A e, m : Maps(Applied(tree, With(base, local)), e, m) <=> Has(sch, i, R, m, e)
  BY <1>a, IndexMaps
<1>2. \A e, m : Maps(Applied(tree, base), e, m) <=> Has(sch, i, B, m, e)
  BY <1>a, IndexMaps
<1>3. new # Absent /\ ~(old # Absent /\ gone = come) /\ i \in Unique /\ new # Null =>
        \A m : ~Has(sch, i, R, m, come)
  BY <1>a, <1>1 DEF Maps
<1>4. /\ ~Duplicate(sch, i, S)
      /\ \A e, m : Has(sch, i, S, m, e) <=>
           IF Puts(k, old, l, new, gone, come) /\ e = come THEN m = l
           ELSE ~(Cuts(old, new, gone, come) /\ e = gone) /\ Has(sch, i, R, m, e)
  BY <1>a, <1>g, <1>3, EditOne
<1>5. /\ Grown(local, f, {[key |-> gone, value |-> Deleted], [key |-> come, value |-> l]})
      /\ \A n \in DOMAIN f : n > Len(local) =>
           \/ Cuts(old, new, gone, come) /\ f[n].key = gone /\ f[n].value = Deleted
           \/ Puts(k, old, l, new, gone, come) /\ f[n].key = come /\ f[n].value = l
      /\ \A e : e \in DOMAIN Net(f) <=>
           \/ e \in DOMAIN Net(local)
           \/ Cuts(old, new, gone, come) /\ e = gone
           \/ Puts(k, old, l, new, gone, come) /\ e = come
      /\ \A e \in DOMAIN Net(f) :
           Net(f)[e] = IF Puts(k, old, l, new, gone, come) /\ e = come THEN l
                       ELSE IF Cuts(old, new, gone, come) /\ e = gone THEN Deleted
                       ELSE Net(local)[e]
  <2>1. Behind(sch, i, k, old, l, new, local, f)
    BY <1>a, <1>f, AddedParts
  <2> QED
    BY <1>g, <2>1 DEF Behind
<1>6. l # Deleted
  BY <1>a, IndexAssumption
<1>7. ASSUME NEW e, NEW m
      PROVE  Maps(Applied(tree, With(base, f)), e, m) <=> Has(sch, i, S, m, e)
  <2>1. Maps(Applied(tree, With(base, f)), e, m) <=>
          IF e \in DOMAIN Net(f) THEN Net(f)[e] = m /\ m # Deleted
                                 ELSE Maps(Applied(tree, base), e, m)
    BY FoundNet
  <2>2. Has(sch, i, R, m, e) <=>
          IF e \in DOMAIN Net(local) THEN Net(local)[e] = m /\ m # Deleted
                                     ELSE Maps(Applied(tree, base), e, m)
    BY <1>1, FoundNet
  <2>3. CASE Puts(k, old, l, new, gone, come) /\ e = come
    BY <2>1, <2>3, <1>4, <1>5, <1>6
  <2>4. CASE ~(Puts(k, old, l, new, gone, come) /\ e = come)
                /\ Cuts(old, new, gone, come) /\ e = gone
    <3>1. ~Has(sch, i, S, m, e)
      BY <2>4, <1>4
    <3>2. e \in DOMAIN Net(f) /\ Net(f)[e] = Deleted
      BY <2>4, <1>5
    <3> QED
      BY <2>1, <3>1, <3>2
  <2>5. CASE ~(Puts(k, old, l, new, gone, come) /\ e = come)
                /\ ~(Cuts(old, new, gone, come) /\ e = gone)
    <3>1. Has(sch, i, S, m, e) <=> Has(sch, i, R, m, e)
      BY <2>5, <1>4
    <3>2. /\ e \in DOMAIN Net(f) <=> e \in DOMAIN Net(local)
          /\ e \in DOMAIN Net(f) => Net(f)[e] = Net(local)[e]
      BY <2>5, <1>5
    <3> QED
      BY <2>1, <2>2, <3>1, <3>2
  <2> QED
    BY <2>3, <2>4, <2>5
<1>8. Applied(tree, With(base, f)) = IndexOf(sch, i, S)
  BY <1>4, <1>7, AppliedMaps, IsIndex
<1>9. Backed(sch, i, B, f)
  <2> SUFFICES ASSUME NEW n \in DOMAIN f, f[n].value = Deleted
               PROVE  \/ \E m \in DOMAIN f :
                           m < n /\ f[m].key = f[n].key /\ f[m].value # Deleted
                      \/ \E j \in Keys : Has(sch, i, B, j, f[n].key)
    BY DEF Backed
  <2>1. /\ Len(local) \in Nat /\ Len(f) \in Nat /\ Len(local) <= Len(f)
        /\ DOMAIN f = 1..Len(f) /\ DOMAIN local = 1..Len(local)
        /\ \A m \in 1..Len(local) : f[m] = local[m]
    BY <1>5 DEF Grown
  <2>2. CASE n <= Len(local)
    <3>1. n \in DOMAIN local /\ f[n] = local[n]
      BY <2>1, <2>2
    <3>2. \/ \E m \in DOMAIN local :
               m < n /\ local[m].key = local[n].key /\ local[m].value # Deleted
          \/ \E j \in Keys : Has(sch, i, B, j, local[n].key)
      BY <1>a, <3>1 DEF Backed
    <3> QED
      BY <2>1, <3>1, <3>2
  <2>3. CASE n > Len(local)
    <3>1. Cuts(old, new, gone, come) /\ f[n].key = gone
      BY <2>3, <1>5, <1>6
    <3>2. Has(sch, i, R, k, gone)
      BY <1>a, <1>g, <3>1 DEF Has, Cuts
    <3>3. IF gone \in DOMAIN Net(local) THEN Net(local)[gone] = k /\ k # Deleted
                                       ELSE Maps(Applied(tree, base), gone, k)
      BY <3>2, <1>1, FoundNet
    <3>4. CASE gone \in DOMAIN Net(local)
      <4>1. PICK m \in DOMAIN local : local[m].key = gone
        <5>1. DOMAIN Net(local) = {local[m].key : m \in DOMAIN local}
          BY NetParts
        <5> QED
          BY <3>4, <5>1
      <4>2. PICK j \in DOMAIN local : Newest(local, j, gone)
        BY <1>a, <4>1 DEF Tidy
      <4>3. Latest(local, gone) = j
        BY <1>a, <4>2, NewestIsLatest DEF Tidy
      <4>4. local[j].key = gone /\ local[j].value # Deleted
        BY <3>3, <3>4, <4>2, <4>3, NetParts DEF Newest
      <4> QED
        BY <2>1, <2>3, <3>1, <4>4
    <3>5. CASE gone \notin DOMAIN Net(local)
      BY <3>1, <3>3, <3>5, <1>2 DEF Has
    <3> QED
      BY <3>4, <3>5
  <2> QED
    BY <2>1, <2>2, <2>3
<1> QED
  BY <1>f, <1>4, <1>8, <1>9

-----------------------------------------------------------------------------
(* A row operation, for a table.                                            *)

\* The rows over a snapshot, key by key.
LEMMA RowsParts ==
  ASSUME NEW snap, NEW t, NEW edits
  PROVE  /\ Rows(snap, t, edits) = [k \in Keys |-> Rows(snap, t, edits)[k]]
         /\ \A k \in Keys : Rows(snap, t, edits)[k] = Through(snap, t, edits[k], k)
         /\ \A k \in Keys : Rows(snap, t, edits)[k] =
              IF edits[k] # NoEdit THEN edits[k] ELSE Base(snap, t)[k]
         /\ \A k \in Keys : Base(snap, t)[k] =
              IF snap.pending[t][k] = NoEdit THEN snap.disk[t].rows[k] ELSE snap.pending[t][k]
BY DEF Rows, Base, Through, NoEdits

\* Materialized rows and later dirt have no part in a table being good.
LEMMA GoodSame ==
  ASSUME NEW spoilt, NEW snap, NEW t, NEW st, Good(spoilt, snap, t, st), NEW st2,
         st2.schema = st.schema, st2.edits = st.edits, st2.idx = st.idx,
         st2.schemaDirty = st.schemaDirty, st2.dirty \in BOOLEAN, st.dirty => st2.dirty
  PROVE  Good(spoilt, snap, t, st2)
<1>1. Shape(snap, t, st2)
  BY DEF Good, Shape
<1>2. \A i : Entries(snap, t, st2, i) = Entries(snap, t, st, i)
  BY DEF Entries
<1>3. \A i : IndexGood(snap, t, st, i) => IndexGood(snap, t, st2, i)
  BY <1>2 DEF IndexGood
<1>4. Exact(snap, t, st) => Exact(snap, t, st2)
  BY <1>3 DEF Exact
<1> QED
  BY <1>1, <1>4 DEF Good

\* Nor has another table that is spoilt.
LEMMA GoodMore ==
  ASSUME NEW spoilt, NEW more, spoilt \subseteq more,
         NEW snap, NEW t, NEW st, Good(spoilt, snap, t, st)
  PROVE  Good(more, snap, t, st)
BY DEF Good

\* The table behind an operation whose index edits were all made.
Operated(snap, t, st, k, old, l, new, idx, st2) ==
  /\ ~st.schemaDirty /\ DOMAIN st.idx = Indexes(st.schema)
  /\ k \in Keys /\ l \in Keys /\ new \in Cells \cup {Absent}
  /\ old = Rows(snap, t, st.edits)[k] /\ (k = l \/ Rows(snap, t, st.edits)[l] = Absent)
  /\ DOMAIN idx = DOMAIN st.idx
  /\ idx = [i \in DOMAIN idx |-> [base |-> idx[i].base, local |-> idx[i].local]]
  /\ \A i \in DOMAIN idx :
       /\ idx[i].base = st.idx[i].base
       /\ idx[i].local = st.idx[i].local \o Added(st.schema, i, k, old, l, new)
       /\ ~Collides(snap, t, st, i, k, old, l, new)
  /\ st2.schema = st.schema /\ st2.idx = idx /\ st2.schemaDirty = st.schemaDirty
  /\ st2.dirty = TRUE
  /\ \A m \in Keys : st2.edits[m] = IF m = l THEN new ELSE IF m = k THEN Absent ELSE st.edits[m]

LEMMA OpGood ==
  ASSUME NEW spoilt, NEW snap, NEW t, NEW st, Good(spoilt, snap, t, st),
         NEW k, NEW old, NEW l, NEW new, NEW idx, NEW st2,
         Operated(snap, t, st, k, old, l, new, idx, st2)
  PROVE  Good(spoilt, snap, t, st2)
<1> USE DEF Operated
<1>1. new # NoEdit /\ Absent # NoEdit
  BY EditsAreEdits
<1>2. PICK R, S, B : /\ R = Rows(snap, t, st.edits) /\ S = Rows(snap, t, st2.edits)
                     /\ B = Base(snap, t)
  OBVIOUS
<1>3. \A m \in Keys : S[m] = IF m = l THEN new ELSE IF m = k THEN Absent ELSE R[m]
  <2>1. /\ \A m \in Keys : R[m] = IF st.edits[m] # NoEdit THEN st.edits[m] ELSE B[m]
        /\ \A m \in Keys : S[m] = IF st2.edits[m] # NoEdit THEN st2.edits[m] ELSE B[m]
    BY <1>2, RowsParts
  <2> QED
    BY <1>1, <2>1
<1>4. ASSUME NEW i \in DOMAIN idx
      PROVE  Tidy(idx[i].local) /\ Own(st.schema, i, st2.edits, idx[i].local)
  <2>1. Tidy(st.idx[i].local) /\ Own(st.schema, i, st.edits, st.idx[i].local)
    BY DEF Good, Shape
  <2>2. /\ \A m \in Keys : st.edits[m] # NoEdit => st2.edits[m] # NoEdit
        /\ st2.edits[k] # NoEdit /\ st2.edits[l] # NoEdit
    BY <1>1
  <2>3. PICK f : f = idx[i].local
    OBVIOUS
  <2>4. Tidy(f) /\ Own(st.schema, i, st2.edits, f)
    <3>1. Editable(st.schema, i, k, l, st.idx[i].local, st.edits, st2.edits)
      BY <2>1, <2>2 DEF Editable
    <3>2. f = st.idx[i].local \o Added(st.schema, i, k, old, l, new)
      BY <2>3
    <3> QED
      BY <3>1, <3>2, EditKeepsOwn
  <2> QED
    BY <2>3, <2>4
<1>5. Shape(snap, t, st2)
  BY <1>4 DEF Good, Shape
<1>6. ASSUME t \notin spoilt /\ ~Recoded(snap.disk, st2.schema, t)
      PROVE  Exact(snap, t, st2)
  <2>1. Exact(snap, t, st)
    BY <1>6 DEF Good
  <2>2. ASSUME NEW i \in DOMAIN idx
        PROVE  ~Duplicate(st.schema, i, S) /\ IndexGood(snap, t, st2, i)
    <3>1. PICK sch, tree, base, local, f, gone, come :
            /\ sch = st.schema /\ tree = Tree(snap, t, i) /\ base = st.idx[i].base
            /\ local = st.idx[i].local /\ f = idx[i].local
            /\ gone = encodeIndexKey(sch, i, k, old) /\ come = encodeIndexKey(sch, i, l, new)
      OBVIOUS
    <3>2. ~Duplicate(sch, i, B) /\ ~Duplicate(sch, i, R)
      BY <1>2, <2>1, <3>1 DEF Exact, NoDuplicates
    <3>3. IndexGood(snap, t, st, i)
      BY <2>1 DEF Exact
    <3>4. /\ Applied(tree, base) = IndexOf(sch, i, B)
          /\ Applied(tree, With(base, local)) = IndexOf(sch, i, R)
          /\ Backed(sch, i, B, local)
      BY <1>2, <3>1, <3>3 DEF IndexGood, Entries, View
    <3>5. Tidy(local)
      BY <3>1 DEF Good, Shape
    <3>6. R[k] = old /\ (k = l \/ R[l] = Absent)
      BY <1>2
    <3>7. new # Absent /\ ~(old # Absent /\ gone = come) /\ i \in Unique /\ new # Null =>
            come \notin DOMAIN Applied(tree, With(base, local))
      BY <3>1 DEF Collides, Entries, View
    <3>8. f = local \o Added(sch, i, k, old, l, new)
      BY <3>1
    <3>9. /\ ~Duplicate(sch, i, S)
          /\ Applied(tree, With(base, f)) = IndexOf(sch, i, S)
          /\ Backed(sch, i, B, f)
      <4>1. Operable(sch, i, k, old, l, new, tree, base, local, B, R, S)
        BY <1>3, <3>1, <3>2, <3>4, <3>5, <3>6, <3>7 DEF Operable
      <4> QED
        BY <3>8, <4>1, EditKeepsIndex
    <3>10. IndexGood(snap, t, st2, i)
      BY <1>2, <3>1, <3>4, <3>9 DEF IndexGood, Entries, View
    <3> QED
      BY <3>1, <3>9, <3>10
  <2> QED
    BY <1>2, <2>1, <2>2 DEF Exact, NoDuplicates
<1> QED
  BY <1>5, <1>6 DEF Good

\* The edit a key had when the statement began.
FirstEdit(stmt, edits, k) ==
  IF k \in DOMAIN stmt.before THEN stmt.before[k].edit ELSE edits[k]

\* What DiscardChanges makes of a table.
LEMMA UndoneParts ==
  ASSUME NEW st, NEW stmt, Formed(st)
  PROVE  LET back == Undone(st, stmt) IN
         /\ back.schema = st.schema /\ back.dirty = st.dirty /\ back.schemaDirty = st.schemaDirty
         /\ back.edits = [k \in Keys |-> FirstEdit(stmt, st.edits, k)]
         /\ back.idx = [i \in DOMAIN st.idx |->
                          [base |-> st.idx[i].base,
                           local |-> SubSeq(st.idx[i].local, 1, stmt.lens[i])]]
<1> DEFINE touched == DOMAIN stmt.before
           edits == [k \in Keys |-> IF k \in touched THEN stmt.before[k].edit ELSE st.edits[k]]
           cut(i) == SubSeq(st.idx[i].local, 1, stmt.lens[i])
           idx == [i \in DOMAIN st.idx |-> Truncated(st.idx[i], stmt.lens[i])]
           idx2 == [i \in DOMAIN st.idx |-> [base |-> st.idx[i].base, local |-> cut(i)]]
           rows == IF st.rows = Nil THEN Nil
                   ELSE [k \in Keys |-> IF k \in touched THEN stmt.before[k].row ELSE st.rows[k]]
<1>b. PICK back : back = Undone(st, stmt)
  OBVIOUS
<1>1. back = [st EXCEPT !.edits = edits, !.rows = rows, !.idx = idx]
  BY <1>b DEF Undone
<1>2. ASSUME NEW i \in DOMAIN st.idx
      PROVE  Truncated(st.idx[i], stmt.lens[i]) = [base |-> st.idx[i].base, local |-> cut(i)]
  <2>1. PICK o, c, b, m : o = st.idx[i] /\ c = cut(i) /\ b = st.idx[i].base /\ m = st.idx[i].local
    OBVIOUS
  <2> HIDE DEF cut
  <2>2. o = [base |-> b, local |-> m]
    BY <2>1 DEF Formed
  <2>3. [o EXCEPT !.local = c] = [base |-> b, local |-> c]
    BY <2>2
  <2>4. Truncated(o, stmt.lens[i]) = [o EXCEPT !.local = c]
    BY <2>1, <2>2 DEF Truncated, cut
  <2> QED
    BY <2>1, <2>3, <2>4
<1>3. idx = idx2
  BY <1>2
<1> HIDE DEF edits, rows, idx, idx2
<1>4. back = [schema |-> st.schema, edits |-> edits, rows |-> rows, idx |-> idx,
              dirty |-> st.dirty, schemaDirty |-> st.schemaDirty]
  BY <1>1 DEF Formed
<1>5. /\ back.edits = edits /\ back.schemaDirty = st.schemaDirty
      /\ back.schema = st.schema /\ back.idx = idx /\ back.dirty = st.dirty
  BY <1>4
<1> QED
  BY <1>b, <1>3, <1>5 DEF edits, idx2, FirstEdit

-----------------------------------------------------------------------------
(* A row operation and the undo of its statement.                           *)

\* editor.remember changes neither.
LEMMA RememberParts ==
  ASSUME NEW stmt, StmtShape(stmt), NEW st, NEW k \in Keys, NEW row
  PROVE  LET kept == remember(stmt, st, k, row)
         IN  /\ kept = [table |-> stmt.table, failed |-> stmt.failed, before |-> kept.before,
                        lens |-> stmt.lens, seen |-> stmt.seen]
             /\ DOMAIN kept.before = DOMAIN stmt.before \cup {k}
             /\ \A m : FirstEdit(kept, st.edits, m) = FirstEdit(stmt, st.edits, m)
<1>1. PICK kept : kept = remember(stmt, st, k, row)
  OBVIOUS
<1>2. CASE k \in DOMAIN stmt.before
  <2>1. kept = stmt
    BY <1>1, <1>2 DEF remember
  <2>2. DOMAIN kept.before = DOMAIN stmt.before \cup {k}
    BY <1>2, <2>1
  <2> QED
    BY <1>1, <2>1, <2>2 DEF StmtShape
<1>3. CASE k \notin DOMAIN stmt.before
  <2> DEFINE before == [l \in DOMAIN stmt.before \cup {k} |->
                          IF l = k THEN [row |-> row, edit |-> st.edits[k]] ELSE stmt.before[l]]
  <2>1. kept = [stmt EXCEPT !.before = before]
    BY <1>1, <1>3 DEF remember
  <2>2. DOMAIN before = DOMAIN stmt.before \cup {k}
    OBVIOUS
  <2>3. before[k].edit = st.edits[k]
    OBVIOUS
  <2>4. \A l \in DOMAIN stmt.before : before[l] = stmt.before[l]
    BY <1>3
  <2> HIDE DEF before
  <2>5. kept = [table |-> stmt.table, failed |-> stmt.failed, before |-> before,
                lens |-> stmt.lens, seen |-> stmt.seen]
    BY <2>1 DEF StmtShape
  <2>6. kept.before = before
    BY <2>5
  <2>7. \A m : FirstEdit(kept, st.edits, m) = FirstEdit(stmt, st.edits, m)
    BY <1>3, <2>2, <2>3, <2>4, <2>6 DEF FirstEdit
  <2> QED
    BY <1>1, <2>2, <2>5, <2>6, <2>7
<1> QED
  BY <1>2, <1>3

\* setEdit sets one edit.
LEMMA SetEditParts ==
  ASSUME NEW st, Formed(st), NEW k \in Keys, NEW v
  PROVE  LET new == setEdit(st, k, v)
         IN  /\ Formed(new)
             /\ new.schema = st.schema /\ new.idx = st.idx
             /\ new.dirty = st.dirty /\ new.schemaDirty = st.schemaDirty
             /\ \A m \in Keys : new.edits[m] = IF m = k THEN v ELSE st.edits[m]
<1> DEFINE new == setEdit(st, k, v)
           edits == [st.edits EXCEPT ![k] = v]
           rows == IF st.rows = Nil THEN Nil ELSE [st.rows EXCEPT ![k] = v]
<1>1. st = [schema |-> st.schema, edits |-> st.edits, rows |-> st.rows, idx |-> st.idx,
            dirty |-> st.dirty, schemaDirty |-> st.schemaDirty]
  BY DEF Formed
<1>2. new = [st EXCEPT !.edits = edits, !.rows = rows]
  BY <1>1 DEF setEdit
<1>3. edits = [m \in Keys |-> IF m = k THEN v ELSE st.edits[m]]
  BY DEF Formed
<1> HIDE DEF new, edits, rows
<1>4. new = [schema |-> st.schema, edits |-> edits, rows |-> rows, idx |-> st.idx,
             dirty |-> st.dirty, schemaDirty |-> st.schemaDirty]
  BY <1>1, <1>2
<1>5. /\ new.edits = edits /\ new.rows = rows /\ new.schemaDirty = st.schemaDirty
      /\ new.schema = st.schema /\ new.idx = st.idx /\ new.dirty = st.dirty
  BY <1>4
<1>6. edits = [m \in Keys |-> edits[m]] /\ \A m \in Keys : edits[m] = IF m = k THEN v ELSE st.edits[m]
  BY <1>3
<1>7. Formed(new)
  BY <1>4, <1>5, <1>6 DEF Formed
<1> QED
  BY <1>5, <1>6, <1>7 DEF new

\* The step from a table and a statement to others with the same beginning.
Rewinds(st, stmt, st2, stmt2) ==
  /\ Formed(st) /\ Formed(st2)
  /\ st2.schema = st.schema /\ st2.schemaDirty = st.schemaDirty
  /\ st2.dirty \in BOOLEAN /\ (st.dirty => st2.dirty)
  /\ stmt2.table = stmt.table /\ stmt2.lens = stmt.lens /\ stmt2.failed \in BOOLEAN
  /\ DOMAIN st2.idx = DOMAIN st.idx
  /\ \A i \in DOMAIN st.idx :
       /\ st2.idx[i].base = st.idx[i].base
       /\ Len(st2.idx[i].local) \in Nat /\ Len(st.idx[i].local) \in Nat
       /\ Len(st.idx[i].local) <= Len(st2.idx[i].local)
       /\ \A n \in 0..Len(st.idx[i].local) :
            SubSeq(st2.idx[i].local, 1, n) = SubSeq(st.idx[i].local, 1, n)
  /\ \A k \in Keys : FirstEdit(stmt2, st2.edits, k) = FirstEdit(stmt, st.edits, k)

\* It does not change what DiscardChanges gives back.
LEMMA RewindGood ==
  ASSUME NEW spoilt, NEW snap, NEW st, NEW stmt, StmtGood(spoilt, snap, st, stmt), ~stmt.failed,
         NEW st2, NEW stmt2, Rewinds(st, stmt, st2, stmt2)
  PROVE  StmtGood(spoilt, snap, st2, stmt2)
<1>1. PICK back, back2 : back = Undone(st, stmt) /\ back2 = Undone(st2, stmt2)
  OBVIOUS
<1>2. /\ back.schema = st.schema /\ back.dirty = st.dirty /\ back.schemaDirty = st.schemaDirty
      /\ back.edits = [k \in Keys |-> FirstEdit(stmt, st.edits, k)]
      /\ back.idx = [i \in DOMAIN st.idx |->
                       [base |-> st.idx[i].base,
                        local |-> SubSeq(st.idx[i].local, 1, stmt.lens[i])]]
  BY <1>1, UndoneParts DEF Rewinds
<1>3. /\ back2.schema = st2.schema /\ back2.dirty = st2.dirty
      /\ back2.schemaDirty = st2.schemaDirty
      /\ back2.edits = [k \in Keys |-> FirstEdit(stmt2, st2.edits, k)]
      /\ back2.idx = [i \in DOMAIN st2.idx |->
                        [base |-> st2.idx[i].base,
                         local |-> SubSeq(st2.idx[i].local, 1, stmt2.lens[i])]]
  BY <1>1, UndoneParts DEF Rewinds
<1>4. \A i \in DOMAIN st.idx : stmt.lens[i] \in 0..Len(st.idx[i].local)
  BY DEF StmtGood
<1>5. back2.edits = back.edits
  BY <1>2, <1>3 DEF Rewinds
<1>6. back2.idx = back.idx
  <2>1. \A i \in DOMAIN st.idx :
          /\ st2.idx[i].base = st.idx[i].base
          /\ SubSeq(st2.idx[i].local, 1, stmt2.lens[i]) = SubSeq(st.idx[i].local, 1, stmt.lens[i])
    BY <1>4 DEF Rewinds
  <2>2. DOMAIN st2.idx = DOMAIN st.idx
    BY DEF Rewinds
  <2> QED
    BY <1>2, <1>3, <2>1, <2>2
<1>7. Good(spoilt, snap, stmt.table, back2)
  <2>1. Good(spoilt, snap, stmt.table, back)
    BY <1>1 DEF StmtGood
  <2>2. /\ back2.schema = back.schema /\ back2.schemaDirty = back.schemaDirty
        /\ back2.dirty \in BOOLEAN /\ (back.dirty => back2.dirty)
    BY <1>2, <1>3 DEF Rewinds
  <2> QED
    BY <2>1, <2>2, <1>5, <1>6, GoodSame
<1>8. \A i \in DOMAIN st2.idx : stmt2.lens[i] \in 0..Len(st2.idx[i].local)
  BY <1>4 DEF Rewinds
<1>9. DOMAIN st2.idx = Indexes(st2.schema)
  BY DEF Rewinds, StmtGood
<1> QED
  BY <1>1, <1>7, <1>8, <1>9 DEF StmtGood, Rewinds

=============================================================================
