----------------------------- MODULE SyncProofs -----------------------------
(* Proofs about Sync, for every set of clones, remotes and processes and every
   bound. *)
EXTENDS Sync, TLAPS, WellFoundedInduction

-----------------------------------------------------------------------------
(* The inductive invariant, in parts that are inductive together.           *)

Trees == [Tables -> TableVersions \cup {NoTable}]

Commit == [parents : SUBSET Nat, tree : Trees, base : Nat, decided : SUBSET Cells,
           anc : SUBSET Nat]

Journals == [base : Nat, tree : Trees]

Decisions == UNION {[ids -> Sides] : ids \in SUBSET Cells}

ConflictSets == [base : Nat, local : Nat, remote : Nat, found : SUBSET Cells, choices : Decisions]

\* A process in SyncWithOptions, and one in Resolve.
Syncing ==
  [pc : {"attempt", "fetch", "compare", "forward", "publish", "check", "push", "clear"},
   clone : Clones, remote : Remotes, checkpoint : BOOLEAN, attempt : 1..maxAttempts,
   local : Nat, remoteHead : Nat, base : Nat, tree : Trees \cup {Nil}, decided : SUBSET Cells]

Resolving == [pc : {"resolve"}, clone : Clones, remote : Remotes, set : ConflictSets]

Shape ==
  /\ commits \in Seq(Commit)
  /\ local \in [Clones -> Nat] /\ remote \in [Remotes -> Nat]
  /\ work \in [Clones -> Journals \cup {Nil}]
  /\ conflicts \in [Clones -> [Remotes -> ConflictSets \cup {Nil}]]
  /\ sync \in [Procs -> Syncing \cup Resolving \cup {Nil}]
  /\ edits \in 0..MaxEdits /\ faults \in 0..MaxFaults

\* A commit descends from itself and from all that its ancestors descend from.
Graph ==
  \A n \in DOMAIN commits :
    /\ n \in Anc(n) /\ Anc(n) \subseteq 1..n
    /\ \A m \in Anc(n) : Anc(m) \subseteq Anc(n)
    /\ commits[n].parents \subseteq 1..(n - 1)

\* A cell of a snapshot that is not a commit yet.
CellOf(tree, x) ==
  IF tree[x[1]] = NoTable THEN Absent
  ELSE IF Len(x) = 1 THEN tree[x[1]].schema ELSE tree[x[1]].rows[x[2]]

\* The merge rule of one cell, without a choice.
ThreeWay(b, l, r, m) == \/ l = r /\ m = l
                        \/ l = b /\ m = r
                        \/ r = b /\ m = l

Decides(decided, x) == <<x[1]>> \in decided \/ x \in decided

\* What the merge of two snapshots over a third holds.
MergeOf(m, b, l, r, decided) ==
  \A x \in Cells :
    /\ CellOf(m, x) \in {CellOf(b, x), CellOf(l, x), CellOf(r, x), Absent}
    /\ ~Decides(decided, x) => ThreeWay(CellOf(b, x), CellOf(l, x), CellOf(r, x), CellOf(m, x))

UniqueTree(tree) == \A t \in Tables : UniqueTable(tree[t])

\* A merge that is ready to be published is one of commits that exist, over a
\* common ancestor.
Merging(s) ==
  /\ s.local # s.remoteHead /\ s.remoteHead \in DOMAIN commits
  /\ s.base \in Anc(s.local) /\ s.base \in Anc(s.remoteHead)
  /\ s.tree \in Trees /\ UniqueTree(s.tree)
  /\ MergeOf(s.tree, Tree(s.base), Tree(s.local), Tree(s.remoteHead), s.decided)

\* What a sync found is still so: histories only grow.
SyncKnows(s) ==
  /\ s.pc \in {"fetch", "compare", "forward", "publish", "check", "push"} =>
       s.local \in DOMAIN commits
  /\ s.pc = "compare" => s.remoteHead \in 0..Len(commits)
  /\ s.pc = "forward" => s.remoteHead \in DOMAIN commits /\ s.local \in Anc(s.remoteHead)
  /\ s.pc = "publish" => Merging(s)

\* Heads are commits; nobody works in a clone without one; journals are based on
\* it.
HeadsExist ==
  /\ \A c \in Clones : local[c] \in 0..Len(commits)
  /\ \A r \in Remotes : remote[r] \in 0..Len(commits)
  /\ \A c \in Clones : work[c] # Nil => local[c] # 0 /\ work[c].base = local[c]
  /\ \A c \in Clones, r \in Remotes : conflicts[c][r] # Nil => local[c] # 0
  /\ \A p \in Procs : sync[p] # Nil => local[sync[p].clone] # 0

\* Every snapshot, published or not, has unique index keys.
UniqueKeys ==
  /\ \A n \in DOMAIN commits : UniqueTree(Tree(n))
  /\ \A c \in Clones : work[c] # Nil => UniqueTree(work[c].tree)

\* The number of the transaction that wrote the value of a cell.
Stamp(v, x) == IF Len(x) = 1 THEN v ELSE v.by

\* No value is newer than the last transaction.
Numbered(tree) ==
  \A x \in Cells : CellOf(tree, x) # Absent => Stamp(CellOf(tree, x), x) <= edits

\* What a journal wrote is nowhere else.
Fresh(c, x) ==
  LET v == CellOf(work[c].tree, x)
  IN \/ v = Absent
     \/ v = Cell(work[c].base, x)
     \/ /\ \A n \in DOMAIN commits : Cell(n, x) # v
        /\ \A d \in Clones : d # c /\ work[d] # Nil => CellOf(work[d].tree, x) # v

Values ==
  /\ \A n \in DOMAIN commits : Numbered(Tree(n))
  /\ \A c \in Clones : work[c] # Nil => Numbered(work[c].tree) /\ \A x \in Cells : Fresh(c, x)

\* Commit w is an edit that wrote the value it has in cell x.
Wrote(w, x) == IsEdit(w) /\ x \in Settled(w) /\ Cell(w, x) # Absent

\* A value is found only in descendants of the edit that wrote it.
Provenance ==
  \A w, h \in DOMAIN commits : \A x \in Cells :
    Wrote(w, x) /\ Cell(h, x) = Cell(w, x) => w \in Anc(h)

SyncsKnow == \A p \in Procs : sync[p] # Nil => SyncKnows(sync[p])

IInv ==
  /\ Shape /\ Graph /\ HeadsExist /\ SyncsKnow /\ UniqueKeys /\ Values /\ Provenance
  /\ NothingLost

-----------------------------------------------------------------------------
(* Cells, merges and merge bases.                                           *)

\* A cell is a schema or a row.
LEMMA CellKinds ==
  ASSUME NEW x \in Cells
  PROVE  \/ \E t \in Tables : x = <<t>>
         \/ \E t \in Tables, k \in Keys : x = <<t, k>>
  BY DEF Cells

\* A table's schema and each of its rows are cells.
LEMMA CellParts ==
  /\ \A t \in Tables : <<t>> \in Cells
  /\ \A t \in Tables, k \in Keys : <<t, k>> \in Cells
  BY DEF Cells

\* What a tree holds at a schema cell and at a row cell; nothing when it has no such table.
LEMMA CellOfParts ==
  ASSUME NEW tree, NEW t, NEW k
  PROVE  /\ CellOf(tree, <<t>>) = IF tree[t] = NoTable THEN Absent ELSE tree[t].schema
         /\ CellOf(tree, <<t, k>>) = IF tree[t] = NoTable THEN Absent ELSE tree[t].rows[k]
  BY DEF CellOf

\* A commit's cell is its tree's.
LEMMA CellOfCommit ==
  ASSUME NEW c, NEW x
  PROVE  Cell(c, x) = CellOf(Tree(c), x)
  BY DEF Cell, CellOf

\* Cells agree when their tables do.
LEMMA SameTable ==
  ASSUME NEW x \in Cells, NEW tree, NEW other, tree[x[1]] = other[x[1]]
  PROVE  CellOf(tree, x) = CellOf(other, x)
  BY DEF CellOf

\* A row is merged by the three-way rule, or by the choice for it.
LEMMA MergedRowMerges ==
  ASSUME NEW b, NEW l, NEW r, NEW choice
  PROVE  /\ ~RowConflict(b, l, r) => ThreeWay(b, l, r, MergedRow(b, l, r, choice))
         /\ choice \in Sides \cup {""} => MergedRow(b, l, r, choice) \in {b, l, r, Absent}
  BY DEF RowConflict, ThreeWay, MergedRow, Sides

\* The choice made for a conflict is a side, or none.
LEMMA ChoiceType ==
  ASSUME NEW choices \in Decisions, NEW id
  PROVE  Choice(choices, id) \in Sides \cup {""}
<1>1. PICK ids \in SUBSET Cells : choices \in [ids -> Sides]
  BY Zenon DEF Decisions
<1>2. CASE id \in DOMAIN choices
  <2>1. id \in ids
    BY <1>1, <1>2, Zenon
  <2>2. choices[id] \in Sides
    BY <1>1, <2>1, Zenon
  <2> QED
    BY <1>2, <2>2, Zenon DEF Choice
<1>3. CASE id \notin DOMAIN choices
  BY <1>3, Zenon DEF Choice
<1> QED
  BY <1>2, <1>3

\* A table is one side's, or merged row by row.
TableMerges(m, t, b, l, r, choices) ==
  /\ m \in TableVersions \cup {NoTable}
  /\ ~Changed(b, l, r) \/ ~Comparable(b, l, r) => m \in {b, l, r, NoTable}
  /\ ~Changed(b, l, r) => ThreeWay(b, l, r, m)
  /\ Changed(b, l, r) /\ Comparable(b, l, r) =>
       /\ m # NoTable /\ m.schema = l.schema
       /\ \A k \in Keys :
            m.rows[k] = MergedRow(b.rows[k], l.rows[k], r.rows[k], Choice(choices, <<t, k>>))

\* MergedTable is, cell by cell, the three-way merge of its inputs under the choices.
LEMMA MergedTableMerges ==
  ASSUME NEW t \in Tables, NEW b \in TableVersions \cup {NoTable},
         NEW l \in TableVersions \cup {NoTable}, NEW r \in TableVersions \cup {NoTable},
         NEW choices \in Decisions
  PROVE  TableMerges(MergedTable(t, b, l, r, choices), t, b, l, r, choices)
<1> DEFINE m == MergedTable(t, b, l, r, choices)
<1> SUFFICES TableMerges(m, t, b, l, r, choices)
  OBVIOUS
<1> HIDE DEF m
<1>0. Absent \notin TableVersions /\ NoTable \notin TableVersions
  BY SyncAssumption
<1>1. CASE ~Changed(b, l, r) \/ ~Comparable(b, l, r)
  <2> DEFINE v == MergedRow(b, l, r, Choice(choices, <<t>>))
  <2>1. m = IF v = Absent THEN NoTable ELSE v
    BY <1>1 DEF m, MergedTable
  <2>2. v \in {b, l, r, Absent}
    BY ChoiceType, MergedRowMerges
  <2>3. ~Changed(b, l, r) => ThreeWay(b, l, r, v)
    BY MergedRowMerges DEF Changed
  <2> HIDE DEF v
  <2>4. m \in {b, l, r, NoTable} /\ m \in TableVersions \cup {NoTable}
    BY <2>1, <2>2
  <2>5. CASE Absent = NoTable
    BY <1>1, <2>1, <2>2, <2>3, <2>4, <2>5 DEF TableMerges
  <2>6. CASE Absent # NoTable
    <3>1. v = Absent => v \notin {b, l, r}
      BY <1>0, <2>6
    <3>2. ~Changed(b, l, r) => v # Absent
      BY <2>3, <3>1 DEF ThreeWay
    <3> QED
      BY <1>1, <2>1, <2>3, <2>4, <3>2 DEF TableMerges
  <2> QED
    BY <2>5, <2>6
<1>2. CASE Changed(b, l, r) /\ Comparable(b, l, r)
  <2> DEFINE row(k) == MergedRow(b.rows[k], l.rows[k], r.rows[k], Choice(choices, <<t, k>>))
  <2>1. m = [l EXCEPT !.rows = [k \in Keys |-> row(k)]]
    BY <1>2 DEF m, MergedTable
  <2>2. b \in TableVersions /\ l \in TableVersions /\ r \in TableVersions
    BY <1>2 DEF Comparable
  <2>3. \A k \in Keys : row(k) \in {Absent} \cup [by : Nat, key : IndexKeys \cup {Null}]
    <3> TAKE k \in Keys
    <3>1. row(k) \in {b.rows[k], l.rows[k], r.rows[k], Absent}
      BY ChoiceType, MergedRowMerges
    <3> QED
      BY <2>2, <3>1 DEF TableVersions
  <2> HIDE DEF row
  <2>4. /\ m \in TableVersions /\ m.schema = l.schema
        /\ \A k \in Keys : m.rows[k] = row(k)
    BY <2>1, <2>2, <2>3 DEF TableVersions
  <2> QED
    BY <1>0, <1>2, <2>4 DEF row, TableMerges
<1> QED
  BY <1>1, <1>2

\* Whatever the choices are, a merge takes every cell from one of its sides, by the
\* three-way rule unless a conflict about it is decided.
LEMMA MergedSnapshotMerges ==
  ASSUME NEW b \in Trees, NEW l \in Trees, NEW r \in Trees, NEW choices \in Decisions
  PROVE  /\ MergedSnapshot(b, l, r, choices) \in Trees
         /\ MergeOf(MergedSnapshot(b, l, r, choices), b, l, r, Conflicts(b, l, r))
<1> DEFINE m == MergedSnapshot(b, l, r, choices)
<1>1. /\ m = [t \in Tables |-> m[t]]
      /\ \A t \in Tables : m[t] = MergedTable(t, b[t], l[t], r[t], choices)
  BY DEF MergedSnapshot
<1>2. \A t \in Tables : /\ b[t] \in TableVersions \cup {NoTable}
                        /\ l[t] \in TableVersions \cup {NoTable}
                        /\ r[t] \in TableVersions \cup {NoTable}
  BY DEF Trees
<1> HIDE DEF m
<1>0. \A t \in Tables : TableMerges(m[t], t, b[t], l[t], r[t], choices)
  BY <1>1, <1>2, MergedTableMerges
<1>3. m \in Trees
  <2>1. \A t \in Tables : m[t] \in TableVersions \cup {NoTable}
    BY <1>0 DEF TableMerges
  <2> QED
    BY <1>1, <2>1 DEF Trees
<1>4. ASSUME NEW t \in Tables, ~Changed(b[t], l[t], r[t]) \/ ~Comparable(b[t], l[t], r[t]),
             NEW x \in Cells, x[1] = t
      PROVE  /\ CellOf(m, x) \in {CellOf(b, x), CellOf(l, x), CellOf(r, x), Absent}
             /\ ~Decides(Conflicts(b, l, r), x) =>
                  ThreeWay(CellOf(b, x), CellOf(l, x), CellOf(r, x), CellOf(m, x))
  <2>1. m[t] \in {b[t], l[t], r[t], NoTable}
    BY <1>0, <1>4 DEF TableMerges
  <2>2. CellOf(m, x) \in {CellOf(b, x), CellOf(l, x), CellOf(r, x), Absent}
    BY <1>4, <2>1, SameTable DEF CellOf
  <2>3. ASSUME ~Decides(Conflicts(b, l, r), x) PROVE ~Changed(b[t], l[t], r[t])
    BY <1>4, <2>3 DEF Decides, Conflicts
  <2>4. ~Changed(b[t], l[t], r[t]) => ThreeWay(b[t], l[t], r[t], m[t])
    BY <1>0, <1>4 DEF TableMerges
  <2>5. ThreeWay(b[t], l[t], r[t], m[t]) =>
          ThreeWay(CellOf(b, x), CellOf(l, x), CellOf(r, x), CellOf(m, x))
    BY <1>4, SameTable DEF ThreeWay
  <2> QED
    BY <2>2, <2>3, <2>4, <2>5
<1>5. ASSUME NEW t \in Tables, Changed(b[t], l[t], r[t]), Comparable(b[t], l[t], r[t])
      PROVE  /\ CellOf(b, <<t>>) = CellOf(l, <<t>>) /\ CellOf(b, <<t>>) = CellOf(r, <<t>>)
             /\ CellOf(m, <<t>>) = CellOf(l, <<t>>)
             /\ \A k \in Keys :
                  CellOf(m, <<t, k>>) = MergedRow(CellOf(b, <<t, k>>), CellOf(l, <<t, k>>),
                                          CellOf(r, <<t, k>>), Choice(choices, <<t, k>>))
  <2>1. /\ m[t] # NoTable /\ m[t].schema = l[t].schema
        /\ \A k \in Keys :
             m[t].rows[k] = MergedRow(b[t].rows[k], l[t].rows[k], r[t].rows[k],
                                      Choice(choices, <<t, k>>))
    BY <1>0, <1>5 DEF TableMerges
  <2>2. /\ b[t] # NoTable /\ l[t] # NoTable /\ r[t] # NoTable
        /\ b[t].schema = l[t].schema /\ b[t].schema = r[t].schema
    BY <1>5 DEF Comparable
  <2>3. /\ CellOf(b, <<t>>) = b[t].schema /\ CellOf(l, <<t>>) = l[t].schema
        /\ CellOf(r, <<t>>) = r[t].schema /\ CellOf(m, <<t>>) = m[t].schema
    BY <2>1, <2>2, CellOfParts
  <2>4. \A k : /\ CellOf(b, <<t, k>>) = b[t].rows[k] /\ CellOf(l, <<t, k>>) = l[t].rows[k]
               /\ CellOf(r, <<t, k>>) = r[t].rows[k] /\ CellOf(m, <<t, k>>) = m[t].rows[k]
    BY <2>1, <2>2 DEF CellOf
  <2> QED
    BY <2>1, <2>2, <2>3, <2>4
<1>6. ASSUME NEW t \in Tables, Changed(b[t], l[t], r[t]), Comparable(b[t], l[t], r[t]),
             NEW k \in Keys, ~Decides(Conflicts(b, l, r), <<t, k>>)
      PROVE  ~RowConflict(CellOf(b, <<t, k>>), CellOf(l, <<t, k>>), CellOf(r, <<t, k>>))
  <2>1. /\ b[t] # NoTable /\ l[t] # NoTable /\ r[t] # NoTable
    BY <1>6 DEF Comparable
  <2>2. ~RowConflict(b[t].rows[k], l[t].rows[k], r[t].rows[k])
    <3>1. <<t, k>> \in Tables \X Keys /\ <<t, k>> \notin Conflicts(b, l, r)
      BY <1>6 DEF Decides
    <3> QED
      BY <1>6, <3>1 DEF Conflicts
  <2>3. /\ CellOf(b, <<t, k>>) = b[t].rows[k] /\ CellOf(l, <<t, k>>) = l[t].rows[k]
        /\ CellOf(r, <<t, k>>) = r[t].rows[k]
    BY <2>1 DEF CellOf
  <2> QED
    BY <2>2, <2>3
<1>7. ASSUME NEW x \in Cells
      PROVE  /\ CellOf(m, x) \in {CellOf(b, x), CellOf(l, x), CellOf(r, x), Absent}
             /\ ~Decides(Conflicts(b, l, r), x) =>
                  ThreeWay(CellOf(b, x), CellOf(l, x), CellOf(r, x), CellOf(m, x))
  <2>1. CASE \E t \in Tables : x = <<t>>
    <3>1. PICK t \in Tables : x = <<t>>
      BY <2>1
    <3>2. CASE ~Changed(b[t], l[t], r[t]) \/ ~Comparable(b[t], l[t], r[t])
      BY <1>4, <3>1, <3>2
    <3>3. CASE Changed(b[t], l[t], r[t]) /\ Comparable(b[t], l[t], r[t])
      BY <1>5, <3>1, <3>3 DEF ThreeWay
    <3> QED
      BY <3>2, <3>3
  <2>2. CASE \E t \in Tables, k \in Keys : x = <<t, k>>
    <3>1. PICK t \in Tables, k \in Keys : x = <<t, k>>
      BY <2>2
    <3>2. CASE ~Changed(b[t], l[t], r[t]) \/ ~Comparable(b[t], l[t], r[t])
      BY <1>4, <3>1, <3>2
    <3>3. CASE Changed(b[t], l[t], r[t]) /\ Comparable(b[t], l[t], r[t])
      <4>1. CellOf(m, x) = MergedRow(CellOf(b, x), CellOf(l, x), CellOf(r, x),
                                     Choice(choices, <<t, k>>))
        BY <1>5, <3>1, <3>3
      <4>2. CellOf(m, x) \in {CellOf(b, x), CellOf(l, x), CellOf(r, x), Absent}
        BY <4>1, ChoiceType, MergedRowMerges
      <4>3. ~Decides(Conflicts(b, l, r), x) =>
              ~RowConflict(CellOf(b, x), CellOf(l, x), CellOf(r, x))
        BY <1>6, <3>1, <3>3
      <4> QED
        BY <4>1, <4>2, <4>3, MergedRowMerges
    <3> QED
      BY <3>2, <3>3
  <2> QED
    BY <2>1, <2>2, CellKinds
<1> QED
  BY <1>3, <1>7 DEF MergeOf, m

\* The same choices for a merge whose sides change places.
Mirror(choice) ==
  CASE choice = "local" -> "remote" [] choice = "remote" -> "local" [] OTHER -> choice

Mirrored(choices) == [id \in DOMAIN choices |-> Mirror(choices[id])]

\* Rows merge to the same value from either side.
LEMMA RowSymmetric ==
  ASSUME NEW b, NEW l, NEW r, NEW choice \in Sides \cup {""}
  PROVE  /\ MergedRow(b, l, r, choice) = MergedRow(b, r, l, Mirror(choice))
         /\ RowConflict(b, l, r) <=> RowConflict(b, r, l)
<1>1. RowConflict(b, l, r) <=> RowConflict(b, r, l)
  BY DEF RowConflict
<1>2. CASE ~RowConflict(b, l, r)
  BY <1>2 DEF RowConflict, MergedRow
<1>3. CASE RowConflict(b, l, r)
  <2>1. /\ Mirror("local") = "remote" /\ Mirror("remote") = "local" /\ Mirror("base") = "base"
        /\ Mirror("delete") = "delete" /\ Mirror("") = ""
    BY DEF Mirror
  <2>2. \A c : /\ c = "base" => MergedRow(b, l, r, c) = b /\ MergedRow(b, r, l, c) = b
               /\ c = "local" => MergedRow(b, l, r, c) = l /\ MergedRow(b, r, l, c) = r
               /\ c = "remote" => MergedRow(b, l, r, c) = r /\ MergedRow(b, r, l, c) = l
               /\ c \in {"delete", ""} =>
                    MergedRow(b, l, r, c) = Absent /\ MergedRow(b, r, l, c) = Absent
    BY <1>3 DEF RowConflict, MergedRow
  <2> QED
    BY <1>1, <2>1, <2>2 DEF Sides
<1> QED
  BY <1>1, <1>2, <1>3

\* The choice for a conflict, seen from the other side.
LEMMA ChoiceMirrored ==
  ASSUME NEW choices, NEW id
  PROVE  Choice(Mirrored(choices), id) = Mirror(Choice(choices, id))
  BY DEF Choice, Mirrored, Mirror

\* Tables merge to the same version from either side.
LEMMA TableSymmetric ==
  ASSUME NEW t \in Tables, NEW b \in TableVersions \cup {NoTable},
         NEW l \in TableVersions \cup {NoTable}, NEW r \in TableVersions \cup {NoTable},
         NEW choices \in Decisions
  PROVE  /\ MergedTable(t, b, l, r, choices) = MergedTable(t, b, r, l, Mirrored(choices))
         /\ Changed(b, l, r) <=> Changed(b, r, l)
         /\ Comparable(b, l, r) <=> Comparable(b, r, l)
<1>1. /\ Changed(b, l, r) <=> Changed(b, r, l)
      /\ Comparable(b, l, r) <=> Comparable(b, r, l)
  BY DEF Changed, RowConflict, Comparable
<1>2. ASSUME NEW x, NEW y, NEW z, NEW id
      PROVE  MergedRow(x, y, z, Choice(choices, id))
               = MergedRow(x, z, y, Choice(Mirrored(choices), id))
  <2>1. Choice(choices, id) \in Sides \cup {""}
    BY ChoiceType, Zenon
  <2>2. MergedRow(x, y, z, Choice(choices, id)) = MergedRow(x, z, y, Mirror(Choice(choices, id)))
    BY <2>1, RowSymmetric, Zenon
  <2> QED
    BY <2>2, ChoiceMirrored, Zenon
<1>3. CASE ~Changed(b, l, r) \/ ~Comparable(b, l, r)
  BY <1>1, <1>2, <1>3 DEF MergedTable
<1>4. CASE Changed(b, l, r) /\ Comparable(b, l, r)
  <2> DEFINE left == [k \in Keys |-> MergedRow(b.rows[k], l.rows[k], r.rows[k],
                                               Choice(choices, <<t, k>>))]
             right == [k \in Keys |-> MergedRow(b.rows[k], r.rows[k], l.rows[k],
                                                Choice(Mirrored(choices), <<t, k>>))]
  <2>1. left = right
    BY <1>2
  <2>2. /\ MergedTable(t, b, l, r, choices) = [l EXCEPT !.rows = left]
        /\ MergedTable(t, b, r, l, Mirrored(choices)) = [r EXCEPT !.rows = right]
    BY <1>1, <1>4 DEF MergedTable
  <2>3. l \in TableVersions /\ r \in TableVersions /\ l.schema = r.schema
    BY <1>4 DEF Comparable
  <2> HIDE DEF left, right
  <2>4. [l EXCEPT !.rows = left] = [r EXCEPT !.rows = left]
    BY <2>3 DEF TableVersions
  <2> QED
    BY <1>1, <2>1, <2>2, <2>4
<1> QED
  BY <1>1, <1>3, <1>4

\* MergeSnapshots "performs a deterministic, conservative three-way merge" (merge.go): two
\* clones that merge each other's heads over one base, each with its own side as the local
\* one, find the same conflicts, and make the same snapshot if they decide them alike.
THEOREM MergeSymmetric ==
  ASSUME NEW b \in Trees, NEW l \in Trees, NEW r \in Trees, NEW choices \in Decisions
  PROVE  /\ Conflicts(b, l, r) = Conflicts(b, r, l)
         /\ MergedSnapshot(b, l, r, choices) = MergedSnapshot(b, r, l, Mirrored(choices))
<1>1. \A t \in Tables : /\ b[t] \in TableVersions \cup {NoTable}
                        /\ l[t] \in TableVersions \cup {NoTable}
                        /\ r[t] \in TableVersions \cup {NoTable}
  BY DEF Trees
<1>2. ASSUME NEW t \in Tables
      PROVE  /\ MergedTable(t, b[t], l[t], r[t], choices)
                  = MergedTable(t, b[t], r[t], l[t], Mirrored(choices))
             /\ Changed(b[t], l[t], r[t]) <=> Changed(b[t], r[t], l[t])
             /\ Comparable(b[t], l[t], r[t]) <=> Comparable(b[t], r[t], l[t])
  BY <1>1, TableSymmetric
<1>3. \A x, y, z : RowConflict(x, y, z) <=> RowConflict(x, z, y)
  BY DEF RowConflict
<1>4. Conflicts(b, l, r) = Conflicts(b, r, l)
  BY <1>2, <1>3 DEF Conflicts
<1> QED
  BY <1>2, <1>4 DEF MergedSnapshot

\* A merge that is not Invalid and whose conflicts are decided has unique keys,
\* when its sides have.
LEMMA MergedSnapshotUnique ==
  ASSUME NEW b \in Trees, NEW l \in Trees, NEW r \in Trees, NEW choices \in Decisions,
         UniqueTree(b), UniqueTree(l), UniqueTree(r),
         ~Invalid(b, l, r, choices), Conflicts(b, l, r) \subseteq DOMAIN choices
  PROVE  UniqueTree(MergedSnapshot(b, l, r, choices))
<1> SUFFICES ASSUME NEW t \in Tables
             PROVE  UniqueTable(MergedTable(t, b[t], l[t], r[t], choices))
  BY DEF UniqueTree, MergedSnapshot
<1>1. CASE ~Changed(b[t], l[t], r[t]) \/ ~Comparable(b[t], l[t], r[t])
  <2>1. MergedTable(t, b[t], l[t], r[t], choices) \in {b[t], l[t], r[t], NoTable}
    BY <1>1, MergedTableMerges DEF Trees, TableMerges
  <2>2. UniqueTable(b[t]) /\ UniqueTable(l[t]) /\ UniqueTable(r[t])
    BY DEF UniqueTree
  <2>3. UniqueTable(NoTable)
    BY DEF UniqueTable
  <2> QED
    BY <2>1, <2>2, <2>3
<1>2. CASE Changed(b[t], l[t], r[t]) /\ Comparable(b[t], l[t], r[t])
  BY <1>2 DEF Invalid
<1> QED
  BY <1>1, <1>2

\* Sync merges over one of the merge bases.
LEMMA LeastElement ==
  ASSUME NEW S \in SUBSET Nat, S # {}
  PROVE  Min(S) \in S
<1>1. \E x \in S : \A y \in S : ~(<<y, x>> \in OpToRel(<, Nat))
  BY NatLessThanWellFounded, WFMin
<1>2. ASSUME NEW x \in Nat, NEW y \in Nat, ~(<<y, x>> \in OpToRel(<, Nat)) PROVE ~(y < x)
  BY <1>2, Zenon DEF OpToRel
<1>3. PICK x \in S : \A y \in S : ~(<<y, x>> \in OpToRel(<, Nat))
  BY <1>1, Zenon
<1>4. \A y \in S : ~(y < x)
  BY <1>2, <1>3, Zenon
<1>5. \E z \in S : \A y \in S : z =< y
  BY <1>4
<1> QED
  BY <1>5 DEF Min

-----------------------------------------------------------------------------
(* Types.                                                                   *)

\* A sync attempt within the limit is a sync record about to start.
LEMMA AttemptType ==
  ASSUME NEW c \in Clones, NEW r \in Remotes, NEW checkpoint \in BOOLEAN,
         NEW n \in 1..maxAttempts
  PROVE  /\ Attempt(c, r, checkpoint, n) \in Syncing
         /\ Attempt(c, r, checkpoint, n).pc = "attempt"
         /\ Attempt(c, r, checkpoint, n).clone = c
  BY DEF Attempt, Syncing, maxAttempts

\* A process at a step of sync holds a sync record at that step.
LEMMA SyncingAt ==
  ASSUME Shape, NEW p \in Procs, NEW pc, pc # "resolve", At(p, pc)
  PROVE  sync[p] \in Syncing /\ sync[p].pc = pc /\ sync[p] # Nil
  BY DEF Shape, At, Resolving

\* A process at the resolve step holds a resolution.
LEMMA ResolvingAt ==
  ASSUME Shape, NEW p \in Procs, At(p, "resolve")
  PROVE  sync[p] \in Resolving /\ sync[p] # Nil
  BY DEF Shape, At, Syncing

\* What a turn that is over leaves: nothing, or the next turn.
LEMMA RetryReturns ==
  ASSUME Shape, NEW p \in Procs, sync[p] \in Syncing, Retry(p) \/ Return(p) \/ Dirty(p)
  PROVE  \E s \in Syncing \cup {Nil} :
           /\ sync' = [sync EXCEPT ![p] = s]
           /\ s # Nil => s.pc = "attempt" /\ s.clone = sync[p].clone
<1>1. CASE Return(p)
  BY <1>1 DEF Return
<1>2. CASE Retry(p)
  <2>1. CASE sync[p].attempt = maxAttempts
    BY <1>2, <2>1 DEF Retry
  <2>2. CASE sync[p].attempt # maxAttempts
    <3>1. /\ sync[p].clone \in Clones /\ sync[p].remote \in Remotes
          /\ sync[p].checkpoint \in BOOLEAN /\ sync[p].attempt + 1 \in 1..maxAttempts
      BY <2>2 DEF Syncing, maxAttempts
    <3> DEFINE s == Attempt(sync[p].clone, sync[p].remote, sync[p].checkpoint, sync[p].attempt + 1)
    <3>2. s \in Syncing /\ s.pc = "attempt" /\ s.clone = sync[p].clone
      BY <3>1, AttemptType
    <3>3. sync' = [sync EXCEPT ![p] = s]
      BY <1>2, <2>2 DEF Retry
    <3> HIDE DEF s
    <3> QED
      BY <3>2, <3>3
  <2> QED
    BY <2>1, <2>2
<1> QED
  BY <1>1, <1>2 DEF Dirty

\* Replacing one process's record changes no other's.
LEMMA SyncPut ==
  ASSUME Shape, NEW p \in Procs, NEW s \in Syncing \cup Resolving \cup {Nil},
         sync' = [sync EXCEPT ![p] = s]
  PROVE  /\ sync' \in [Procs -> Syncing \cup Resolving \cup {Nil}]
         /\ sync'[p] = s /\ \A q \in Procs : q # p => sync'[q] = sync[q]
  BY DEF Shape

\* The choices recorded, if any, are choices of a side.
LEMMA ResolutionsType ==
  ASSUME Shape, NEW c \in Clones, NEW r \in Remotes, NEW base, NEW l, NEW rh
  PROVE  Resolutions(c, r, base, l, rh) \in Decisions
<1>1. <<>> \in Decisions
  <2>1. <<>> \in [{} -> Sides]
    OBVIOUS
  <2> QED
    BY <2>1 DEF Decisions
<1>2. conflicts[c][r] \in ConflictSets \cup {Nil}
  BY DEF Shape
<1>3. CASE conflicts[c][r] # Nil
  <2>1. conflicts[c][r].choices \in Decisions
    BY <1>2, <1>3 DEF ConflictSets
  <2> QED
    BY <1>1, <2>1 DEF Resolutions
<1>4. CASE conflicts[c][r] = Nil
  BY <1>1, <1>4 DEF Resolutions
<1> QED
  BY <1>3, <1>4

\* The history grows by one commit.
Made(parents, tree, base, decided) ==
  /\ commits' \in Seq(Commit) /\ Len(commits') = Len(commits) + 1
  /\ \A n \in DOMAIN commits : commits'[n] = commits[n]
  /\ commits'[Len(commits) + 1].parents = parents
  /\ commits'[Len(commits) + 1].tree = tree
  /\ commits'[Len(commits) + 1].base = base
  /\ commits'[Len(commits) + 1].decided = decided
  /\ commits'[Len(commits) + 1].anc = {Len(commits) + 1} \cup UNION {Anc(p) : p \in parents}

\* Appending a new commit leaves the older ones as they were and gives it the ancestors of its
\* parents and itself.
LEMMA NewCommitMade ==
  ASSUME commits \in Seq(Commit), NEW parents \in SUBSET DOMAIN commits, NEW tree \in Trees,
         NEW base \in Nat, NEW decided \in SUBSET Cells,
         commits' = Append(commits, NewCommit(parents, tree, base, decided))
  PROVE  Made(parents, tree, base, decided)
<1> DEFINE c == NewCommit(parents, tree, base, decided)
<1>1. /\ c.parents = parents /\ c.tree = tree /\ c.base = base /\ c.decided = decided
      /\ c.anc = {Len(commits) + 1} \cup UNION {Anc(p) : p \in parents}
  BY DEF NewCommit
<1>2. \A p \in parents : Anc(p) \in SUBSET Nat
  <2>1. \A p \in parents : commits[p] \in Commit
    OBVIOUS
  <2> QED
    BY <2>1 DEF Anc, Commit
<1>3. {Len(commits) + 1} \cup UNION {Anc(p) : p \in parents} \in SUBSET Nat
  BY <1>2
<1>4. c \in Commit
  BY <1>3 DEF Commit, NewCommit
<1> HIDE DEF c
<1>5. commits' = Append(commits, c)
  BY DEF c
<1> QED
  BY <1>1, <1>4, <1>5 DEF Made

\* The trees of commits and journals.
LEMMA TreeType ==
  ASSUME commits \in Seq(Commit), NEW n \in DOMAIN commits
  PROVE  Tree(n) \in Trees /\ Anc(n) \in SUBSET Nat /\ commits[n] \in Commit
<1>1. commits[n] \in Commit
  OBVIOUS
<1> QED
  BY <1>1 DEF Commit, Tree, Anc

\* What a journal transaction makes of a table.
LEMMA EditedType ==
  ASSUME NEW v \in TableVersions \cup {NoTable}, NEW kind \in EditKinds, NEW k \in Keys,
         NEW key \in IndexKeys \cup {Null}, NEW n \in Nat,
         kind # "schema" => v # NoTable
  PROVE  Edited(v, kind, k, key, n) \in TableVersions \cup {NoTable}
<1>1. CASE kind = "put"
  <2>1. v \in TableVersions
    BY <1>1
  <2>2. [v EXCEPT !.rows[k] = [by |-> n, key |-> key]] \in TableVersions
    BY <2>1 DEF TableVersions
  <2> QED
    BY <1>1, <2>2 DEF Edited
<1>2. CASE kind = "delete"
  <2>1. v \in TableVersions
    BY <1>2
  <2>2. [v EXCEPT !.rows[k] = Absent] \in TableVersions
    BY <2>1 DEF TableVersions
  <2> QED
    BY <1>2, <2>2 DEF Edited
<1>3. CASE kind = "schema"
  <2>1. EmptyTable(n) \in TableVersions
    BY DEF EmptyTable, TableVersions
  <2>2. v # NoTable => [v EXCEPT !.schema = n] \in TableVersions
    BY DEF TableVersions
  <2> QED
    BY <1>3, <2>1, <2>2 DEF Edited
<1>4. CASE kind = "drop"
  BY <1>4 DEF Edited
<1> QED
  BY <1>1, <1>2, <1>3, <1>4, SyncAssumption

\* What the next journal transaction of a clone starts from.
JournalTree(c) == IF work[c] = Nil THEN Tree(local[c]) ELSE work[c].tree

\* A clone with a head has a tree under its journal.
LEMMA JournalTreeType ==
  ASSUME IInv, NEW c \in Clones, local[c] # 0
  PROVE  local[c] \in DOMAIN commits /\ JournalTree(c) \in Trees
<1>1. commits \in Seq(Commit) /\ local[c] \in 0..Len(commits) /\ work[c] \in Journals \cup {Nil}
  BY DEF IInv, Shape, HeadsExist
<1>2. local[c] \in DOMAIN commits
  BY <1>1
<1>3. Tree(local[c]) \in Trees
  BY <1>1, <1>2, TreeType
<1> QED
  BY <1>1, <1>2, <1>3 DEF JournalTree, Journals

Edits(c, t, v, kind, k, key) ==
  /\ v = Edited(JournalTree(c)[t], kind, k, key, edits + 1)
  /\ v \in TableVersions \cup {NoTable}
  /\ kind # "schema" => JournalTree(c)[t] # NoTable
  /\ UniqueTable(v)
  /\ work' = [work EXCEPT ![c] = [base |-> local[c], tree |-> [JournalTree(c) EXCEPT ![t] = v]]]

\* A journal commit edits one table of one clone's working tree, under the next edit number.
LEMMA JournalWrites ==
  ASSUME IInv, NEW c \in Clones, JournalCommit(c)
  PROVE  /\ \E t \in Tables, v \in TableVersions \cup {NoTable}, kind \in EditKinds, k \in Keys,
               key \in IndexKeys \cup {Null} : Edits(c, t, v, kind, k, key)
         /\ local[c] # 0 /\ edits' = edits + 1 /\ edits < MaxEdits /\ edits \in Nat
         /\ UNCHANGED <<commits, local, remote, conflicts, sync, faults>>
<1>1. /\ local[c] # 0 /\ edits' = edits + 1 /\ edits < MaxEdits
      /\ UNCHANGED <<commits, local, remote, conflicts, sync, faults>>
  BY DEF JournalCommit
<1>2. edits \in Nat
  BY DEF IInv, Shape
<1>3. PICK t \in Tables, k \in Keys, key \in IndexKeys \cup {Null}, kind \in EditKinds :
        LET v == Edited(JournalTree(c)[t], kind, k, key, edits + 1)
        IN /\ kind # "schema" => JournalTree(c)[t] # NoTable
           /\ UniqueTable(v)
           /\ work' = [work EXCEPT ![c] =
                [base |-> IF work[c] = Nil THEN local[c] ELSE work[c].base,
                 tree |-> [JournalTree(c) EXCEPT ![t] = v]]]
  BY DEF JournalCommit, JournalTree
<1> DEFINE v == Edited(JournalTree(c)[t], kind, k, key, edits + 1)
<1>4. (IF work[c] = Nil THEN local[c] ELSE work[c].base) = local[c]
  BY DEF IInv, HeadsExist
<1>5. JournalTree(c)[t] \in TableVersions \cup {NoTable}
  BY <1>1, JournalTreeType DEF Trees
<1>6. v \in TableVersions \cup {NoTable}
  BY <1>2, <1>3, <1>5, EditedType
<1>7. Edits(c, t, v, kind, k, key)
  BY <1>3, <1>4, <1>6 DEF Edits
<1> HIDE DEF v
<1> QED
  BY <1>1, <1>2, <1>6, <1>7

\* The ways in which the history grows.
CheckpointMade(c) ==
  /\ work[c] # Nil /\ work' = [work EXCEPT ![c] = Nil]
  /\ local' = [local EXCEPT ![c] = Len(commits) + 1]
  /\ Made({local[c]}, work[c].tree, local[c], {})

MergeMade(p) ==
  /\ sync[p].pc = "publish" /\ sync[p] \in Syncing /\ Merging(sync[p])
  /\ sync[p].local \in DOMAIN commits
  /\ Made({sync[p].local, sync[p].remoteHead}, sync[p].tree, sync[p].base, sync[p].decided)

RootMade == Made({}, [t \in Tables |-> NoTable], 0, {})

\* A checkpoint makes one child of the clone's head out of its journal.
LEMMA CheckpointedMakes ==
  ASSUME IInv, NEW c \in Clones, work[c] # Nil, Checkpointed(c)
  PROVE  CheckpointMade(c)
<1>1. commits \in Seq(Commit) /\ local[c] # 0 /\ work[c] \in Journals
  BY DEF IInv, Shape, HeadsExist
<1>2. local[c] \in DOMAIN commits /\ work[c].tree \in Trees /\ local[c] \in Nat
  BY <1>1, JournalTreeType DEF Journals, IInv, Shape
<1>3. commits' = Append(commits, NewCommit({local[c]}, work[c].tree, local[c], {}))
  BY DEF Checkpointed
<1>4. Made({local[c]}, work[c].tree, local[c], {})
  BY <1>1, <1>2, <1>3, NewCommitMade
<1> QED
  BY <1>4 DEF Checkpointed, CheckpointMade

\* PublishMerge retries, reports uncommitted changes, or makes the merge of the heads it
\* compared and moves the clone to it.
LEMMA PublishMergeMakes ==
  ASSUME IInv, NEW p \in Procs, PublishMerge(p)
  PROVE  \/ commits' = commits /\ local' = local /\ (Retry(p) \/ Dirty(p))
         \/ /\ MergeMade(p) /\ work[sync[p].clone] = Nil
            /\ local[sync[p].clone] = sync[p].local
            /\ local' = [local EXCEPT ![sync[p].clone] = Len(commits) + 1]
            /\ sync' = [sync EXCEPT ![p] =
                 [Attempt(sync[p].clone, sync[p].remote, sync[p].checkpoint, sync[p].attempt)
                    EXCEPT !.pc = "check", !.local = Len(commits) + 1]]
<1> DEFINE s == sync[p]
<1>1. s \in Syncing /\ s.pc = "publish" /\ s # Nil
  BY SyncingAt DEF PublishMerge, IInv
<1>2. SyncKnows(s) /\ commits \in Seq(Commit)
  BY <1>1 DEF IInv, SyncsKnow, Shape
<1>3. Merging(s) /\ s.local \in DOMAIN commits
  BY <1>1, <1>2 DEF SyncKnows
<1>4. CASE commits' = commits /\ local' = local /\ (Retry(p) \/ Dirty(p))
  BY <1>4
<1>5. CASE /\ RequireClean(s.clone) /\ Unmoved(s)
           /\ commits' = Append(commits, NewCommit({s.local, s.remoteHead}, s.tree, s.base, s.decided))
           /\ local' = [local EXCEPT ![s.clone] = Len(commits) + 1]
           /\ sync' = [sync EXCEPT ![p] =
                [Attempt(s.clone, s.remote, s.checkpoint, s.attempt) EXCEPT
                   !.pc = "check", !.local = Len(commits) + 1]]
  <2>1. {s.local, s.remoteHead} \in SUBSET DOMAIN commits /\ s.tree \in Trees
    BY <1>3 DEF Merging
  <2>2. s.base \in Nat /\ s.decided \in SUBSET Cells
    BY <1>1 DEF Syncing
  <2> HIDE DEF s
  <2>3. Made({s.local, s.remoteHead}, s.tree, s.base, s.decided)
    BY <1>2, <1>5, <2>1, <2>2, NewCommitMade
  <2> QED
    BY <1>1, <1>3, <1>5, <2>3 DEF MergeMade, RequireClean, Unmoved, s
<1> QED
  BY <1>4, <1>5 DEF PublishMerge

\* Enable gives a clone without a head a remote's head or a new root.
LEMMA EnableMakes ==
  ASSUME IInv, NEW c \in Clones, Enable(c)
  PROVE  /\ local[c] = 0 /\ UNCHANGED <<remote, work, conflicts, sync, edits, faults>>
         /\ \/ /\ commits' = commits
               /\ \E r \in Remotes : remote[r] # 0 /\ local' = [local EXCEPT ![c] = remote[r]]
            \/ RootMade /\ local' = [local EXCEPT ![c] = Len(commits) + 1]
<1>1. commits \in Seq(Commit)
  BY DEF IInv, Shape
<1>2. [t \in Tables |-> NoTable] \in Trees
  BY DEF Trees
<1>3. ASSUME commits' = Append(commits, NewCommit({}, [t \in Tables |-> NoTable], 0, {}))
      PROVE  RootMade
  BY <1>1, <1>2, <1>3, NewCommitMade DEF RootMade
<1> QED
  BY <1>3 DEF Enable

\* What a step does to the commits and the journals.
LEMMA Kinds ==
  ASSUME IInv, [Next]_vars
  PROVE  \/ UNCHANGED <<commits, work, edits>>
         \/ \E c \in Clones : JournalCommit(c)
         \/ \E c \in Clones : CheckpointMade(c) /\ edits' = edits
         \/ \E p \in Procs : MergeMade(p) /\ UNCHANGED <<work, edits>>
         \/ RootMade /\ UNCHANGED <<work, edits>>
<1>1. ASSUME NEW c \in Clones, Checkpoint(c) PROVE CheckpointMade(c) /\ edits' = edits
  BY <1>1, CheckpointedMakes DEF Checkpoint
<1>2. ASSUME NEW c \in Clones, Enable(c)
      PROVE  UNCHANGED <<work, edits>> /\ (commits' = commits \/ RootMade)
  BY <1>2, EnableMakes
<1>3. ASSUME NEW p \in Procs, BeginAttempt(p)
      PROVE  \/ UNCHANGED <<commits, work, edits>>
             \/ \E c \in Clones : CheckpointMade(c) /\ edits' = edits
  <2>1. sync[p] \in Syncing
    BY <1>3, SyncingAt DEF BeginAttempt, IInv
  <2>2. sync[p].clone \in Clones
    BY <2>1 DEF Syncing
  <2>3. \/ UNCHANGED <<commits, work>>
        \/ work[sync[p].clone] # Nil /\ Checkpointed(sync[p].clone)
    BY <1>3 DEF BeginAttempt
  <2>4. edits' = edits
    BY <1>3 DEF BeginAttempt
  <2> QED
    BY <2>2, <2>3, <2>4, CheckpointedMakes
<1>4. ASSUME NEW p \in Procs, PublishMerge(p)
      PROVE  UNCHANGED <<work, edits>> /\ (commits' = commits \/ MergeMade(p))
  BY <1>4, PublishMergeMakes DEF PublishMerge
<1>5. ASSUME NEW p \in Procs,
             \/ Fetch(p) \/ Compare(p) \/ FastForward(p) \/ PushCheck(p) \/ Push(p)
             \/ ClearConflictSet(p) \/ Resolve(p) \/ Abandon(p)
             \/ \E c \in Clones, r \in Remotes :
                  StartSync(p, c, r) \/ LoadConflictSet(p, c, r)
      PROVE  UNCHANGED <<commits, work, edits>>
  BY <1>5 DEF Fetch, Compare, FastForward, PushCheck, Push, ClearConflictSet, Resolve,
              Abandon, StartSync, LoadConflictSet
<1>6. CASE UNCHANGED vars
  BY <1>6 DEF vars
<1> QED
  BY <1>1, <1>2, <1>3, <1>4, <1>5, <1>6 DEF Next, SyncStep

\* A merge base of two commits is an ancestor of both.
LEMMA BaseCommon ==
  ASSUME commits \in Seq(Commit), NEW l \in DOMAIN commits, NEW r \in DOMAIN commits,
         MergeBases(l, r) # {}
  PROVE  Base(l, r) \in Nat /\ Base(l, r) \in Anc(l) /\ Base(l, r) \in Anc(r)
<1>1. MergeBases(l, r) \subseteq Anc(l) /\ MergeBases(l, r) \subseteq Anc(r)
  BY DEF MergeBases
<1>2. MergeBases(l, r) \in SUBSET Nat
  BY <1>1, TreeType
<1> QED
  BY <1>1, <1>2, LeastElement DEF Base

\* Conflicts are about cells.
LEMMA ConflictsType ==
  ASSUME NEW b, NEW l, NEW r
  PROVE  Conflicts(b, l, r) \in SUBSET Cells
  BY DEF Conflicts, Cells

\* What Compare leaves behind: the end of the turn, or one of four places to go on.
Compares(s, m) ==
  /\ m \in Syncing /\ m.clone = s.clone /\ m.local = s.local /\ m.remoteHead = s.remoteHead
  /\ \/ m.pc \in {"clear", "check"}
     \/ m.pc = "forward" /\ s.remoteHead # 0 /\ MergeBases(s.local, s.remoteHead) = {s.local}
     \/ m.pc = "publish" /\ Merging(m)

\* What Compare hands to PublishMerge is the merge of the two heads over their base, every
\* conflict decided.
LEMMA CompareMerges ==
  ASSUME IInv, NEW s \in Syncing, NEW choices \in Decisions,
         s.local \in DOMAIN commits, s.remoteHead \in DOMAIN commits,
         MergeBases(s.local, s.remoteHead) # {}, s.local # s.remoteHead,
         NEW base, base = Base(s.local, s.remoteHead),
         ~Invalid(Tree(base), Tree(s.local), Tree(s.remoteHead), choices),
         Conflicts(Tree(base), Tree(s.local), Tree(s.remoteHead)) \subseteq DOMAIN choices,
         NEW m, m = [s EXCEPT !.pc = "publish", !.base = base,
                       !.tree = MergedSnapshot(Tree(base), Tree(s.local), Tree(s.remoteHead), choices),
                       !.decided = Conflicts(Tree(base), Tree(s.local), Tree(s.remoteHead))]
  PROVE  Compares(s, m)
<1>0. commits \in Seq(Commit) /\ Graph /\ UniqueKeys
  BY DEF IInv, Shape
<1>1. base \in Nat /\ base \in Anc(s.local) /\ base \in Anc(s.remoteHead)
  BY <1>0, BaseCommon
<1>2. base \in DOMAIN commits
  <2>1. Anc(s.local) \subseteq 1..s.local /\ s.local \in 1..Len(commits) /\ Len(commits) \in Nat
    BY <1>0 DEF Graph
  <2> QED
    BY <1>0, <1>1, <2>1
<1> DEFINE b == Tree(base)
           l == Tree(s.local)
           r == Tree(s.remoteHead)
           tree == MergedSnapshot(b, l, r, choices)
<1>3. b \in Trees /\ l \in Trees /\ r \in Trees
  BY <1>0, <1>2, TreeType
<1>4. UniqueTree(b) /\ UniqueTree(l) /\ UniqueTree(r)
  BY <1>0, <1>2 DEF UniqueKeys
<1>5. ~Invalid(b, l, r, choices) /\ Conflicts(b, l, r) \subseteq DOMAIN choices
  OBVIOUS
<1>6. m = [s EXCEPT !.pc = "publish", !.base = base, !.tree = tree, !.decided = Conflicts(b, l, r)]
  OBVIOUS
<1> HIDE DEF b, l, r
<1>7. tree \in Trees /\ UniqueTree(tree) /\ MergeOf(tree, b, l, r, Conflicts(b, l, r))
  BY <1>3, <1>4, <1>5, MergedSnapshotMerges, MergedSnapshotUnique
<1>8. Conflicts(b, l, r) \in SUBSET Cells
  BY ConflictsType
<1> HIDE DEF tree
<1>9. /\ m \in Syncing /\ m.pc = "publish" /\ m.base = base /\ m.tree = tree
      /\ m.decided = Conflicts(b, l, r) /\ m.clone = s.clone /\ m.local = s.local
      /\ m.remoteHead = s.remoteHead
  BY <1>1, <1>6, <1>7, <1>8 DEF Syncing
<1>10. Merging(m)
  BY <1>1, <1>7, <1>9 DEF Merging, b, l, r
<1> QED
  BY <1>9, <1>10 DEF Compares

\* Compare returns (with the conflicts saved or not), reports uncommitted changes, or hands on
\* one such merge.
LEMMA CompareKinds ==
  ASSUME IInv, NEW p \in Procs, Compare(p)
  PROVE  \/ conflicts' = conflicts /\ (Dirty(p) \/ Return(p))
         \/ /\ Return(p)
            /\ \E set \in ConflictSets :
                 conflicts' = [conflicts EXCEPT ![sync[p].clone][sync[p].remote] = set]
         \/ /\ conflicts' = conflicts
            /\ \E m : Compares(sync[p], m) /\ sync' = [sync EXCEPT ![p] = m]
<1> DEFINE s == sync[p]
           rel == Relation(s.local, s.remoteHead)
<1>1. s \in Syncing /\ s.pc = "compare" /\ s # Nil
  BY SyncingAt DEF Compare, IInv
<1>2. SyncKnows(s) /\ commits \in Seq(Commit) /\ Shape
  BY <1>1 DEF IInv, SyncsKnow, Shape
<1>3. s.local \in DOMAIN commits /\ s.remoteHead \in 0..Len(commits)
  BY <1>1, <1>2 DEF SyncKnows
<1>4. \A pc : LET m == [s EXCEPT !.pc = pc]
              IN /\ m.pc = pc /\ m.clone = s.clone /\ m.local = s.local
                 /\ m.remoteHead = s.remoteHead
                 /\ pc \in {"clear", "check", "forward"} => m \in Syncing
  BY <1>1 DEF Syncing
<1>5. ASSUME NEW pc \in {"clear", "check"}, Goto(p, s, pc), conflicts' = conflicts
      PROVE  \E m : Compares(sync[p], m) /\ sync' = [sync EXCEPT ![p] = m]
  BY <1>4, <1>5 DEF Goto, Compares
<1>6. ASSUME rel = "behind", Goto(p, s, "forward"), conflicts' = conflicts
      PROVE  \E m : Compares(sync[p], m) /\ sync' = [sync EXCEPT ![p] = m]
  <2>1. s.remoteHead # 0 /\ MergeBases(s.local, s.remoteHead) = {s.local}
    BY <1>6 DEF Relation
  <2> QED
    BY <1>4, <1>6, <2>1 DEF Goto, Compares
<1>7. ASSUME rel = "diverged",
             /\ LET base == Base(s.local, s.remoteHead)
                    b == Tree(base)
                    l == Tree(s.local)
                    r == Tree(s.remoteHead)
                    choices == Resolutions(s.clone, s.remote, base, s.local, s.remoteHead)
                    found == Conflicts(b, l, r)
                IN \/ /\ Invalid(b, l, r, choices)
                      /\ Return(p)
                      /\ UNCHANGED conflicts
                   \/ /\ ~Invalid(b, l, r, choices)
                      /\ ~(found \subseteq DOMAIN choices)
                      /\ conflicts' = [conflicts EXCEPT ![s.clone][s.remote] =
                           [base |-> base, local |-> s.local, remote |-> s.remoteHead,
                            found |-> found \ DOMAIN choices, choices |-> choices]]
                      /\ Return(p)
                   \/ /\ ~Invalid(b, l, r, choices)
                      /\ found \subseteq DOMAIN choices
                      /\ sync' = [sync EXCEPT ![p] =
                           [s EXCEPT !.pc = "publish", !.base = base,
                                     !.tree = MergedSnapshot(b, l, r, choices),
                                     !.decided = found]]
                      /\ UNCHANGED conflicts
      PROVE  \/ conflicts' = conflicts /\ Return(p)
             \/ /\ Return(p)
                /\ \E set \in ConflictSets :
                     conflicts' = [conflicts EXCEPT ![s.clone][s.remote] = set]
             \/ /\ conflicts' = conflicts
                /\ \E m : Compares(s, m) /\ sync' = [sync EXCEPT ![p] = m]
  <2> DEFINE base == Base(s.local, s.remoteHead)
             choices == Resolutions(s.clone, s.remote, base, s.local, s.remoteHead)
             found == Conflicts(Tree(base), Tree(s.local), Tree(s.remoteHead))
             m == [s EXCEPT !.pc = "publish", !.base = base,
                     !.tree = MergedSnapshot(Tree(base), Tree(s.local), Tree(s.remoteHead), choices),
                     !.decided = found]
             set == [base |-> base, local |-> s.local, remote |-> s.remoteHead,
                     found |-> found \ DOMAIN choices, choices |-> choices]
  <2>1. s.remoteHead # 0 /\ MergeBases(s.local, s.remoteHead) # {} /\ s.local # s.remoteHead
    BY <1>7 DEF Relation
  <2>2. s.remoteHead \in DOMAIN commits
    BY <1>2, <1>3, <2>1
  <2>3. base \in Nat
    BY <1>2, <1>3, <2>1, <2>2, BaseCommon
  <2>4. choices \in Decisions
    BY <1>1, <1>2, ResolutionsType DEF Syncing
  <2>5. found \in SUBSET Cells
    BY ConflictsType
  <2>6. \/ Return(p) /\ conflicts' = conflicts
        \/ Return(p) /\ conflicts' = [conflicts EXCEPT ![s.clone][s.remote] = set]
        \/ /\ ~Invalid(Tree(base), Tree(s.local), Tree(s.remoteHead), choices)
           /\ found \subseteq DOMAIN choices
           /\ sync' = [sync EXCEPT ![p] = m] /\ conflicts' = conflicts
    BY <1>7
  <2>7. ASSUME ~Invalid(Tree(base), Tree(s.local), Tree(s.remoteHead), choices),
               found \subseteq DOMAIN choices
        PROVE  Compares(s, m)
    <3> HIDE DEF s, base, choices
    <3> QED
      BY <1>1, <1>3, <2>1, <2>2, <2>4, <2>7, CompareMerges DEF base
  <2>8. set \in ConflictSets
    <3>1. s.local \in Nat /\ s.remoteHead \in Nat /\ found \ DOMAIN choices \in SUBSET Cells
      BY <1>1, <2>5 DEF Syncing
    <3> HIDE DEF s, base, choices, found
    <3> QED
      BY <2>3, <2>4, <3>1 DEF ConflictSets
  <2> HIDE DEF base, choices, found, m, set
  <2> QED
    BY <2>6, <2>7, <2>8
<1> QED
  BY <1>5, <1>6, <1>7 DEF Compare

\* The steps of a sync, by what they leave behind: the end of the turn, or s with
\* another pc.
LEMMA GotoSyncing ==
  ASSUME NEW p \in Procs, NEW s \in Syncing, NEW pc \in {"clear", "push", "check"}, Goto(p, s, pc)
  PROVE  \E m \in Syncing : /\ sync' = [sync EXCEPT ![p] = m] /\ m.pc = pc
                            /\ m.clone = s.clone /\ m.local = s.local
<1> DEFINE m == [s EXCEPT !.pc = pc]
<1>1. m \in Syncing /\ m.pc = pc /\ m.clone = s.clone /\ m.local = s.local
  BY DEF Syncing
<1>2. sync' = [sync EXCEPT ![p] = m]
  BY DEF Goto
<1> HIDE DEF m
<1> QED
  BY <1>1, <1>2

\* A call's first attempt is within the limit.
LEMMA FirstAttempt ==
  ASSUME NEW c \in Clones, NEW r \in Remotes, NEW checkpoint \in BOOLEAN
  PROVE  /\ Attempt(c, r, checkpoint, 1) \in Syncing
         /\ Attempt(c, r, checkpoint, 1).pc = "attempt"
         /\ Attempt(c, r, checkpoint, 1).clone = c
<1>1. 1 \in 1..maxAttempts
  BY DEF maxAttempts
<1> QED
  BY <1>1, AttemptType

\* Saving one clone's conflicts with one remote changes no other entry.
LEMMA ConflictsPut ==
  ASSUME Shape, NEW c \in Clones, NEW r \in Remotes, NEW set \in ConflictSets \cup {Nil},
         conflicts' = [conflicts EXCEPT ![c][r] = set]
  PROVE  /\ conflicts' \in [Clones -> [Remotes -> ConflictSets \cup {Nil}]]
         /\ \A d \in Clones, q \in Remotes :
              conflicts'[d][q] = IF d = c /\ q = r THEN set ELSE conflicts[d][q]
  BY DEF Shape

\* Every step keeps the types: one case per action.
LEMMA ShapeStep == IInv /\ [Next]_vars => Shape'
<1> SUFFICES ASSUME IInv, [Next]_vars PROVE Shape'
  OBVIOUS
<1>0. Shape
  BY DEF IInv
<1>1. commits' \in Seq(Commit) /\ work' \in [Clones -> Journals \cup {Nil}] /\ edits' \in 0..MaxEdits
  <2>1. CASE UNCHANGED <<commits, work, edits>>
    BY <1>0, <2>1 DEF Shape
  <2>2. ASSUME NEW c \in Clones, JournalCommit(c)
        PROVE  /\ commits' \in Seq(Commit) /\ work' \in [Clones -> Journals \cup {Nil}]
               /\ edits' \in 0..MaxEdits
    <3>1. PICK t \in Tables, v \in TableVersions \cup {NoTable}, kind \in EditKinds, k \in Keys,
               key \in IndexKeys \cup {Null} : Edits(c, t, v, kind, k, key)
      BY <2>2, JournalWrites
    <3>2. /\ commits' = commits /\ edits' = edits + 1 /\ edits < MaxEdits /\ edits \in Nat
          /\ local[c] # 0
      BY <2>2, JournalWrites
    <3>3. [JournalTree(c) EXCEPT ![t] = v] \in Trees
      BY <3>2, JournalTreeType DEF Trees
    <3>4. [base |-> local[c], tree |-> [JournalTree(c) EXCEPT ![t] = v]] \in Journals
      BY <1>0, <3>3 DEF Journals, Shape
    <3> QED
      BY <1>0, <3>1, <3>2, <3>4, SyncAssumption DEF Edits, Shape
  <2>3. ASSUME NEW c \in Clones, CheckpointMade(c), edits' = edits
        PROVE  /\ commits' \in Seq(Commit) /\ work' \in [Clones -> Journals \cup {Nil}]
               /\ edits' \in 0..MaxEdits
    BY <1>0, <2>3 DEF CheckpointMade, Made, Shape
  <2>4. ASSUME \/ \E p \in Procs : MergeMade(p)
               \/ RootMade, UNCHANGED <<work, edits>>
        PROVE  /\ commits' \in Seq(Commit) /\ work' \in [Clones -> Journals \cup {Nil}]
               /\ edits' \in 0..MaxEdits
    BY <1>0, <2>4 DEF MergeMade, RootMade, Made, Shape
  <2> QED
    BY <2>1, <2>2, <2>3, <2>4, Kinds
<1> DEFINE Rest == /\ local' \in [Clones -> Nat] /\ remote' \in [Remotes -> Nat]
                   /\ conflicts' \in [Clones -> [Remotes -> ConflictSets \cup {Nil}]]
                   /\ sync' \in [Procs -> Syncing \cup Resolving \cup {Nil}]
                   /\ faults' \in 0..MaxFaults
<1>2. Len(commits) \in Nat
  BY <1>0 DEF Shape
<1>3. ASSUME NEW c \in Clones, JournalCommit(c) PROVE Rest
  BY <1>0, <1>3 DEF JournalCommit, Shape
<1>4. ASSUME NEW c \in Clones, Checkpoint(c) PROVE Rest
  BY <1>0, <1>2, <1>4 DEF Checkpoint, Checkpointed, Shape
<1>5. ASSUME NEW c \in Clones, Enable(c) PROVE Rest
  <2>1. /\ UNCHANGED <<remote, work, conflicts, sync, edits, faults>>
        /\ \E h \in Nat : local' = [local EXCEPT ![c] = h]
    <3>1. \A r \in Remotes : remote[r] \in Nat
      BY <1>0 DEF Shape
    <3>2. /\ UNCHANGED <<remote, work, conflicts, sync, edits, faults>>
          /\ \/ \E r \in Remotes : local' = [local EXCEPT ![c] = remote[r]]
             \/ local' = [local EXCEPT ![c] = Len(commits) + 1]
      BY <1>5 DEF Enable
    <3> QED
      BY <1>2, <3>1, <3>2
  <2> QED
    BY <1>0, <2>1 DEF Shape
<1>6. ASSUME NEW p \in Procs, NEW c \in Clones, NEW r \in Remotes, StartSync(p, c, r) PROVE Rest
  <2>1. \E o \in BOOLEAN : sync' = [sync EXCEPT ![p] = Attempt(c, r, o, 1)]
    BY <1>6, SyncAssumption DEF StartSync
  <2>2. PICK o \in BOOLEAN : sync' = [sync EXCEPT ![p] = Attempt(c, r, o, 1)]
    BY <2>1
  <2>3. Attempt(c, r, o, 1) \in Syncing
    BY FirstAttempt
  <2> QED
    BY <1>0, <1>6, <2>2, <2>3, SyncPut DEF StartSync, Shape
<1>7. ASSUME NEW p \in Procs, NEW c \in Clones, NEW r \in Remotes, LoadConflictSet(p, c, r)
      PROVE  Rest
  <2> DEFINE s == [pc |-> "resolve", clone |-> c, remote |-> r, set |-> conflicts[c][r]]
  <2>1. conflicts[c][r] \in ConflictSets
    BY <1>0, <1>7 DEF LoadConflictSet, Shape
  <2>2. s \in Resolving
    BY <2>1 DEF Resolving
  <2>3. sync' = [sync EXCEPT ![p] = s]
    BY <1>7 DEF LoadConflictSet
  <2> HIDE DEF s
  <2> QED
    BY <1>0, <1>7, <2>2, <2>3, SyncPut DEF LoadConflictSet, Shape
<1>8. ASSUME NEW p \in Procs, BeginAttempt(p) PROVE Rest
  <2>0. sync[p] \in Syncing
    BY <1>0, <1>8, SyncingAt DEF BeginAttempt
  <2>1. \E s \in Syncing \cup {Nil} : sync' = [sync EXCEPT ![p] = s]
    <3>1. local[sync[p].clone] \in Nat
      BY <1>0, <2>0 DEF Syncing, Shape
    <3> DEFINE a == [sync[p] EXCEPT !.pc = "fetch", !.local = local[sync[p].clone]]
               b == [sync[p] EXCEPT !.pc = "fetch", !.local = Len(commits) + 1]
    <3>2. a \in Syncing /\ b \in Syncing
      <4>1. Len(commits) + 1 \in Nat
        BY <1>2
      <4> HIDE DEF a, b
      <4>2. a \in Syncing
        BY <2>0, <3>1 DEF Syncing, a
      <4>3. b \in Syncing
        BY <2>0, <4>1 DEF Syncing, b
      <4> QED
        BY <4>2, <4>3
    <3>3. \/ sync' = [sync EXCEPT ![p] = a]
          \/ sync' = [sync EXCEPT ![p] = b]
          \/ sync' = [sync EXCEPT ![p] = Nil]
      BY <1>8 DEF BeginAttempt, Return
    <3> HIDE DEF a, b
    <3> QED
      BY <3>2, <3>3
  <2>2. local' = local \/ local' = [local EXCEPT ![sync[p].clone] = Len(commits) + 1]
    BY <1>8 DEF BeginAttempt, Checkpointed
  <2> QED
    BY <1>0, <1>2, <1>8, <2>1, <2>2 DEF BeginAttempt, Shape
<1>9. ASSUME NEW p \in Procs, Fetch(p) PROVE Rest
  <2>0. sync[p] \in Syncing
    BY <1>0, <1>9, SyncingAt DEF Fetch
  <2>1. remote[sync[p].remote] \in Nat
    BY <1>0, <2>0 DEF Syncing, Shape
  <2> DEFINE s == [sync[p] EXCEPT !.pc = "compare", !.remoteHead = remote[sync[p].remote]]
  <2>2. sync' = [sync EXCEPT ![p] = s]
    BY <1>0, <1>9 DEF Fetch, Shape
  <2>3. s \in Syncing
    BY <2>0, <2>1 DEF Syncing
  <2> HIDE DEF s
  <2> QED
    BY <1>0, <1>9, <2>2, <2>3, SyncPut DEF Fetch, Shape
<1>10. ASSUME NEW p \in Procs, Compare(p) PROVE Rest
  <2>0. sync[p] \in Syncing
    BY <1>0, <1>10, SyncingAt DEF Compare
  <2>1. \E s \in Syncing \cup {Nil} : sync' = [sync EXCEPT ![p] = s]
    BY <1>0, <1>10, <2>0, CompareKinds, RetryReturns DEF Compares
  <2>2. \/ conflicts' = conflicts
        \/ \E set \in ConflictSets :
             conflicts' = [conflicts EXCEPT ![sync[p].clone][sync[p].remote] = set]
    BY <1>10, CompareKinds
  <2>3. conflicts' \in [Clones -> [Remotes -> ConflictSets \cup {Nil}]]
    <3>1. sync[p].clone \in Clones /\ sync[p].remote \in Remotes
      BY <2>0 DEF Syncing
    <3> QED
      BY <1>0, <2>2, <3>1, ConflictsPut DEF Shape
  <2> QED
    BY <1>0, <1>10, <2>1, <2>3, SyncPut DEF Compare, Shape
<1>11. ASSUME NEW p \in Procs, FastForward(p) PROVE Rest
  <2>0. sync[p] \in Syncing
    BY <1>0, <1>11, SyncingAt DEF FastForward
  <2>1. \E s \in Syncing \cup {Nil} : sync' = [sync EXCEPT ![p] = s]
    BY <1>0, <1>11, <2>0, GotoSyncing, RetryReturns DEF FastForward
  <2>2. sync[p].remoteHead \in Nat
    BY <2>0 DEF Syncing
  <2>3. local' = local \/ local' = [local EXCEPT ![sync[p].clone] = sync[p].remoteHead]
    BY <1>11 DEF FastForward
  <2> QED
    BY <1>0, <1>11, <2>1, <2>2, <2>3, SyncPut DEF FastForward, Shape
<1>12. ASSUME NEW p \in Procs, PublishMerge(p) PROVE Rest
  <2>0. sync[p] \in Syncing
    BY <1>0, <1>12, SyncingAt DEF PublishMerge
  <2> DEFINE a == Attempt(sync[p].clone, sync[p].remote, sync[p].checkpoint, sync[p].attempt)
             m == [a EXCEPT !.pc = "check", !.local = Len(commits) + 1]
  <2>1. a \in Syncing
    <3>1. /\ sync[p].clone \in Clones /\ sync[p].remote \in Remotes
          /\ sync[p].checkpoint \in BOOLEAN /\ sync[p].attempt \in 1..maxAttempts
      BY <2>0 DEF Syncing
    <3> QED
      BY <3>1, AttemptType
  <2> HIDE DEF a
  <2>2. m \in Syncing
    <3>1. Len(commits) + 1 \in Nat
      BY <1>2
    <3> HIDE DEF m
    <3> QED
      BY <2>1, <3>1 DEF Syncing, m
  <2> HIDE DEF m
  <2>3. /\ \/ local' = local /\ (Retry(p) \/ Dirty(p))
           \/ /\ local' = [local EXCEPT ![sync[p].clone] = Len(commits) + 1]
              /\ sync' = [sync EXCEPT ![p] = m]
        /\ UNCHANGED <<remote, conflicts, faults>>
    BY <1>12 DEF PublishMerge, m, a
  <2>4. \E s \in Syncing \cup {Nil} : sync' = [sync EXCEPT ![p] = s]
    BY <1>0, <2>0, <2>2, <2>3, RetryReturns
  <2> QED
    BY <1>0, <1>2, <2>3, <2>4, SyncPut DEF Shape
<1>13. ASSUME NEW p \in Procs, PushCheck(p) PROVE Rest
  <2>0. sync[p] \in Syncing
    BY <1>0, <1>13, SyncingAt DEF PushCheck
  <2>1. \E s \in Syncing \cup {Nil} : sync' = [sync EXCEPT ![p] = s]
    BY <1>0, <1>13, <2>0, GotoSyncing, RetryReturns DEF PushCheck
  <2> QED
    BY <1>0, <1>13, <2>1, SyncPut DEF PushCheck, Shape
<1>14. ASSUME NEW p \in Procs, Push(p) PROVE Rest
  <2>0. sync[p] \in Syncing
    BY <1>0, <1>14, SyncingAt DEF Push
  <2>1. \E s \in Syncing \cup {Nil} : sync' = [sync EXCEPT ![p] = s]
    BY <1>0, <1>14, <2>0, GotoSyncing, RetryReturns DEF Push
  <2>2. sync[p].local \in Nat /\ faults \in 0..MaxFaults /\ MaxFaults \in Nat
    BY <1>0, <2>0, SyncAssumption DEF Syncing, Shape
  <2>3. /\ \/ remote' = remote
           \/ remote' = [remote EXCEPT ![sync[p].remote] = sync[p].local]
        /\ \/ faults' = faults
           \/ faults < MaxFaults /\ faults' = faults + 1
        /\ UNCHANGED <<local, conflicts>>
    BY <1>14 DEF Push
  <2>4. faults' \in 0..MaxFaults
    BY <2>2, <2>3
  <2> QED
    BY <1>0, <2>1, <2>2, <2>3, <2>4, SyncPut DEF Shape
<1>15. ASSUME NEW p \in Procs, ClearConflictSet(p) PROVE Rest
  BY <1>0, <1>15 DEF ClearConflictSet, Return, Shape
<1>16. ASSUME NEW p \in Procs, Resolve(p) PROVE Rest
  <2> DEFINE s == sync[p]
  <2>0. s \in Resolving
    BY <1>0, <1>16, ResolvingAt DEF Resolve
  <2>1. s.clone \in Clones /\ s.remote \in Remotes /\ s.set \in ConflictSets
    BY <2>0 DEF Resolving
  <2> HIDE DEF s
  <2>2. PICK id \in s.set.found, choice \in Sides :
          LET choices == [i \in DOMAIN s.set.choices \cup {id} |->
                            IF i = id THEN choice ELSE s.set.choices[i]]
          IN /\ conflicts' = [conflicts EXCEPT ![s.clone][s.remote] =
                                [s.set EXCEPT !.choices = choices]]
             /\ sync' = [sync EXCEPT ![p] =
                  IF s.set.found \subseteq DOMAIN choices /\ work[s.clone] = Nil
                  THEN Attempt(s.clone, s.remote, FALSE, 1) ELSE Nil]
    BY <1>16 DEF Resolve, s
  <2> DEFINE choices == [i \in DOMAIN s.set.choices \cup {id} |->
                           IF i = id THEN choice ELSE s.set.choices[i]]
  <2>3. choices \in Decisions
    <3>1. s.set.choices \in Decisions /\ s.set.found \in SUBSET Cells
      BY <2>1 DEF ConflictSets
    <3>2. PICK ids \in SUBSET Cells : s.set.choices \in [ids -> Sides]
      BY <3>1 DEF Decisions
    <3>3. choices \in [ids \cup {id} -> Sides] /\ ids \cup {id} \in SUBSET Cells
      BY <3>1, <3>2
    <3> HIDE DEF choices
    <3> QED
      BY <3>3 DEF Decisions
  <2>4. /\ conflicts' = [conflicts EXCEPT ![s.clone][s.remote] = [s.set EXCEPT !.choices = choices]]
        /\ \/ sync' = [sync EXCEPT ![p] = Attempt(s.clone, s.remote, FALSE, 1)]
           \/ sync' = [sync EXCEPT ![p] = Nil]
    BY <2>2
  <2> HIDE DEF choices
  <2>5. [s.set EXCEPT !.choices = choices] \in ConflictSets
    BY <2>1, <2>3 DEF ConflictSets
  <2>6. conflicts' \in [Clones -> [Remotes -> ConflictSets \cup {Nil}]]
    BY <1>0, <2>1, <2>4, <2>5, ConflictsPut
  <2>7. \E m \in Syncing \cup {Nil} : sync' = [sync EXCEPT ![p] = m]
    BY <2>1, <2>4, FirstAttempt
  <2>8. UNCHANGED <<local, remote, faults>>
    BY <1>16 DEF Resolve
  <2> QED
    BY <1>0, <2>6, <2>7, <2>8, SyncPut DEF Shape
<1>17. ASSUME NEW p \in Procs, Abandon(p) PROVE Rest
  <2>1. /\ sync' = [sync EXCEPT ![p] = Nil] /\ faults < MaxFaults /\ faults' = faults + 1
        /\ UNCHANGED <<local, remote, conflicts>>
    BY <1>17 DEF Abandon, Return
  <2>2. faults' \in 0..MaxFaults
    BY <1>0, <2>1, SyncAssumption DEF Shape
  <2> QED
    BY <1>0, <2>1, <2>2, SyncPut DEF Shape
<1>18. ASSUME UNCHANGED vars PROVE Rest
  BY <1>0, <1>18 DEF vars, Shape
<1> HIDE DEF Rest
<1>19. Rest
  <2>1. ASSUME NEW p \in Procs, SyncStep(p) PROVE Rest
    BY <1>8, <1>9, <1>10, <1>11, <1>12, <1>13, <1>14, <1>15, <1>16, <2>1 DEF SyncStep
  <2> QED
    BY <1>3, <1>4, <1>5, <1>6, <1>7, <1>17, <1>18, <2>1 DEF Next
<1> QED
  BY <1>1, <1>19 DEF Shape, Rest

-----------------------------------------------------------------------------
(* The commit graph.                                                        *)

\* No commit changes or is lost.
LEMMA CommitsKept ==
  ASSUME IInv, [Next]_vars
  PROVE  /\ Len(commits) \in Nat /\ Len(commits') \in Nat /\ Len(commits') >= Len(commits)
         /\ DOMAIN commits = 1..Len(commits) /\ DOMAIN commits' = 1..Len(commits')
         /\ \A n \in DOMAIN commits : n \in DOMAIN commits' /\ commits'[n] = commits[n]
<1>1. commits \in Seq(Commit) /\ commits' \in Seq(Commit)
  BY ShapeStep DEF IInv, Shape
<1>2. /\ Len(commits') >= Len(commits)
      /\ \A n \in DOMAIN commits : commits'[n] = commits[n]
  BY <1>1, Kinds DEF JournalCommit, CheckpointMade, MergeMade, RootMade, Made
<1> QED
  BY <1>1, <1>2

\* What was true of a commit stays so.
LEMMA CommitKept ==
  ASSUME IInv, [Next]_vars, NEW n \in DOMAIN commits
  PROVE  /\ n \in DOMAIN commits' /\ commits'[n] = commits[n]
         /\ Anc(n)' = Anc(n) /\ Tree(n)' = Tree(n) /\ \A x : Cell(n, x)' = Cell(n, x)
<1>1. n \in DOMAIN commits' /\ commits'[n] = commits[n]
  BY CommitsKept
<1> QED
  BY <1>1 DEF Anc, Tree, Cell

\* The parents of a commit that is made are there.
LEMMA ParentsExist ==
  ASSUME IInv, [Next]_vars, commits' # commits
  PROVE  \E parents \in SUBSET DOMAIN commits : \E tree, base, decided :
           Made(parents, tree, base, decided)
<1>1. ASSUME NEW c \in Clones, CheckpointMade(c)
      PROVE  \E parents \in SUBSET DOMAIN commits : \E tree, base, decided :
               Made(parents, tree, base, decided)
  <2>1. local[c] # 0 /\ Made({local[c]}, work[c].tree, local[c], {})
    BY <1>1 DEF CheckpointMade, IInv, HeadsExist
  <2>2. {local[c]} \in SUBSET DOMAIN commits
    BY <2>1, JournalTreeType
  <2> QED
    BY <2>1, <2>2
<1>2. ASSUME NEW p \in Procs, MergeMade(p)
      PROVE  \E parents \in SUBSET DOMAIN commits : \E tree, base, decided :
               Made(parents, tree, base, decided)
  <2>1. {sync[p].local, sync[p].remoteHead} \in SUBSET DOMAIN commits
    BY <1>2 DEF MergeMade, Merging
  <2> QED
    BY <1>2, <2>1 DEF MergeMade
<1>3. ASSUME RootMade
      PROVE  \E parents \in SUBSET DOMAIN commits : \E tree, base, decided :
               Made(parents, tree, base, decided)
  <2>1. {} \in SUBSET DOMAIN commits
    OBVIOUS
  <2> QED
    BY <1>3, <2>1 DEF RootMade
<1> QED
  BY <1>1, <1>2, <1>3, Kinds DEF JournalCommit

\* Every step keeps ancestor sets closed and parents older than their children.
LEMMA GraphStep == IInv /\ [Next]_vars => Graph'
<1> SUFFICES ASSUME IInv, [Next]_vars PROVE Graph'
  OBVIOUS
<1>0. Graph /\ commits \in Seq(Commit) /\ DOMAIN commits = 1..Len(commits) /\ Len(commits) \in Nat
  BY DEF IInv, Shape
<1>1. CASE commits' = commits
  BY <1>0, <1>1 DEF Graph, Anc
<1>2. CASE commits' # commits
  <2>1. PICK parents \in SUBSET DOMAIN commits :
          \E tree, base, decided : Made(parents, tree, base, decided)
    BY <1>2, ParentsExist
  <2>0. PICK h \in Nat : h = Len(commits) + 1
    BY <1>0
  <2> DEFINE new == {h} \cup UNION {Anc(p) : p \in parents}
  <2>2. /\ \A n \in DOMAIN commits : commits'[n] = commits[n]
        /\ commits'[h].anc = new /\ commits'[h].parents = parents
        /\ DOMAIN commits' = 1..h
    BY <1>0, <2>0, <2>1 DEF Made
  <2>3. \A n \in DOMAIN commits :
          /\ n \in Anc(n) /\ Anc(n) \subseteq 1..n
          /\ \A m \in Anc(n) : Anc(m) \subseteq Anc(n)
          /\ commits[n].parents \subseteq 1..(n - 1)
    BY <1>0 DEF Graph
  <2>4. ASSUME NEW n \in DOMAIN commits
        PROVE  /\ n \in Anc(n)' /\ Anc(n)' \subseteq 1..n
               /\ \A m \in Anc(n)' : Anc(m)' \subseteq Anc(n)'
               /\ commits'[n].parents \subseteq 1..(n - 1)
    <3>1. Anc(n)' = Anc(n) /\ \A m \in Anc(n) : m \in DOMAIN commits
      BY <1>0, <2>2, <2>3 DEF Anc
    <3>2. \A m \in Anc(n) : Anc(m)' = Anc(m)
      BY <2>2, <3>1 DEF Anc
    <3> QED
      BY <2>2, <2>3, <3>1, <3>2
  <2>5. new \subseteq 1..h /\ h \in new /\ \A m \in new : m # h => m \in DOMAIN commits
    BY <1>0, <2>0, <2>3
  <2>6. ASSUME NEW m \in new PROVE commits'[m].anc \subseteq new
    <3>1. CASE m = h
      BY <2>2, <3>1
    <3>2. CASE m # h
      <4>1. PICK p \in parents : m \in Anc(p)
        BY <3>2
      <4>2. Anc(m) \subseteq Anc(p)
        BY <2>3, <4>1
      <4>3. commits'[m].anc = Anc(m)
        BY <2>2, <2>5, <3>2 DEF Anc
      <4> QED
        BY <4>1, <4>2, <4>3
    <3> QED
      BY <3>1, <3>2
  <2>7. parents \subseteq 1..(h - 1)
    BY <1>0, <2>0
  <2> HIDE DEF new
  <2>8. /\ h \in Anc(h)' /\ Anc(h)' \subseteq 1..h
        /\ \A m \in Anc(h)' : Anc(m)' \subseteq Anc(h)'
        /\ commits'[h].parents \subseteq 1..(h - 1)
    BY <2>2, <2>5, <2>6, <2>7 DEF Anc
  <2>9. \A n \in DOMAIN commits' : n \in DOMAIN commits \/ n = h
    BY <1>0, <2>0, <2>2
  <2> QED
    BY <2>4, <2>8, <2>9 DEF Graph
<1> QED
  BY <1>1, <1>2

-----------------------------------------------------------------------------
(* Heads.                                                                   *)

\* What the invariant says of one running sync.
LEMMA SyncFacts ==
  ASSUME IInv, NEW p \in Procs, sync[p] # Nil
  PROVE  /\ SyncKnows(sync[p]) /\ local[sync[p].clone] # 0
         /\ sync[p].clone \in Clones /\ sync[p].remote \in Remotes
<1>1. sync[p] \in Syncing \cup Resolving
  BY DEF IInv, Shape
<1> QED
  BY <1>1 DEF IInv, SyncsKnow, HeadsExist, Syncing, Resolving

\* A local head stays, is the first one of its clone, or goes to a descendant, and
\* this only in a clone without a journal or by publishing the journal.
LEMMA LocalMoves ==
  ASSUME IInv, [Next]_vars
  PROVE  \/ local' = local
         \/ \E c \in Clones : \E h \in DOMAIN commits' :
              /\ local' = [local EXCEPT ![c] = h] /\ work'[c] = Nil
              /\ local[c] = 0 \/ local[c] \in Anc(h)'
<1>0. /\ Shape /\ Graph /\ Graph' /\ HeadsExist /\ commits \in Seq(Commit)
      /\ DOMAIN commits = 1..Len(commits) /\ Len(commits) \in Nat
  BY GraphStep DEF IInv, Shape
<1> DEFINE Goal == \E c \in Clones : \E h \in DOMAIN commits' :
              /\ local' = [local EXCEPT ![c] = h] /\ work'[c] = Nil
              /\ local[c] = 0 \/ local[c] \in Anc(h)'
<1>1. PICK h \in Nat : h = Len(commits) + 1
  BY <1>0
<1>2. ASSUME NEW c \in Clones, CheckpointMade(c) PROVE Goal
  <2>1. /\ local' = [local EXCEPT ![c] = h] /\ work'[c] = Nil
        /\ DOMAIN commits' = 1..h /\ commits'[h].anc = {h} \cup UNION {Anc(p) : p \in {local[c]}}
    BY <1>0, <1>1, <1>2 DEF CheckpointMade, Made, Shape
  <2>2. local[c] \in DOMAIN commits
    BY <1>2, JournalTreeType DEF CheckpointMade, IInv, HeadsExist
  <2>3. local[c] \in Anc(local[c])
    BY <1>0, <2>2 DEF Graph
  <2>4. local[c] \in Anc(h)'
    BY <2>1, <2>3 DEF Anc
  <2>5. h \in DOMAIN commits'
    BY <1>0, <1>1, <2>1
  <2> QED
    BY <2>1, <2>4, <2>5
<1>3. ASSUME NEW c \in Clones, Enable(c) PROVE Goal
  <2>1. local[c] = 0 /\ work' = work
    BY <1>3, EnableMakes
  <2>2. work'[c] = Nil
    BY <1>0, <2>1 DEF HeadsExist
  <2>3. \E g \in DOMAIN commits' : local' = [local EXCEPT ![c] = g]
    <3>1. ASSUME NEW r \in Remotes, commits' = commits, remote[r] # 0,
                 local' = [local EXCEPT ![c] = remote[r]]
          PROVE  \E g \in DOMAIN commits' : local' = [local EXCEPT ![c] = g]
      <4>1. remote[r] \in DOMAIN commits'
        BY <1>0, <3>1 DEF HeadsExist
      <4> QED
        BY <3>1, <4>1
    <3>2. ASSUME RootMade, local' = [local EXCEPT ![c] = Len(commits) + 1]
          PROVE  \E g \in DOMAIN commits' : local' = [local EXCEPT ![c] = g]
      <4>1. DOMAIN commits' = 1..h
        BY <1>0, <1>1, <3>2 DEF RootMade, Made
      <4>2. h \in DOMAIN commits'
        BY <1>0, <1>1, <4>1
      <4> QED
        BY <1>1, <3>2, <4>2
    <3> QED
      BY <1>3, <3>1, <3>2, EnableMakes
  <2> QED
    BY <2>1, <2>2, <2>3
<1>4. ASSUME NEW p \in Procs, FastForward(p) PROVE local' = local \/ Goal
  <2>1. sync[p] # Nil /\ sync[p].pc = "forward" /\ UNCHANGED <<commits, work>>
    BY <1>4 DEF FastForward, At
  <2>2. /\ SyncKnows(sync[p]) /\ sync[p].clone \in Clones
    BY <2>1, SyncFacts
  <2>3. /\ sync[p].remoteHead \in DOMAIN commits'
        /\ sync[p].local \in commits'[sync[p].remoteHead].anc
    BY <2>1, <2>2 DEF SyncKnows, Anc
  <2>4. \/ local' = local
        \/ /\ local' = [local EXCEPT ![sync[p].clone] = sync[p].remoteHead]
           /\ work[sync[p].clone] = Nil /\ local[sync[p].clone] = sync[p].local
    BY <1>4 DEF FastForward, RequireClean, Unmoved
  <2>5. ASSUME local' # local PROVE Goal
    <3>1. PICK c \in Clones : c = sync[p].clone
      BY <2>2
    <3>2. PICK g \in DOMAIN commits' : g = sync[p].remoteHead
      BY <2>3
    <3>3. /\ local' = [local EXCEPT ![c] = g] /\ work'[c] = Nil /\ local[c] \in Anc(g)'
      BY <2>1, <2>3, <2>4, <2>5, <3>1, <3>2 DEF Anc
    <3> QED
      BY <3>3
  <2> QED
    BY <2>5
<1>5. ASSUME NEW p \in Procs, PublishMerge(p) PROVE local' = local \/ Goal
  <2>1. CASE local' = local
    BY <2>1
  <2>2. CASE local' # local
    <3>1. /\ MergeMade(p) /\ work[sync[p].clone] = Nil /\ work' = work
          /\ local[sync[p].clone] = sync[p].local
          /\ local' = [local EXCEPT ![sync[p].clone] = h]
      BY <1>1, <1>5, <2>2, PublishMergeMakes DEF PublishMerge
    <3>2. PICK c \in Clones : c = sync[p].clone
      BY <3>1 DEF MergeMade, Syncing
    <3>3. /\ DOMAIN commits' = 1..h
          /\ commits'[h].anc = {h} \cup UNION {Anc(q) : q \in {sync[p].local, sync[p].remoteHead}}
      BY <1>0, <1>1, <3>1 DEF MergeMade, Made
    <3>4. sync[p].local \in Anc(sync[p].local)
      BY <1>0, <3>1 DEF MergeMade, Graph
    <3>5. local[c] \in Anc(h)'
      BY <3>1, <3>2, <3>3, <3>4 DEF Anc
    <3>6. h \in DOMAIN commits'
      BY <1>0, <1>1, <3>3
    <3> QED
      BY <3>1, <3>2, <3>5, <3>6
  <2> QED
    BY <2>1, <2>2
<1>6. ASSUME NEW p \in Procs, BeginAttempt(p) PROVE local' = local \/ Goal
  <2>1. \/ local' = local
        \/ work[sync[p].clone] # Nil /\ Checkpointed(sync[p].clone)
    BY <1>6 DEF BeginAttempt
  <2>2. sync[p].clone \in Clones
    BY <1>6, SyncFacts DEF BeginAttempt, At
  <2> HIDE DEF Goal
  <2> QED
    BY <1>2, <2>1, <2>2, CheckpointedMakes
<1>7. ASSUME NEW p \in Procs,
             \/ Fetch(p) \/ Compare(p) \/ PushCheck(p) \/ Push(p)
             \/ ClearConflictSet(p) \/ Resolve(p) \/ Abandon(p)
             \/ \E c \in Clones, r \in Remotes :
                  StartSync(p, c, r) \/ LoadConflictSet(p, c, r)
      PROVE  local' = local
  BY <1>7 DEF Fetch, Compare, PushCheck, Push, ClearConflictSet, Resolve,
              Abandon, StartSync, LoadConflictSet
<1>8. ASSUME NEW c \in Clones, Checkpoint(c) PROVE Goal
  <2> HIDE DEF Goal
  <2> QED
    BY <1>2, <1>8, CheckpointedMakes DEF Checkpoint
<1>9. ASSUME UNCHANGED vars \/ \E c \in Clones : JournalCommit(c) PROVE local' = local
  BY <1>9 DEF vars, JournalCommit
<1>10. local' = local \/ Goal
  <2> HIDE DEF Goal
  <2> QED
    BY <1>3, <1>4, <1>5, <1>6, <1>7, <1>8, <1>9 DEF Next, SyncStep
<1> QED
  BY <1>10

\* A remote's head stays, is its first one, or goes to a descendant: git push
\* without force compares with what the remote has then.
LEMMA RemoteMoves ==
  ASSUME IInv, [Next]_vars
  PROVE  \/ remote' = remote
         \/ \E r \in Remotes : \E h \in DOMAIN commits :
              /\ remote' = [remote EXCEPT ![r] = h]
              /\ remote[r] = 0 \/ remote[r] \in Anc(h)
<1>1. ASSUME NEW p \in Procs, Push(p), remote' # remote
      PROVE  \E r \in Remotes : \E h \in DOMAIN commits :
               /\ remote' = [remote EXCEPT ![r] = h]
               /\ remote[r] = 0 \/ remote[r] \in Anc(h)
  <2>1. sync[p] # Nil /\ sync[p].pc = "push"
    BY <1>1 DEF Push, At
  <2>2. sync[p].local \in DOMAIN commits /\ sync[p].remote \in Remotes
    BY <2>1, SyncFacts DEF SyncKnows
  <2>3. /\ remote' = [remote EXCEPT ![sync[p].remote] = sync[p].local]
        /\ remote[sync[p].remote] = 0 \/ remote[sync[p].remote] \in Anc(sync[p].local)
    BY <1>1 DEF Push
  <2> QED
    BY <2>2, <2>3
<1>2. ASSUME NEW c \in Clones, JournalCommit(c) \/ Checkpoint(c) \/ Enable(c)
      PROVE  remote' = remote
  BY <1>2 DEF JournalCommit, Checkpoint, Enable
<1>3. ASSUME NEW p \in Procs,
             \/ BeginAttempt(p) \/ Fetch(p) \/ Compare(p) \/ FastForward(p) \/ PublishMerge(p)
             \/ PushCheck(p) \/ ClearConflictSet(p) \/ Resolve(p) \/ Abandon(p)
             \/ \E c \in Clones, r \in Remotes :
                  StartSync(p, c, r) \/ LoadConflictSet(p, c, r)
      PROVE  remote' = remote
  BY <1>3 DEF BeginAttempt, Fetch, Compare, FastForward, PublishMerge, PushCheck,
              ClearConflictSet, Resolve, Abandon, StartSync, LoadConflictSet
<1>4. CASE UNCHANGED vars
  BY <1>4 DEF vars
<1> QED
  BY <1>1, <1>2, <1>3, <1>4 DEF Next, SyncStep

-----------------------------------------------------------------------------
(* What a sync read stays true.                                             *)

\* What a sync knows of the commits stays true as commits are added.
LEMMA KnowsKept ==
  ASSUME IInv, [Next]_vars, NEW s, SyncKnows(s)
  PROVE  SyncKnows(s)'
<1>1. /\ Len(commits) \in Nat /\ Len(commits') \in Nat /\ Len(commits') >= Len(commits)
      /\ DOMAIN commits = 1..Len(commits) /\ DOMAIN commits' = 1..Len(commits')
      /\ \A n \in DOMAIN commits : n \in DOMAIN commits' /\ commits'[n] = commits[n]
  BY CommitsKept
<1>2. s.pc \in {"fetch", "compare", "forward", "publish", "check", "push"} =>
        s.local \in DOMAIN commits'
  BY <1>1 DEF SyncKnows
<1>3. s.pc = "compare" => s.remoteHead \in 0..Len(commits')
  BY <1>1 DEF SyncKnows
<1>4. s.pc = "forward" => s.remoteHead \in DOMAIN commits' /\ s.local \in Anc(s.remoteHead)'
  BY <1>1 DEF SyncKnows, Anc
<1>5. ASSUME s.pc = "publish" PROVE Merging(s)'
  <2>1. Merging(s) /\ s.local \in DOMAIN commits
    BY <1>5 DEF SyncKnows
  <2>2. s.base \in DOMAIN commits
    <3>1. s.base \in 1..s.local /\ s.local \in 1..Len(commits)
      BY <1>1, <2>1 DEF Merging, IInv, Graph
    <3> QED
      BY <1>1, <3>1
  <2> QED
    BY <1>1, <2>1, <2>2 DEF Merging, Anc, Tree
<1> QED
  BY <1>2, <1>3, <1>4, <1>5 DEF SyncKnows

\* The end of a turn, and a turn that goes on.
LEMMA TurnEnds ==
  ASSUME IInv, NEW p \in Procs, sync[p] \in Syncing, sync[p] # Nil,
         Retry(p) \/ Return(p) \/ Dirty(p)
  PROVE  \E m : sync' = [sync EXCEPT ![p] = m] /\ m \in Syncing \cup Resolving \cup {Nil}
                /\ (m # Nil => local[m.clone] # 0 /\ SyncKnows(m)')
<1>1. Shape /\ local[sync[p].clone] # 0
  BY DEF IInv, HeadsExist
<1>2. PICK m \in Syncing \cup {Nil} :
        /\ sync' = [sync EXCEPT ![p] = m]
        /\ m # Nil => m.pc = "attempt" /\ m.clone = sync[p].clone
  BY <1>1, RetryReturns
<1>3. m # Nil => SyncKnows(m)'
  BY <1>2 DEF SyncKnows
<1> QED
  BY <1>1, <1>2, <1>3

\* A sync that goes on to its next step keeps what it knows.
LEMMA GoesOn ==
  ASSUME IInv, [Next]_vars, NEW p \in Procs, sync[p] \in Syncing, sync[p] # Nil,
         NEW pc \in {"clear", "push", "check"}, Goto(p, sync[p], pc),
         pc # "clear" => sync[p].local \in DOMAIN commits
  PROVE  \E m : sync' = [sync EXCEPT ![p] = m] /\ m \in Syncing \cup Resolving \cup {Nil}
                /\ (m # Nil => local[m.clone] # 0 /\ SyncKnows(m)')
<1>1. local[sync[p].clone] # 0
  BY DEF IInv, HeadsExist
<1>2. PICK m \in Syncing : /\ sync' = [sync EXCEPT ![p] = m] /\ m.pc = pc
                           /\ m.clone = sync[p].clone /\ m.local = sync[p].local
  BY GotoSyncing
<1>3. pc # "clear" => m.local \in DOMAIN commits'
  BY <1>2, CommitsKept
<1>4. SyncKnows(m)'
  BY <1>2, <1>3 DEF SyncKnows
<1> QED
  BY <1>1, <1>2, <1>4

\* Every move of a process leaves it with what is so after the move, in a clone that
\* has data.
LEMMA SyncMoves ==
  ASSUME IInv, [Next]_vars
  PROVE  \/ sync' = sync
         \/ \E p \in Procs : \E m :
              /\ sync' = [sync EXCEPT ![p] = m] /\ m \in Syncing \cup Resolving \cup {Nil}
              /\ m # Nil => local[m.clone] # 0 /\ SyncKnows(m)'
<1>0. /\ Shape /\ HeadsExist /\ Graph /\ commits \in Seq(Commit)
      /\ Len(commits) \in Nat /\ Len(commits') \in Nat /\ Len(commits') >= Len(commits)
      /\ DOMAIN commits = 1..Len(commits) /\ DOMAIN commits' = 1..Len(commits')
      /\ \A n \in DOMAIN commits : n \in DOMAIN commits' /\ commits'[n] = commits[n]
  BY CommitsKept DEF IInv, Shape
<1> DEFINE Goal(p) == \E m :
              /\ sync' = [sync EXCEPT ![p] = m] /\ m \in Syncing \cup Resolving \cup {Nil}
              /\ m # Nil => local[m.clone] # 0 /\ SyncKnows(m)'
<1>1. ASSUME NEW p \in Procs, NEW c \in Clones, NEW r \in Remotes, StartSync(p, c, r)
      PROVE  Goal(p)
  <2>1. PICK o \in BOOLEAN : sync' = [sync EXCEPT ![p] = Attempt(c, r, o, 1)]
    BY <1>1, SyncAssumption DEF StartSync
  <2>2. PICK m \in Syncing : m = Attempt(c, r, o, 1) /\ m.pc = "attempt" /\ m.clone = c
    BY FirstAttempt
  <2>3. local[m.clone] # 0 /\ SyncKnows(m)'
    BY <1>1, <2>2 DEF StartSync, SyncKnows
  <2> QED
    BY <2>1, <2>2, <2>3
<1>2. ASSUME NEW p \in Procs, NEW c \in Clones, NEW r \in Remotes, LoadConflictSet(p, c, r)
      PROVE  Goal(p)
  <2>1. PICK m : m = [pc |-> "resolve", clone |-> c, remote |-> r, set |-> conflicts[c][r]]
    OBVIOUS
  <2>2. conflicts[c][r] \in ConflictSets /\ conflicts[c][r] # Nil
    BY <1>0, <1>2 DEF LoadConflictSet, Shape
  <2>3. m \in Resolving /\ m.pc = "resolve" /\ m.clone = c
    BY <2>1, <2>2 DEF Resolving
  <2>4. local[m.clone] # 0 /\ SyncKnows(m)'
    BY <1>0, <2>2, <2>3 DEF HeadsExist, SyncKnows
  <2> QED
    BY <1>2, <2>1, <2>3, <2>4 DEF LoadConflictSet
<1>3. ASSUME NEW p \in Procs, BeginAttempt(p) PROVE Goal(p)
  <2>0. sync[p] \in Syncing /\ sync[p] # Nil
    BY <1>0, <1>3, SyncingAt DEF BeginAttempt
  <2>1. sync[p].clone \in Clones /\ local[sync[p].clone] # 0
    BY <1>0, <2>0 DEF Syncing, HeadsExist
  <2>2. ASSUME NEW h \in DOMAIN commits',
               sync' = [sync EXCEPT ![p] = [sync[p] EXCEPT !.pc = "fetch", !.local = h]]
        PROVE  Goal(p)
    <3>1. PICK m : m = [sync[p] EXCEPT !.pc = "fetch", !.local = h]
      OBVIOUS
    <3>2. h \in Nat
      BY <1>0
    <3>3. m \in Syncing /\ m.pc = "fetch" /\ m.local = h /\ m.clone = sync[p].clone
      BY <2>0, <3>1, <3>2 DEF Syncing
    <3>4. SyncKnows(m)'
      BY <3>3 DEF SyncKnows
    <3> QED
      BY <2>1, <2>2, <3>1, <3>3, <3>4
  <2>3. CASE work[sync[p].clone] = Nil
    <3>1. local[sync[p].clone] \in DOMAIN commits'
      BY <1>0, <2>1, JournalTreeType
    <3>2. sync' = [sync EXCEPT ![p] = [sync[p] EXCEPT !.pc = "fetch", !.local = local[sync[p].clone]]]
      BY <1>3, <2>3 DEF BeginAttempt
    <3> HIDE DEF Goal
    <3> QED
      BY <2>2, <3>1, <3>2
  <2>4. CASE work[sync[p].clone] # Nil /\ sync[p].checkpoint
    <3>1. /\ sync' = [sync EXCEPT ![p] = [sync[p] EXCEPT !.pc = "fetch", !.local = Len(commits) + 1]]
          /\ Checkpointed(sync[p].clone)
      BY <1>3, <2>4 DEF BeginAttempt
    <3>2. Len(commits') = Len(commits) + 1
      BY <2>1, <2>4, <3>1, CheckpointedMakes DEF CheckpointMade, Made
    <3>3. Len(commits) + 1 \in DOMAIN commits'
      BY <1>0, <3>2
    <3> HIDE DEF Goal
    <3> QED
      BY <2>2, <3>1, <3>3
  <2>5. CASE work[sync[p].clone] # Nil /\ ~sync[p].checkpoint
    <3>1. Return(p)
      BY <1>3, <2>5 DEF BeginAttempt
    <3> QED
      BY <2>0, <3>1, TurnEnds
  <2> QED
    BY <2>3, <2>4, <2>5
<1>4. ASSUME NEW p \in Procs, Fetch(p) PROVE Goal(p)
  <2>0. sync[p] \in Syncing /\ sync[p] # Nil /\ sync[p].pc = "fetch"
    BY <1>0, <1>4, SyncingAt DEF Fetch
  <2>1. /\ sync[p].clone \in Clones /\ sync[p].remote \in Remotes /\ local[sync[p].clone] # 0
        /\ sync[p].local \in DOMAIN commits
    BY <2>0, SyncFacts DEF SyncKnows
  <2>2. PICK m : m = [sync[p] EXCEPT !.pc = "compare", !.remoteHead = remote[sync[p].remote]]
    OBVIOUS
  <2>3. remote[sync[p].remote] \in Nat /\ remote[sync[p].remote] \in 0..Len(commits')
    BY <1>0, <2>1 DEF HeadsExist, Shape
  <2>4. /\ m \in Syncing /\ m.pc = "compare" /\ m.remoteHead = remote[sync[p].remote]
        /\ m.clone = sync[p].clone /\ m.local = sync[p].local
    BY <2>0, <2>2, <2>3 DEF Syncing
  <2>5. sync' = [sync EXCEPT ![p] = m]
    BY <1>0, <1>4, <2>2 DEF Fetch, Shape
  <2>6. m.local \in DOMAIN commits' /\ m.remoteHead \in 0..Len(commits')
    BY <1>0, <2>1, <2>3, <2>4
  <2>7. SyncKnows(m)'
    BY <2>4, <2>6 DEF SyncKnows
  <2> QED
    BY <2>1, <2>4, <2>5, <2>7
<1>5. ASSUME NEW p \in Procs, Compare(p) PROVE Goal(p)
  <2>0. sync[p] \in Syncing /\ sync[p] # Nil /\ sync[p].pc = "compare"
    BY <1>0, <1>5, SyncingAt DEF Compare
  <2>1. CASE Dirty(p) \/ Return(p)
    BY <2>0, <2>1, TurnEnds
  <2>2. ASSUME NEW m, Compares(sync[p], m), sync' = [sync EXCEPT ![p] = m] PROVE Goal(p)
    <3>1. /\ local[sync[p].clone] # 0 /\ sync[p].local \in DOMAIN commits
          /\ sync[p].remoteHead \in 0..Len(commits)
      BY <2>0, SyncFacts DEF SyncKnows
    <3>2. /\ m \in Syncing /\ m.clone = sync[p].clone /\ m.local = sync[p].local
          /\ m.remoteHead = sync[p].remoteHead
      BY <2>2 DEF Compares
    <3>3. ASSUME m.pc \in {"clear", "check"}
          PROVE  SyncKnows(m)
      BY <3>1, <3>2, <3>3 DEF SyncKnows
    <3>4. ASSUME m.pc = "forward" /\ m.remoteHead # 0 /\ MergeBases(m.local, m.remoteHead) = {m.local}
          PROVE  SyncKnows(m)
      <4>1. m.remoteHead \in DOMAIN commits /\ m.local \in Anc(m.remoteHead)
        BY <1>0, <3>1, <3>2, <3>4 DEF MergeBases
      <4> QED
        BY <3>1, <3>2, <3>4, <4>1 DEF SyncKnows
    <3>5. ASSUME m.pc = "publish" /\ Merging(m)
          PROVE  SyncKnows(m)
      BY <3>1, <3>2, <3>5 DEF SyncKnows
    <3>6. SyncKnows(m)
      BY <2>2, <3>2, <3>3, <3>4, <3>5 DEF Compares
    <3>7. SyncKnows(m)'
      BY <3>6, KnowsKept
    <3> QED
      BY <2>2, <3>1, <3>2, <3>7
  <2> HIDE DEF Goal
  <2> QED
    BY <1>5, <2>1, <2>2, CompareKinds
<1>6. ASSUME NEW p \in Procs, FastForward(p) PROVE Goal(p)
  <2>0. sync[p] \in Syncing /\ sync[p] # Nil
    BY <1>0, <1>6, SyncingAt DEF FastForward
  <2>1. Dirty(p) \/ Retry(p) \/ Goto(p, sync[p], "clear")
    BY <1>6 DEF FastForward
  <2> QED
    BY <2>0, <2>1, TurnEnds, GoesOn
<1>7. ASSUME NEW p \in Procs, PublishMerge(p) PROVE Goal(p)
  <2>0. sync[p] \in Syncing /\ sync[p] # Nil
    BY <1>0, <1>7, SyncingAt DEF PublishMerge
  <2>1. CASE Dirty(p) \/ Retry(p)
    BY <2>0, <2>1, TurnEnds
  <2>2. ASSUME MergeMade(p),
               sync' = [sync EXCEPT ![p] =
                 [Attempt(sync[p].clone, sync[p].remote, sync[p].checkpoint, sync[p].attempt)
                    EXCEPT !.pc = "check", !.local = Len(commits) + 1]]
        PROVE  Goal(p)
    <3>1. /\ sync[p].clone \in Clones /\ sync[p].remote \in Remotes
          /\ sync[p].checkpoint \in BOOLEAN /\ sync[p].attempt \in 1..maxAttempts
      BY <2>0 DEF Syncing
    <3>2. PICK a \in Syncing :
            /\ a = Attempt(sync[p].clone, sync[p].remote, sync[p].checkpoint, sync[p].attempt)
            /\ a.clone = sync[p].clone
      BY <3>1, AttemptType
    <3>3. PICK m : m = [a EXCEPT !.pc = "check", !.local = Len(commits) + 1]
      OBVIOUS
    <3>4. Len(commits) + 1 \in Nat
      BY <1>0
    <3>5. /\ m \in Syncing /\ m.pc = "check" /\ m.local = Len(commits) + 1
          /\ m.clone = sync[p].clone
      BY <3>2, <3>3, <3>4 DEF Syncing
    <3>6. Len(commits') = Len(commits) + 1
      BY <2>2 DEF MergeMade, Made
    <3>7. m.local \in DOMAIN commits'
      BY <1>0, <3>5, <3>6
    <3>8. SyncKnows(m)' /\ local[m.clone] # 0
      BY <1>0, <2>0, <3>5, <3>7 DEF SyncKnows, HeadsExist
    <3>9. sync' = [sync EXCEPT ![p] = m]
      BY <2>2, <3>2, <3>3
    <3> QED
      BY <3>5, <3>8, <3>9
  <2> HIDE DEF Goal
  <2> QED
    BY <1>7, <2>1, <2>2, PublishMergeMakes
<1>8. ASSUME NEW p \in Procs, PushCheck(p) PROVE Goal(p)
  <2>0. sync[p] \in Syncing /\ sync[p] # Nil /\ sync[p].pc = "check"
    BY <1>0, <1>8, SyncingAt DEF PushCheck
  <2>1. sync[p].local \in DOMAIN commits
    BY <2>0, SyncFacts DEF SyncKnows
  <2>2. Retry(p) \/ Goto(p, sync[p], "push")
    BY <1>8 DEF PushCheck
  <2> QED
    BY <2>0, <2>1, <2>2, TurnEnds, GoesOn
<1>9. ASSUME NEW p \in Procs, Push(p) PROVE Goal(p)
  <2>0. sync[p] \in Syncing /\ sync[p] # Nil
    BY <1>0, <1>9, SyncingAt DEF Push
  <2>1. Retry(p) \/ Goto(p, sync[p], "clear")
    BY <1>9 DEF Push
  <2> QED
    BY <2>0, <2>1, TurnEnds, GoesOn
<1>10. ASSUME NEW p \in Procs, ClearConflictSet(p) \/ Abandon(p) PROVE Goal(p)
  BY <1>10 DEF ClearConflictSet, Abandon, Return
<1>11. ASSUME NEW p \in Procs, Resolve(p) PROVE Goal(p)
  <2>0. sync[p] \in Resolving /\ sync[p] # Nil
    BY <1>0, <1>11, ResolvingAt DEF Resolve
  <2>1. /\ sync[p].clone \in Clones /\ sync[p].remote \in Remotes /\ local[sync[p].clone] # 0
    BY <2>0, SyncFacts
  <2>2. PICK a \in Syncing :
          /\ a = Attempt(sync[p].clone, sync[p].remote, FALSE, 1)
          /\ a.clone = sync[p].clone /\ a.pc = "attempt"
    BY <2>1, FirstAttempt
  <2>3. sync' = [sync EXCEPT ![p] = a] \/ sync' = [sync EXCEPT ![p] = Nil]
    BY <1>11, <2>2 DEF Resolve
  <2>4. SyncKnows(a)'
    BY <2>2 DEF SyncKnows
  <2> QED
    BY <2>1, <2>2, <2>3, <2>4
<1>12. ASSUME NEW c \in Clones, JournalCommit(c) \/ Checkpoint(c) \/ Enable(c)
      PROVE  sync' = sync
  BY <1>12 DEF JournalCommit, Checkpoint, Enable
<1>13. ASSUME UNCHANGED vars PROVE sync' = sync
  BY <1>13 DEF vars
<1>14. sync' = sync \/ \E p \in Procs : Goal(p)
  <2> HIDE DEF Goal
  <2>1. ASSUME NEW p \in Procs, SyncStep(p) PROVE Goal(p)
    BY <1>3, <1>4, <1>5, <1>6, <1>7, <1>8, <1>9, <1>10, <1>11, <2>1 DEF SyncStep
  <2> QED
    BY <1>1, <1>2, <1>10, <1>12, <1>13, <2>1 DEF Next
<1> QED
  BY <1>14

\* Every step keeps what the running syncs know of the commits they hold.
LEMMA SyncsKnowStep == IInv /\ [Next]_vars => SyncsKnow'
<1> SUFFICES ASSUME IInv, [Next]_vars, NEW q \in Procs, sync'[q] # Nil
             PROVE  SyncKnows(sync[q])'
  BY DEF SyncsKnow
<1>0. Shape
  BY DEF IInv
<1>1. PICK s : s = sync'[q]
  OBVIOUS
<1>2. SyncKnows(s)'
  <2>1. CASE sync'[q] = sync[q]
    <3>1. SyncKnows(s)
      BY <1>1, <2>1 DEF IInv, SyncsKnow
    <3> QED
      BY <3>1, KnowsKept
  <2>2. CASE sync'[q] # sync[q]
    <3>1. PICK p \in Procs : \E m :
              /\ sync' = [sync EXCEPT ![p] = m] /\ m \in Syncing \cup Resolving \cup {Nil}
              /\ m # Nil => local[m.clone] # 0 /\ SyncKnows(m)'
      BY <2>2, SyncMoves
    <3>2. PICK m :
              /\ sync' = [sync EXCEPT ![p] = m] /\ m \in Syncing \cup Resolving \cup {Nil}
              /\ m # Nil => local[m.clone] # 0 /\ SyncKnows(m)'
      BY <3>1
    <3>3. q = p /\ m = s
      BY <1>0, <1>1, <2>2, <3>2, SyncPut DEF Shape
    <3> QED
      BY <1>1, <3>2, <3>3
  <2> QED
    BY <2>1, <2>2
<1> QED
  BY <1>1, <1>2

\* Conflict files are written in clones that have data.
LEMMA ConflictsMove ==
  ASSUME IInv, [Next]_vars, NEW d \in Clones, NEW q \in Remotes, conflicts'[d][q] # Nil
  PROVE  local[d] # 0
<1>0. Shape /\ HeadsExist
  BY DEF IInv
<1>1. ASSUME NEW p \in Procs, sync[p] # Nil,
             \E set \in ConflictSets \cup {Nil} :
               conflicts' = [conflicts EXCEPT ![sync[p].clone][sync[p].remote] = set]
      PROVE  local[d] # 0
  <2>1. sync[p].clone \in Clones /\ sync[p].remote \in Remotes /\ local[sync[p].clone] # 0
    BY <1>1, SyncFacts
  <2>2. PICK set \in ConflictSets \cup {Nil} :
          conflicts' = [conflicts EXCEPT ![sync[p].clone][sync[p].remote] = set]
    BY <1>1
  <2>3. conflicts'[d][q] = conflicts[d][q] \/ d = sync[p].clone
    BY <1>0, <2>1, <2>2, ConflictsPut
  <2> QED
    BY <1>0, <2>1, <2>3 DEF HeadsExist
<1>2. CASE conflicts' = conflicts
  BY <1>0, <1>2 DEF HeadsExist
<1>3. ASSUME NEW p \in Procs, Compare(p) PROVE local[d] # 0
  <2>1. sync[p] # Nil
    BY <1>3 DEF Compare, At
  <2>2. \/ conflicts' = conflicts
        \/ \E set \in ConflictSets :
             conflicts' = [conflicts EXCEPT ![sync[p].clone][sync[p].remote] = set]
    BY <1>3, CompareKinds
  <2> QED
    BY <1>1, <1>2, <2>1, <2>2
<1>4. ASSUME NEW p \in Procs, ClearConflictSet(p) PROVE local[d] # 0
  <2>1. /\ sync[p] # Nil
        /\ conflicts' = [conflicts EXCEPT ![sync[p].clone][sync[p].remote] = Nil]
    BY <1>4 DEF ClearConflictSet, At
  <2> QED
    BY <1>1, <2>1
<1>5. ASSUME NEW p \in Procs, Resolve(p) PROVE local[d] # 0
  <2>1. sync[p] # Nil /\ sync[p] \in Resolving
    BY <1>0, <1>5, ResolvingAt DEF Resolve
  <2>2. \E v : conflicts' = [conflicts EXCEPT ![sync[p].clone][sync[p].remote] = v]
    BY <1>5 DEF Resolve
  <2>3. PICK v : conflicts' = [conflicts EXCEPT ![sync[p].clone][sync[p].remote] = v]
    BY <2>2
  <2>4. sync[p].clone \in Clones /\ local[sync[p].clone] # 0
    BY <2>1, SyncFacts
  <2>5. d # sync[p].clone => conflicts'[d][q] = conflicts[d][q]
    BY <1>0, <2>3, <2>4 DEF Shape
  <2> QED
    BY <1>0, <2>4, <2>5 DEF HeadsExist
<1>6. ASSUME NEW c \in Clones, JournalCommit(c) \/ Checkpoint(c) \/ Enable(c)
      PROVE  conflicts' = conflicts
  BY <1>6 DEF JournalCommit, Checkpoint, Enable
<1>7. ASSUME NEW p \in Procs,
             \/ BeginAttempt(p) \/ Fetch(p) \/ FastForward(p) \/ PublishMerge(p)
             \/ PushCheck(p) \/ Push(p) \/ Abandon(p)
             \/ \E c \in Clones, r \in Remotes :
                  StartSync(p, c, r) \/ LoadConflictSet(p, c, r)
      PROVE  conflicts' = conflicts
  BY <1>7 DEF BeginAttempt, Fetch, FastForward, PublishMerge, PushCheck, Push, Abandon,
              StartSync, LoadConflictSet
<1>8. ASSUME UNCHANGED vars PROVE conflicts' = conflicts
  BY <1>8 DEF vars
<1> QED
  BY <1>2, <1>3, <1>4, <1>5, <1>6, <1>7, <1>8 DEF Next, SyncStep

\* Every step keeps heads among the commits and journals based on their clone's head.
LEMMA HeadsExistStep == IInv /\ [Next]_vars => HeadsExist'
<1> SUFFICES ASSUME IInv, [Next]_vars PROVE HeadsExist'
  OBVIOUS
<1>0. /\ Shape /\ HeadsExist /\ Len(commits) \in Nat /\ Len(commits') \in Nat
      /\ Len(commits') >= Len(commits)
      /\ DOMAIN commits = 1..Len(commits) /\ DOMAIN commits' = 1..Len(commits')
  BY CommitsKept DEF IInv
<1>1. ASSUME NEW c \in Clones
      PROVE  /\ local'[c] \in 0..Len(commits') /\ (local[c] # 0 => local'[c] # 0)
             /\ local'[c] # local[c] => work'[c] = Nil
  <2>1. CASE local' = local
    BY <1>0, <2>1 DEF HeadsExist
  <2>2. CASE local' # local
    <3>1. PICK d \in Clones, h \in DOMAIN commits' :
            local' = [local EXCEPT ![d] = h] /\ work'[d] = Nil
      BY <2>2, LocalMoves
    <3>2. local'[c] = IF c = d THEN h ELSE local[c]
      BY <1>0, <3>1 DEF Shape
    <3> QED
      BY <1>0, <3>1, <3>2 DEF HeadsExist
  <2> QED
    BY <2>1, <2>2
<1>2. ASSUME NEW r \in Remotes PROVE remote'[r] \in 0..Len(commits')
  <2>1. CASE remote' = remote
    BY <1>0, <2>1 DEF HeadsExist
  <2>2. CASE remote' # remote
    <3>1. PICK q \in Remotes, h \in DOMAIN commits : remote' = [remote EXCEPT ![q] = h]
      BY <2>2, RemoteMoves
    <3>2. remote'[r] = IF r = q THEN h ELSE remote[r]
      BY <1>0, <3>1 DEF Shape
    <3> QED
      BY <1>0, <3>2 DEF HeadsExist
  <2> QED
    BY <2>1, <2>2
<1>3. ASSUME NEW c \in Clones, work'[c] # Nil
      PROVE  local'[c] # 0 /\ work'[c].base = local'[c]
  <2>1. local'[c] = local[c]
    BY <1>1, <1>3
  <2>2. CASE work' = work
    BY <1>0, <1>3, <2>1, <2>2 DEF HeadsExist
  <2>3. ASSUME NEW d \in Clones, JournalCommit(d) PROVE local[c] # 0 /\ work'[c].base = local[c]
    <3>1. PICK t \in Tables, v \in TableVersions \cup {NoTable}, kind \in EditKinds, k \in Keys,
               key \in IndexKeys \cup {Null} : Edits(d, t, v, kind, k, key)
      BY <2>3, JournalWrites
    <3>2. local[d] # 0
      BY <2>3, JournalWrites
    <3>3. /\ c = d => work'[c].base = local[d]
          /\ c # d => work'[c] = work[c]
      BY <1>0, <3>1 DEF Edits, Shape
    <3> QED
      BY <1>0, <1>3, <3>2, <3>3 DEF HeadsExist
  <2>4. ASSUME NEW d \in Clones, CheckpointMade(d) PROVE local[c] # 0 /\ work'[c].base = local[c]
    <3>1. work'[c] = work[c]
      BY <1>0, <1>3, <2>4 DEF CheckpointMade, Shape
    <3> QED
      BY <1>0, <1>3, <3>1 DEF HeadsExist
  <2> QED
    BY <2>1, <2>2, <2>3, <2>4, Kinds
<1>4. ASSUME NEW c \in Clones, NEW r \in Remotes, conflicts'[c][r] # Nil PROVE local'[c] # 0
  BY <1>1, <1>4, ConflictsMove
<1>5. ASSUME NEW q \in Procs, sync'[q] # Nil PROVE local'[sync'[q].clone] # 0
  <2>1. sync'[q].clone \in Clones
    <3>1. sync'[q] \in Syncing \cup Resolving
      BY <1>5, ShapeStep DEF Shape
    <3> QED
      BY <3>1 DEF Syncing, Resolving
  <2>2. local[sync'[q].clone] # 0
    <3>1. CASE sync'[q] = sync[q]
      BY <1>0, <1>5, <3>1 DEF HeadsExist
    <3>2. CASE sync'[q] # sync[q]
      <4>1. PICK p \in Procs : \E m :
                /\ sync' = [sync EXCEPT ![p] = m] /\ m \in Syncing \cup Resolving \cup {Nil}
                /\ m # Nil => local[m.clone] # 0
        BY <3>2, SyncMoves
      <4>2. PICK m :
                /\ sync' = [sync EXCEPT ![p] = m] /\ m \in Syncing \cup Resolving \cup {Nil}
                /\ m # Nil => local[m.clone] # 0
        BY <4>1
      <4>3. q = p /\ m = sync'[q]
        BY <1>0, <3>2, <4>2, SyncPut DEF Shape
      <4> QED
        BY <1>5, <4>2, <4>3
    <3> QED
      BY <3>1, <3>2
  <2> QED
    BY <1>1, <2>1, <2>2
<1> QED
  BY <1>1, <1>2, <1>3, <1>4, <1>5 DEF HeadsExist

-----------------------------------------------------------------------------
(* Snapshots: unique keys and the numbers of values.                        *)

\* The three kinds of a new commit h: the journal of a clone, a merge, and the root
\* of a history.
EditAdds(h, c) ==
  /\ work[c] # Nil /\ work[c].base = local[c] /\ local[c] \in DOMAIN commits
  /\ work[c].tree \in Trees /\ work' = [work EXCEPT ![c] = Nil]
  /\ commits'[h].parents = {local[c]} /\ commits'[h].base = local[c]
  /\ commits'[h].tree = work[c].tree /\ commits'[h].decided = {}
  /\ commits'[h].anc = {h} \cup Anc(local[c])

MergeAdds(h, s) ==
  /\ Merging(s) /\ s.local \in DOMAIN commits /\ s.base \in DOMAIN commits /\ work' = work
  /\ commits'[h].parents = {s.local, s.remoteHead} /\ commits'[h].base = s.base
  /\ commits'[h].tree = s.tree /\ commits'[h].decided = s.decided
  /\ commits'[h].anc = {h} \cup Anc(s.local) \cup Anc(s.remoteHead)

RootAdds(h) ==
  /\ work' = work /\ commits'[h].parents = {} /\ commits'[h].base = 0
  /\ commits'[h].tree = [t \in Tables |-> NoTable] /\ commits'[h].anc = {h}

\* A commit a step adds is a checkpoint, a merge or a root.
LEMMA Grows ==
  ASSUME IInv, [Next]_vars, NEW h \in DOMAIN commits', h \notin DOMAIN commits
  PROVE  /\ h = Len(commits) + 1 /\ edits' = edits
         /\ \/ \E c \in Clones : EditAdds(h, c)
            \/ \E p \in Procs : MergeAdds(h, sync[p])
            \/ RootAdds(h)
<1>0. /\ commits \in Seq(Commit) /\ Len(commits) \in Nat /\ Len(commits') \in Nat
      /\ DOMAIN commits = 1..Len(commits) /\ DOMAIN commits' = 1..Len(commits')
      /\ Graph /\ HeadsExist
  BY CommitsKept DEF IInv, Shape
<1>1. ASSUME NEW c \in Clones, CheckpointMade(c) PROVE h = Len(commits) + 1 /\ EditAdds(h, c)
  <2>1. work[c] # Nil /\ local[c] # 0 /\ work[c].base = local[c]
    BY <1>0, <1>1 DEF CheckpointMade, HeadsExist
  <2>2. local[c] \in DOMAIN commits /\ work[c].tree \in Trees
    BY <2>1, JournalTreeType DEF JournalTree
  <2>3. h = Len(commits) + 1
    BY <1>0, <1>1 DEF CheckpointMade, Made
  <2> QED
    BY <1>1, <2>1, <2>2, <2>3 DEF CheckpointMade, Made, EditAdds
<1>2. ASSUME NEW p \in Procs, MergeMade(p), work' = work
      PROVE  h = Len(commits) + 1 /\ MergeAdds(h, sync[p])
  <2>1. Merging(sync[p]) /\ sync[p].local \in DOMAIN commits
    BY <1>2 DEF MergeMade
  <2>2. sync[p].base \in DOMAIN commits
    <3>1. sync[p].base \in 1..sync[p].local /\ sync[p].local \in 1..Len(commits)
      BY <1>0, <2>1 DEF Merging, Graph
    <3> QED
      BY <1>0, <3>1
  <2>3. h = Len(commits) + 1
    BY <1>0, <1>2 DEF MergeMade, Made
  <2>4. /\ commits'[h].parents = {sync[p].local, sync[p].remoteHead}
        /\ commits'[h].base = sync[p].base /\ commits'[h].tree = sync[p].tree
        /\ commits'[h].decided = sync[p].decided
        /\ commits'[h].anc = {h} \cup UNION {Anc(q) : q \in {sync[p].local, sync[p].remoteHead}}
    BY <1>2, <2>3 DEF MergeMade, Made
  <2> QED
    BY <1>2, <2>1, <2>2, <2>3, <2>4 DEF MergeAdds
<1>3. ASSUME RootMade, work' = work PROVE h = Len(commits) + 1 /\ RootAdds(h)
  <2>1. h = Len(commits) + 1
    BY <1>0, <1>3 DEF RootMade, Made
  <2> QED
    BY <1>3, <2>1 DEF RootMade, Made, RootAdds
<1>4. ~UNCHANGED commits
  OBVIOUS
<1> QED
  BY <1>1, <1>2, <1>3, <1>4, Kinds DEF JournalCommit

\* Every step keeps the unique keys of the commits' and journals' rows distinct.
LEMMA UniqueKeysStep == IInv /\ [Next]_vars => UniqueKeys'
<1> SUFFICES ASSUME IInv, [Next]_vars PROVE UniqueKeys'
  OBVIOUS
<1>0. UniqueKeys /\ Shape
  BY DEF IInv
<1>1. ASSUME NEW n \in DOMAIN commits' PROVE UniqueTree(commits'[n].tree)
  <2>1. CASE n \in DOMAIN commits
    BY <1>0, <2>1, CommitKept DEF UniqueKeys, Tree
  <2>2. ASSUME NEW c \in Clones, EditAdds(n, c) PROVE UniqueTree(commits'[n].tree)
    BY <1>0, <2>2 DEF EditAdds, UniqueKeys
  <2>3. ASSUME NEW p \in Procs, MergeAdds(n, sync[p]) PROVE UniqueTree(commits'[n].tree)
    BY <2>3 DEF MergeAdds, Merging
  <2>4. ASSUME RootAdds(n) PROVE UniqueTree(commits'[n].tree)
    BY <2>4 DEF RootAdds, UniqueTree, UniqueTable
  <2> QED
    BY <1>1, <2>1, <2>2, <2>3, <2>4, Grows
<1>2. ASSUME NEW c \in Clones, work'[c] # Nil PROVE UniqueTree(work'[c].tree)
  <2>1. CASE work' = work
    BY <1>0, <1>2, <2>1 DEF UniqueKeys
  <2>2. ASSUME NEW d \in Clones, JournalCommit(d) PROVE UniqueTree(work'[c].tree)
    <3>1. PICK t \in Tables, v \in TableVersions \cup {NoTable}, kind \in EditKinds, k \in Keys,
               key \in IndexKeys \cup {Null} : Edits(d, t, v, kind, k, key)
      BY <2>2, JournalWrites
    <3>2. /\ UniqueTable(v) /\ local[d] # 0
          /\ work' = [work EXCEPT ![d] =
               [base |-> local[d], tree |-> [JournalTree(d) EXCEPT ![t] = v]]]
      BY <2>2, <3>1, JournalWrites DEF Edits
    <3>3. JournalTree(d) \in Trees /\ local[d] \in DOMAIN commits
      BY <3>2, JournalTreeType
    <3>4. UniqueTree(JournalTree(d))
      BY <1>0, <3>3 DEF UniqueKeys, JournalTree
    <3>5. UniqueTree([JournalTree(d) EXCEPT ![t] = v])
      BY <3>2, <3>3, <3>4 DEF UniqueTree, Trees
    <3>6. CASE c = d
      BY <1>0, <3>2, <3>5, <3>6 DEF Shape
    <3>7. CASE c # d
      BY <1>0, <1>2, <3>2, <3>7 DEF Shape, UniqueKeys
    <3> QED
      BY <3>6, <3>7
  <2>3. ASSUME NEW d \in Clones, CheckpointMade(d) PROVE UniqueTree(work'[c].tree)
    BY <1>0, <1>2, <2>3 DEF CheckpointMade, Shape, UniqueKeys
  <2> QED
    BY <2>1, <2>2, <2>3, Kinds
<1> QED
  BY <1>1, <1>2 DEF UniqueKeys, Tree

\* Numbers are numbers.
LEMMA StampType ==
  ASSUME NEW tree \in Trees, NEW x \in Cells, CellOf(tree, x) # Absent
  PROVE  Stamp(CellOf(tree, x), x) \in Nat
<1>1. CASE \E t \in Tables : x = <<t>>
  <2>1. PICK t \in Tables : x = <<t>>
    BY <1>1
  <2>2. tree[t] \in TableVersions \/ tree[t] = NoTable
    BY DEF Trees
  <2> QED
    BY <2>1, <2>2 DEF CellOf, Stamp, TableVersions
<1>2. CASE \E t \in Tables, k \in Keys : x = <<t, k>>
  <2>1. PICK t \in Tables, k \in Keys : x = <<t, k>>
    BY <1>2
  <2>2. tree[t] \in TableVersions \/ tree[t] = NoTable
    BY DEF Trees
  <2>3. CellOf(tree, x) \in [by : Nat, key : IndexKeys \cup {Null}]
    BY <2>1, <2>2 DEF CellOf, TableVersions
  <2> QED
    BY <2>1, <2>3 DEF Stamp
<1> QED
  BY <1>1, <1>2, CellKinds

\* A tree with no value newer than the last transaction has none later either.
LEMMA NumberedKept ==
  ASSUME NEW tree \in Trees, Numbered(tree), edits \in Nat, edits' \in Nat, edits' >= edits
  PROVE  Numbered(tree)'
<1> SUFFICES ASSUME NEW x \in Cells, CellOf(tree, x) # Absent
             PROVE  Stamp(CellOf(tree, x), x) <= edits'
  BY DEF Numbered
<1>1. Stamp(CellOf(tree, x), x) \in Nat /\ Stamp(CellOf(tree, x), x) <= edits
  BY StampType DEF Numbered
<1> QED
  BY <1>1

\* The cells of an edited table: deleted, as they were, or with the new number.
LEMMA EditedCells ==
  ASSUME NEW tree \in Trees, NEW t \in Tables, NEW kind \in EditKinds, NEW k \in Keys,
         NEW key \in IndexKeys \cup {Null}, NEW n \in Nat,
         NEW v, v = Edited(tree[t], kind, k, key, n), kind # "schema" => tree[t] # NoTable,
         NEW x \in Cells
  PROVE  LET new == [tree EXCEPT ![t] = v]
         IN \/ CellOf(new, x) = Absent
            \/ CellOf(new, x) = CellOf(tree, x)
            \/ Stamp(CellOf(new, x), x) = n
<1> DEFINE new == [tree EXCEPT ![t] = v]
<1> SUFFICES \/ CellOf(new, x) = Absent
             \/ CellOf(new, x) = CellOf(tree, x)
             \/ Stamp(CellOf(new, x), x) = n
  OBVIOUS
<1>0. /\ new[t] = v /\ \A u \in Tables : u # t => new[u] = tree[u]
      /\ tree[t] \in TableVersions \cup {NoTable} /\ NoTable \notin TableVersions
  BY SyncAssumption DEF Trees
<1> HIDE DEF new
<1>1. CASE x[1] # t
  <2>1. x[1] \in Tables
    BY CellKinds
  <2>2. new[x[1]] = tree[x[1]]
    BY <1>0, <1>1, <2>1
  <2> QED
    BY <2>2 DEF CellOf
<1>2. CASE v = NoTable /\ x[1] = t
  BY <1>0, <1>2 DEF CellOf
<1>3. CASE v # NoTable /\ x[1] = t /\ kind = "put"
  <2>1. tree[t] \in TableVersions /\ v = [tree[t] EXCEPT !.rows[k] = [by |-> n, key |-> key]]
    BY <1>0, <1>3 DEF Edited
  <2>2. /\ v.schema = tree[t].schema /\ v.rows[k] = [by |-> n, key |-> key]
        /\ \A j \in Keys : j # k => v.rows[j] = tree[t].rows[j]
    BY <2>1 DEF TableVersions
  <2>3. CASE x = <<t>>
    BY <1>0, <1>3, <2>1, <2>2, <2>3 DEF CellOf
  <2>4. ASSUME NEW j \in Keys, x = <<t, j>>
        PROVE  CellOf(new, x) = CellOf(tree, x) \/ Stamp(CellOf(new, x), x) = n
    <3>1. CellOf(new, x) = v.rows[j] /\ CellOf(tree, x) = tree[t].rows[j]
      BY <1>0, <1>3, <2>1, <2>4 DEF CellOf
    <3>2. CASE j # k
      BY <2>2, <3>1, <3>2
    <3>3. CASE j = k
      <4>1. CellOf(new, x).by = n
        BY <2>2, <3>1, <3>3
      <4> QED
        BY <2>4, <4>1 DEF Stamp
    <3> QED
      BY <3>2, <3>3
  <2> QED
    BY <1>3, <2>3, <2>4, CellKinds
<1>4. CASE v # NoTable /\ x[1] = t /\ kind = "delete"
  <2>1. tree[t] \in TableVersions /\ v = [tree[t] EXCEPT !.rows[k] = Absent]
    BY <1>0, <1>4 DEF Edited
  <2>2. /\ v.schema = tree[t].schema /\ v.rows[k] = Absent
        /\ \A j \in Keys : j # k => v.rows[j] = tree[t].rows[j]
    BY <2>1 DEF TableVersions
  <2>3. CASE x = <<t>>
    BY <1>0, <1>4, <2>1, <2>2, <2>3 DEF CellOf
  <2>4. ASSUME NEW j \in Keys, x = <<t, j>>
        PROVE  CellOf(new, x) = CellOf(tree, x) \/ CellOf(new, x) = Absent
    <3>1. CellOf(new, x) = v.rows[j] /\ CellOf(tree, x) = tree[t].rows[j]
      BY <1>0, <1>4, <2>1, <2>4 DEF CellOf
    <3> QED
      BY <2>2, <3>1
  <2> QED
    BY <1>4, <2>3, <2>4, CellKinds
<1>5. CASE v # NoTable /\ x[1] = t /\ kind = "schema" /\ tree[t] = NoTable
  <2>1. v = [schema |-> n, rows |-> [j \in Keys |-> Absent]]
    BY <1>5 DEF Edited, EmptyTable
  <2>2. v.schema = n /\ \A j \in Keys : v.rows[j] = Absent
    BY <2>1
  <2>3. CASE x = <<t>>
    BY <1>0, <1>5, <2>2, <2>3 DEF CellOf, Stamp
  <2>4. ASSUME NEW j \in Keys, x = <<t, j>> PROVE CellOf(new, x) = Absent
    BY <1>0, <1>5, <2>2, <2>4 DEF CellOf
  <2> QED
    BY <1>5, <2>3, <2>4, CellKinds
<1>6. CASE v # NoTable /\ x[1] = t /\ kind = "schema" /\ tree[t] # NoTable
  <2>1. v = [tree[t] EXCEPT !.schema = n] /\ tree[t] \in TableVersions
    BY <1>0, <1>6 DEF Edited
  <2>2. v.schema = n /\ v.rows = tree[t].rows
    BY <2>1 DEF TableVersions
  <2>3. CASE x = <<t>>
    BY <1>0, <1>6, <2>2, <2>3 DEF CellOf, Stamp
  <2>4. ASSUME NEW j \in Keys, x = <<t, j>> PROVE CellOf(new, x) = CellOf(tree, x)
    BY <1>0, <1>6, <2>2, <2>4 DEF CellOf
  <2> QED
    BY <1>6, <2>3, <2>4, CellKinds
<1>7. kind = "drop" => v = NoTable
  BY DEF Edited
<1> QED
  BY <1>1, <1>2, <1>3, <1>4, <1>5, <1>6, <1>7, SyncAssumption

\* Where the cells of commits come from: older commits, and the journal of the clone
\* that publishes it.
LEMMA CommitCells ==
  ASSUME IInv, [Next]_vars, NEW h \in DOMAIN commits', NEW x \in Cells
  PROVE  \/ CellOf(commits'[h].tree, x) = Absent
         \/ \E n \in DOMAIN commits : CellOf(commits'[h].tree, x) = CellOf(Tree(n), x)
         \/ \E c \in Clones : /\ work[c] # Nil /\ work'[c] = Nil
                              /\ CellOf(commits'[h].tree, x) = CellOf(work[c].tree, x)
<1>1. CASE h \in DOMAIN commits
  BY <1>1, CommitKept DEF Tree
<1>2. ASSUME NEW c \in Clones, EditAdds(h, c)
      PROVE  /\ work[c] # Nil /\ work'[c] = Nil
             /\ CellOf(commits'[h].tree, x) = CellOf(work[c].tree, x)
  BY <1>2 DEF EditAdds, IInv, Shape
<1>3. ASSUME NEW p \in Procs, MergeAdds(h, sync[p])
      PROVE  \/ CellOf(commits'[h].tree, x) = Absent
             \/ \E n \in DOMAIN commits : CellOf(commits'[h].tree, x) = CellOf(Tree(n), x)
  <2> DEFINE s == sync[p]
  <2>1. /\ s.local \in DOMAIN commits /\ s.remoteHead \in DOMAIN commits
        /\ s.base \in DOMAIN commits /\ commits'[h].tree = s.tree
        /\ MergeOf(s.tree, Tree(s.base), Tree(s.local), Tree(s.remoteHead), s.decided)
    BY <1>3 DEF MergeAdds, Merging
  <2>2. CellOf(s.tree, x) \in {CellOf(Tree(s.base), x), CellOf(Tree(s.local), x),
                               CellOf(Tree(s.remoteHead), x), Absent}
    BY <2>1 DEF MergeOf
  <2> HIDE DEF s
  <2> QED
    BY <2>1, <2>2
<1>4. ASSUME RootAdds(h) PROVE CellOf(commits'[h].tree, x) = Absent
  <2>1. x[1] \in Tables
    BY CellKinds
  <2> QED
    BY <1>4, <2>1 DEF RootAdds, CellOf
<1> QED
  BY <1>1, <1>2, <1>3, <1>4, Grows

\* Where the cells of a journal come from: its base, itself, and the transaction.
LEMMA JournalCells ==
  ASSUME IInv, [Next]_vars, NEW c \in Clones, work'[c] # Nil, NEW x \in Cells
  PROVE  \/ CellOf(work'[c].tree, x) = Absent
         \/ /\ work'[c].base \in DOMAIN commits
            /\ CellOf(work'[c].tree, x) = CellOf(Tree(work'[c].base), x)
         \/ /\ work[c] # Nil /\ work'[c].base = work[c].base
            /\ CellOf(work'[c].tree, x) = CellOf(work[c].tree, x)
         \/ /\ Stamp(CellOf(work'[c].tree, x), x) = edits + 1 /\ edits' = edits + 1
            /\ commits' = commits /\ \A d \in Clones : d # c => work'[d] = work[d]
<1>0. Shape /\ edits \in Nat
  BY DEF IInv, Shape
<1>1. CASE work' = work
  BY <1>1
<1>2. ASSUME NEW d \in Clones, CheckpointMade(d) PROVE work'[c] = work[c]
  BY <1>0, <1>2 DEF CheckpointMade, Shape
<1>3. ASSUME NEW d \in Clones, JournalCommit(d), d # c PROVE work'[c] = work[c]
  BY <1>0, <1>3, JournalWrites DEF Edits, Shape
<1>4. CASE JournalCommit(c)
  <2>1. PICK t \in Tables, v \in TableVersions \cup {NoTable}, kind \in EditKinds, k \in Keys,
             key \in IndexKeys \cup {Null} : Edits(c, t, v, kind, k, key)
    BY <1>4, JournalWrites
  <2>2. local[c] # 0 /\ edits' = edits + 1 /\ commits' = commits
    BY <1>4, JournalWrites
  <2>3. local[c] \in DOMAIN commits /\ JournalTree(c) \in Trees
    BY <2>2, JournalTreeType
  <2> DEFINE new == [JournalTree(c) EXCEPT ![t] = v]
  <2>4. work' = [work EXCEPT ![c] = [base |-> local[c], tree |-> new]]
    BY <2>1 DEF Edits
  <2>5. \/ CellOf(new, x) = Absent
        \/ CellOf(new, x) = CellOf(JournalTree(c), x)
        \/ Stamp(CellOf(new, x), x) = edits + 1
    <3>1. /\ v = Edited(JournalTree(c)[t], kind, k, key, edits + 1)
          /\ kind # "schema" => JournalTree(c)[t] # NoTable
      BY <2>1 DEF Edits
    <3>2. edits + 1 \in Nat
      BY <1>0
    <3> QED
      BY <2>3, <3>1, <3>2, EditedCells
  <2> HIDE DEF new
  <2>6. /\ work'[c].tree = new /\ work'[c].base = local[c]
        /\ \A d \in Clones : d # c => work'[d] = work[d]
    BY <1>0, <2>4 DEF Shape
  <2>7. CASE work[c] = Nil
    <3>1. JournalTree(c) = Tree(local[c])
      BY <2>7 DEF JournalTree
    <3> QED
      BY <2>2, <2>3, <2>5, <2>6, <3>1
  <2>8. CASE work[c] # Nil
    <3>1. JournalTree(c) = work[c].tree /\ work[c].base = local[c]
      BY <2>8 DEF JournalTree, IInv, HeadsExist
    <3> QED
      BY <2>2, <2>5, <2>6, <2>8, <3>1
  <2> QED
    BY <2>7, <2>8
<1> QED
  BY <1>1, <1>2, <1>3, <1>4, Kinds

\* Every step keeps values no newer than the last transaction, and what a journal wrote out of
\* everything else.
LEMMA ValuesStep == IInv /\ [Next]_vars => Values'
<1> SUFFICES ASSUME IInv, [Next]_vars PROVE Values'
  OBVIOUS
<1>0. /\ Shape /\ Shape' /\ Values /\ HeadsExist /\ HeadsExist' /\ commits \in Seq(Commit)
  BY ShapeStep, HeadsExistStep DEF IInv, Shape
<1>1. edits \in Nat /\ edits' \in Nat /\ edits' >= edits
  <2>1. edits \in Nat
    BY <1>0 DEF Shape
  <2>2. edits' = edits \/ edits' = edits + 1
    BY Kinds DEF JournalCommit
  <2> QED
    BY <2>1, <2>2
<1>2. ASSUME NEW n \in DOMAIN commits, NEW x \in Cells, CellOf(Tree(n), x) # Absent
      PROVE  Stamp(CellOf(Tree(n), x), x) \in Nat /\ Stamp(CellOf(Tree(n), x), x) <= edits
  <2>1. Tree(n) \in Trees /\ Numbered(Tree(n))
    BY <1>0, TreeType DEF Values
  <2> QED
    BY <1>2, <2>1, StampType DEF Numbered
<1>3. ASSUME NEW c \in Clones, NEW x \in Cells, work[c] # Nil, CellOf(work[c].tree, x) # Absent
      PROVE  Stamp(CellOf(work[c].tree, x), x) \in Nat /\ Stamp(CellOf(work[c].tree, x), x) <= edits
  <2>1. work[c].tree \in Trees /\ Numbered(work[c].tree)
    BY <1>0, <1>3 DEF Shape, Journals, Values
  <2> QED
    BY <1>3, <2>1, StampType DEF Numbered
<1>4. ASSUME NEW n \in DOMAIN commits' PROVE Numbered(Tree(n))'
  <2> SUFFICES ASSUME NEW x \in Cells, CellOf(commits'[n].tree, x) # Absent
               PROVE  Stamp(CellOf(commits'[n].tree, x), x) <= edits'
    BY DEF Numbered, Tree
  <2> QED
    BY <1>1, <1>2, <1>3, CommitCells
<1>5. ASSUME NEW c \in Clones, work'[c] # Nil PROVE Numbered(work[c].tree)'
  <2> SUFFICES ASSUME NEW x \in Cells, CellOf(work'[c].tree, x) # Absent
               PROVE  Stamp(CellOf(work'[c].tree, x), x) <= edits'
    BY DEF Numbered
  <2> QED
    BY <1>1, <1>2, <1>3, <1>5, JournalCells
<1>6. ASSUME NEW c \in Clones, work'[c] # Nil, NEW x \in Cells PROVE Fresh(c, x)'
  <2>1. PICK v : v = CellOf(work'[c].tree, x)
    OBVIOUS
  <2>2. PICK base : base = work'[c].base
    OBVIOUS
  <2>3. base \in DOMAIN commits'
    BY <1>0, <1>6, <2>2 DEF HeadsExist, Shape
  <2>4. SUFFICES
          \/ v = Absent
          \/ v = CellOf(commits'[base].tree, x)
          \/ /\ \A n \in DOMAIN commits' : CellOf(commits'[n].tree, x) # v
             /\ \A d \in Clones : d # c /\ work'[d] # Nil => CellOf(work'[d].tree, x) # v
    <3>1. \A n : Cell(n, x)' = CellOf(commits'[n].tree, x)
      BY DEF Cell, CellOf, Tree
    <3> QED
      BY <2>1, <2>2, <2>4, <3>1 DEF Fresh
  <2>5. CASE base \in DOMAIN commits /\ v = CellOf(Tree(base), x)
    BY <2>5, CommitKept DEF Tree
  <2>6. CASE /\ v # Absent /\ Stamp(v, x) = edits + 1 /\ commits' = commits
             /\ \A d \in Clones : d # c => work'[d] = work[d]
    <3>1. \A n \in DOMAIN commits' : CellOf(commits'[n].tree, x) # v
      BY <1>1, <1>2, <2>6 DEF Tree
    <3>2. \A d \in Clones : d # c /\ work'[d] # Nil => CellOf(work'[d].tree, x) # v
      BY <1>1, <1>3, <2>6
    <3> QED
      BY <3>1, <3>2
  <2>7. CASE /\ v # Absent /\ work[c] # Nil /\ work[c].base = base
             /\ v = CellOf(work[c].tree, x)
    <3>1. base \in DOMAIN commits
      BY <1>0, <2>7 DEF HeadsExist, Shape
    <3>2. v = CellOf(Tree(base), x)
          \/ /\ \A n \in DOMAIN commits : CellOf(Tree(n), x) # v
             /\ \A d \in Clones : d # c /\ work[d] # Nil => CellOf(work[d].tree, x) # v
      BY <1>0, <2>7, CellOfCommit DEF Values, Fresh
    <3>3. CASE v = CellOf(Tree(base), x)
      BY <2>5, <3>1, <3>3
    <3>4. CASE /\ \A n \in DOMAIN commits : CellOf(Tree(n), x) # v
               /\ \A d \in Clones : d # c /\ work[d] # Nil => CellOf(work[d].tree, x) # v
      <4>1. \A n \in DOMAIN commits' : CellOf(commits'[n].tree, x) # v
        BY <1>6, <2>7, <3>4, CommitCells
      <4>2. ASSUME NEW d \in Clones, d # c, work'[d] # Nil PROVE CellOf(work'[d].tree, x) # v
        <5>1. Stamp(v, x) \in Nat /\ Stamp(v, x) <= edits
          BY <1>3, <2>7
        <5> QED
          BY <1>1, <2>7, <3>4, <4>2, <5>1, JournalCells
      <4> QED
        BY <4>1, <4>2
    <3> QED
      BY <3>2, <3>3, <3>4
  <2> QED
    BY <1>6, <2>1, <2>2, <2>5, <2>6, <2>7, JournalCells
<1> QED
  BY <1>4, <1>5, <1>6 DEF Values

-----------------------------------------------------------------------------
(* Values survive.                                                          *)

\* What a commit settled does not change.
LEMMA EditKept ==
  ASSUME IInv, [Next]_vars, NEW w \in DOMAIN commits
  PROVE  (IsEdit(w)' <=> IsEdit(w)) /\ Settled(w)' = Settled(w)
<1>0. /\ commits'[w] = commits[w] /\ commits[w] \in Commit
      /\ DOMAIN commits = 1..Len(commits) /\ Len(commits) \in Nat
  BY CommitsKept, TreeType DEF IInv, Shape
<1>1. IsEdit(w)' <=> IsEdit(w)
  BY <1>0 DEF IsEdit
<1>2. CASE IsEdit(w)
  <2>1. commits[w].base \in DOMAIN commits
    <3>1. commits[w].base \in 1..(w - 1) /\ w \in 1..Len(commits)
      BY <1>0, <1>2 DEF IInv, Graph, IsEdit
    <3> QED
      BY <1>0, <3>1
  <2>2. PICK b \in DOMAIN commits : b = commits[w].base
    BY <2>1
  <2>3. \A x : Cell(w, x)' = Cell(w, x) /\ Cell(b, x)' = Cell(b, x)
    BY CommitKept
  <2>4. Settled(w)' = {x \in Cells : Cell(w, x)' # Cell(b, x)'}
    BY <1>0, <1>1, <1>2, <2>2 DEF Settled
  <2>5. Settled(w) = {x \in Cells : Cell(w, x) # Cell(b, x)}
    BY <1>2, <2>2 DEF Settled
  <2> QED
    BY <1>1, <2>3, <2>4, <2>5
<1>3. CASE ~IsEdit(w)
  BY <1>0, <1>1, <1>3 DEF Settled
<1> QED
  BY <1>2, <1>3

\* The snapshot of a new commit.
LEMMA NewCell ==
  ASSUME NEW h, NEW x
  PROVE  Cell(h, x)' = CellOf(commits'[h].tree, x) /\ Anc(h)' = commits'[h].anc
  BY DEF Cell, CellOf, Tree, Anc

\* A checkpoint is an edit; merges and roots are not.
LEMMA NewEdits ==
  ASSUME NEW h
  PROVE  /\ \A c \in Clones : EditAdds(h, c) => IsEdit(h)'
         /\ \A s : MergeAdds(h, s) => ~IsEdit(h)'
         /\ RootAdds(h) => ~IsEdit(h)'
<1>1. ASSUME NEW s, MergeAdds(h, s) PROVE ~IsEdit(h)'
  <2>1. commits'[h].parents = {s.local, s.remoteHead} /\ s.local # s.remoteHead
    BY <1>1 DEF MergeAdds, Merging
  <2> QED
    BY <2>1 DEF IsEdit
<1> QED
  BY <1>1 DEF EditAdds, RootAdds, IsEdit

\* Every step keeps values within the descendants of the edits that wrote them.
LEMMA ProvenanceStep == IInv /\ [Next]_vars => Provenance'
<1> SUFFICES ASSUME IInv, [Next]_vars, NEW w \in DOMAIN commits', NEW h \in DOMAIN commits',
                    NEW x \in Cells, Wrote(w, x)', Cell(h, x)' = Cell(w, x)'
             PROVE  w \in Anc(h)'
  BY DEF Provenance
<1>0. /\ IsEdit(w)' /\ x \in Settled(w)' /\ Cell(w, x)' # Absent
      /\ Graph /\ Graph' /\ Values /\ Provenance
  BY GraphStep DEF Wrote, IInv
<1>1. CASE w \notin DOMAIN commits
  <2>1. PICK c \in Clones : EditAdds(w, c)
    BY <1>0, <1>1, Grows, NewEdits
  <2>2. PICK v : v = CellOf(work[c].tree, x)
    OBVIOUS
  <2>3. PICK b \in DOMAIN commits : b = local[c] /\ b = work[c].base
    BY <2>1 DEF EditAdds
  <2>4. Cell(w, x)' = v
    BY <2>1, <2>2, NewCell DEF EditAdds
  <2>5. v # Cell(b, x)
    <3>1. Settled(w)' = {y \in Cells : Cell(w, y)' # Cell(b, y)'}
      BY <1>0, <2>1, <2>3 DEF Settled, EditAdds
    <3> QED
      BY <1>0, <2>4, <3>1, CommitKept
  <2>6. \A n \in DOMAIN commits : Cell(n, x) # v
    BY <1>0, <2>1, <2>2, <2>3, <2>4, <2>5 DEF Values, Fresh, EditAdds
  <2>7. h \notin DOMAIN commits
    BY <2>4, <2>6, CommitKept
  <2>8. h = w
    BY <1>1, <2>7, Grows
  <2> QED
    BY <1>0, <2>8 DEF Graph
<1>2. CASE w \in DOMAIN commits
  <2>1. Wrote(w, x)
    BY <1>0, <1>2, EditKept, CommitKept DEF Wrote
  <2>2. Cell(w, x)' = Cell(w, x) /\ Cell(w, x) # Absent
    BY <1>0, <1>2, CommitKept
  <2>3. \A n \in DOMAIN commits : Cell(n, x) = Cell(w, x) => w \in Anc(n)
    BY <1>0, <1>2, <2>1 DEF Provenance
  <2>4. CASE h \in DOMAIN commits
    BY <2>2, <2>3, <2>4, CommitKept
  <2>5. ASSUME NEW c \in Clones, EditAdds(h, c) PROVE w \in Anc(h)'
    <3>1. CellOf(work[c].tree, x) = Cell(w, x)
      BY <2>2, <2>5, NewCell DEF EditAdds
    <3>2. Cell(local[c], x) = Cell(w, x) /\ local[c] \in DOMAIN commits
      BY <1>0, <1>2, <2>2, <2>5, <3>1 DEF Values, Fresh, EditAdds
    <3>3. w \in Anc(local[c])
      BY <2>3, <3>2
    <3> QED
      BY <2>5, <3>3, NewCell DEF EditAdds
  <2>6. ASSUME NEW p \in Procs, MergeAdds(h, sync[p]) PROVE w \in Anc(h)'
    <3> DEFINE s == sync[p]
    <3>1. /\ s.local \in DOMAIN commits /\ s.remoteHead \in DOMAIN commits
          /\ s.base \in DOMAIN commits /\ commits'[h].tree = s.tree
          /\ commits'[h].anc = {h} \cup Anc(s.local) \cup Anc(s.remoteHead)
          /\ s.base \in Anc(s.local)
          /\ MergeOf(s.tree, Tree(s.base), Tree(s.local), Tree(s.remoteHead), s.decided)
      BY <2>6 DEF MergeAdds, Merging
    <3> HIDE DEF s
    <3>2. CellOf(s.tree, x) \in {Cell(s.base, x), Cell(s.local, x), Cell(s.remoteHead, x), Absent}
      BY <3>1, CellOfCommit DEF MergeOf
    <3>3. CellOf(s.tree, x) = Cell(w, x)
      BY <2>2, <3>1, NewCell
    <3>4. w \in Anc(s.base) \/ w \in Anc(s.local) \/ w \in Anc(s.remoteHead)
      BY <2>2, <2>3, <3>1, <3>2, <3>3
    <3>5. Anc(s.base) \subseteq Anc(s.local)
      BY <1>0, <3>1 DEF Graph
    <3> QED
      BY <3>1, <3>4, <3>5, NewCell
  <2>7. ASSUME RootAdds(h) PROVE FALSE
    <3>1. x[1] \in Tables
      BY CellKinds
    <3>2. CellOf(commits'[h].tree, x) = Absent
      BY <2>7, <3>1 DEF RootAdds, CellOf
    <3> QED
      BY <2>2, <3>2, NewCell
  <2> QED
    BY <2>4, <2>5, <2>6, <2>7, Grows
<1> QED
  BY <1>1, <1>2

\* Somebody who had what w wrote in x, and whose commit h has, settled x otherwise.
Superseded(h, w, x) == \E s \in Anc(h) \ {w} : w \in Anc(s) /\ x \in Settled(s)

\* A value superseded in a history is superseded in every history that contains it.
LEMMA SupersededKept ==
  ASSUME IInv, [Next]_vars, NEW g \in DOMAIN commits, NEW h, NEW w, NEW x,
         Anc(g) \subseteq Anc(h)', Superseded(g, w, x)
  PROVE  Superseded(h, w, x)'
<1>1. PICK s \in Anc(g) \ {w} : w \in Anc(s) /\ x \in Settled(s)
  BY DEF Superseded
<1>2. s \in DOMAIN commits
  <2>1. s \in 1..g /\ g \in 1..Len(commits) /\ DOMAIN commits = 1..Len(commits)
    BY <1>1, CommitsKept DEF IInv, Graph
  <2> QED
    BY <2>1
<1>3. w \in Anc(s)' /\ x \in Settled(s)'
  BY <1>1, <1>2, CommitKept, EditKept
<1> QED
  BY <1>1, <1>3 DEF Superseded

\* Every step keeps NothingLost; the merge is the case that needs the cell-by-cell lemma above.
LEMMA NothingLostStep == IInv /\ [Next]_vars => NothingLost'
<1> SUFFICES ASSUME IInv, [Next]_vars, NEW h \in DOMAIN commits', NEW w \in Anc(h)', IsEdit(w)',
                    NEW x \in Settled(w)', Cell(w, x)' # Absent
             PROVE  Cell(h, x)' = Cell(w, x)' \/ Superseded(h, w, x)'
  BY DEF NothingLost, Superseded
<1>0. Graph /\ Graph' /\ Provenance /\ NothingLost /\ x \in Cells
  BY GraphStep DEF IInv, Settled
<1>1. ASSUME NEW g \in DOMAIN commits, w \in Anc(g)
      PROVE  /\ w \in DOMAIN commits /\ Wrote(w, x) /\ Cell(w, x)' = Cell(w, x)
             /\ Cell(g, x) = Cell(w, x) \/ Superseded(g, w, x)
  <2>1. w \in DOMAIN commits
    <3>1. w \in 1..g /\ g \in 1..Len(commits) /\ DOMAIN commits = 1..Len(commits)
      BY <1>0, <1>1, CommitsKept DEF Graph
    <3> QED
      BY <3>1
  <2>2. IsEdit(w) /\ x \in Settled(w) /\ Cell(w, x)' = Cell(w, x)
    BY <2>1, EditKept, CommitKept
  <2> QED
    BY <1>0, <1>1, <2>1, <2>2 DEF NothingLost, Superseded, Wrote
<1>2. CASE h \in DOMAIN commits
  <2>1. Anc(h)' = Anc(h) /\ Cell(h, x)' = Cell(h, x)
    BY <1>2, CommitKept
  <2>2. CASE Cell(h, x) = Cell(w, x)
    BY <1>1, <1>2, <2>1, <2>2
  <2>3. CASE Superseded(h, w, x)
    BY <1>2, <2>1, <2>3, SupersededKept
  <2> QED
    BY <1>1, <1>2, <2>1, <2>2, <2>3
<1>3. CASE w = h
  BY <1>3
<1>4. ASSUME NEW c \in Clones, EditAdds(h, c), w # h
      PROVE  Cell(h, x)' = Cell(w, x)' \/ Superseded(h, w, x)'
  <2>1. PICK g \in DOMAIN commits : g = local[c]
    BY <1>4 DEF EditAdds
  <2>2. Anc(h)' = {h} \cup Anc(g) /\ commits'[h].base = g /\ IsEdit(h)'
    BY <1>4, <2>1, NewCell, NewEdits DEF EditAdds
  <2>3. w \in Anc(g)
    BY <1>4, <2>2
  <2>4. CASE Superseded(g, w, x)
    BY <2>2, <2>4, SupersededKept
  <2>5. CASE Cell(g, x) = Cell(w, x) /\ Cell(h, x)' = Cell(g, x)
    BY <1>1, <2>3, <2>5
  <2>6. CASE Cell(h, x)' # Cell(g, x)
    <3>1. Settled(h)' = {y \in Cells : Cell(h, y)' # Cell(g, y)'}
      BY <2>2 DEF Settled
    <3>2. x \in Settled(h)'
      BY <1>0, <2>6, <3>1, CommitKept
    <3> QED
      BY <1>4, <2>2, <3>2 DEF Superseded
  <2> QED
    BY <1>1, <2>3, <2>4, <2>5, <2>6
<1>5. ASSUME NEW p \in Procs, MergeAdds(h, sync[p]), w # h
      PROVE  Cell(h, x)' = Cell(w, x)' \/ Superseded(h, w, x)'
  <2>0. PICK s : s = sync[p]
    OBVIOUS
  <2>1. /\ s.local \in DOMAIN commits /\ s.remoteHead \in DOMAIN commits
        /\ s.base \in DOMAIN commits /\ commits'[h].tree = s.tree
        /\ commits'[h].anc = {h} \cup Anc(s.local) \cup Anc(s.remoteHead)
        /\ s.base \in Anc(s.local) /\ s.base \in Anc(s.remoteHead)
        /\ commits'[h].decided = s.decided /\ ~IsEdit(h)'
        /\ MergeOf(s.tree, Tree(s.base), Tree(s.local), Tree(s.remoteHead), s.decided)
    BY <1>5, <2>0, NewEdits DEF MergeAdds, Merging
  <2>2. Anc(h)' = {h} \cup Anc(s.local) \cup Anc(s.remoteHead) /\ Cell(h, x)' = CellOf(s.tree, x)
    BY <2>1, NewCell
  <2>3. CASE Decides(s.decided, x)
    <3>1. x \in Settled(h)'
      BY <1>0, <2>1, <2>3 DEF Settled, Decides
    <3> QED
      BY <1>0, <1>5, <3>1 DEF Superseded, Graph
  <2>4. CASE Superseded(s.local, w, x) \/ Superseded(s.remoteHead, w, x)
    BY <2>1, <2>2, <2>4, SupersededKept
  <2>5. CASE /\ ~Decides(s.decided, x) /\ ~Superseded(s.local, w, x)
             /\ ~Superseded(s.remoteHead, w, x)
    <3>1. ThreeWay(Cell(s.base, x), Cell(s.local, x), Cell(s.remoteHead, x), Cell(h, x)')
      BY <1>0, <2>1, <2>2, <2>5, CellOfCommit DEF MergeOf
    <3>2. w \in Anc(s.local) \/ w \in Anc(s.remoteHead)
      BY <1>5, <2>2
    <3>3. /\ w \in DOMAIN commits /\ Wrote(w, x) /\ Cell(w, x)' = Cell(w, x)
          /\ w \in Anc(s.local) => Cell(s.local, x) = Cell(w, x)
          /\ w \in Anc(s.remoteHead) => Cell(s.remoteHead, x) = Cell(w, x)
      BY <1>1, <2>1, <2>5, <3>2
    <3>4. Cell(s.base, x) = Cell(w, x) => w \in Anc(s.base)
      BY <1>0, <2>1, <3>3 DEF Provenance
    <3>5. Anc(s.base) \subseteq Anc(s.local) /\ Anc(s.base) \subseteq Anc(s.remoteHead)
      BY <1>0, <2>1 DEF Graph
    <3>6. Cell(h, x)' = Cell(w, x)
      BY <3>1, <3>2, <3>3, <3>4, <3>5 DEF ThreeWay
    <3> QED
      BY <3>3, <3>6
  <2> QED
    BY <2>3, <2>4, <2>5
<1>6. ASSUME RootAdds(h) PROVE w = h
  BY <1>6, NewCell DEF RootAdds
<1> QED
  BY <1>2, <1>3, <1>4, <1>5, <1>6, Grows

-----------------------------------------------------------------------------
(* The theorems.                                                            *)

\* The inductive invariant holds at the root commit, which some clones and remotes already have.
LEMMA InitIInv == Init => IInv
<1> SUFFICES ASSUME Init PROVE IInv
  OBVIOUS
<1> DEFINE tree == [t \in Tables |-> EmptyTable(0)]
           root == [parents |-> {}, anc |-> {1}, base |-> 0, decided |-> {}, tree |-> tree]
<1>1. tree \in Trees
  BY DEF Trees, TableVersions, EmptyTable
<1>2. \A t \in Tables : /\ tree[t].schema = 0 /\ \A k \in Keys : tree[t].rows[k] = Absent
  BY DEF EmptyTable
<1> HIDE DEF tree
<1>3. root \in Commit
  BY <1>1 DEF Commit
<1>4. /\ commits = <<root>> /\ root.tree = tree /\ root.anc = {1} /\ root.parents = {}
      /\ root.base = 0
  BY DEF Init, tree
<1> HIDE DEF root
<1>5. commits \in Seq(Commit) /\ Len(commits) = 1 /\ DOMAIN commits = {1} /\ commits[1] = root
  BY <1>3, <1>4
<1>6. Shape
  BY <1>5, SyncAssumption DEF Init, Shape
<1>7. Graph
  BY <1>4, <1>5 DEF Graph, Anc
<1>8. HeadsExist
  BY <1>5 DEF Init, HeadsExist
<1>9. SyncsKnow
  BY DEF Init, SyncsKnow
<1>10. UniqueKeys
  BY <1>2, <1>4, <1>5 DEF Init, UniqueKeys, UniqueTree, UniqueTable, Tree
<1>11. Values
  <2>1. Numbered(tree)
    <3> SUFFICES ASSUME NEW x \in Cells, CellOf(tree, x) # Absent
                 PROVE  Stamp(CellOf(tree, x), x) <= edits
      BY DEF Numbered
    <3>1. edits = 0
      BY DEF Init
    <3>2. ASSUME NEW t \in Tables, x = <<t>> PROVE CellOf(tree, x) = 0
      BY <1>2, <3>2 DEF CellOf
    <3>3. ASSUME NEW t \in Tables, NEW k \in Keys, x = <<t, k>> PROVE CellOf(tree, x) = Absent
      BY <1>2, <3>3 DEF CellOf
    <3>4. PICK t \in Tables : x = <<t>>
      BY <3>3, CellKinds
    <3> QED
      BY <3>1, <3>2, <3>4 DEF Stamp
  <2> QED
    BY <1>4, <1>5, <2>1 DEF Init, Values, Tree
<1>12. ~IsEdit(1)
  BY <1>4, <1>5 DEF IsEdit
<1>13. Provenance /\ NothingLost
  BY <1>4, <1>5, <1>12 DEF Provenance, Wrote, NothingLost, Anc
<1> QED
  BY <1>6, <1>7, <1>8, <1>9, <1>10, <1>11, <1>13 DEF IInv

\* Every step keeps the inductive invariant: its parts, one by one.
LEMMA IInvStep == IInv /\ [Next]_vars => IInv'
  BY ShapeStep, GraphStep, HeadsExistStep, SyncsKnowStep, UniqueKeysStep, ValuesStep,
     ProvenanceStep, NothingLostStep DEF IInv

\* So it holds in every reachable state.
LEMMA SpecIInv == Spec => []IInv
  BY InitIInv, IInvStep, PTL DEF Spec

\* Whatever the processes interleave and wherever they die: heads are commits, a
\* journal has a base, and a sync tries at most three times.
THEOREM SyncTypeCorrect == Spec => []TypeOK
<1>1. ASSUME IInv PROVE TypeOK
  <2>1. Shape /\ HeadsExist
    BY <1>1 DEF IInv
  <2>2. ASSUME NEW c \in Clones, work[c] # Nil PROVE work[c].base \in DOMAIN commits
    BY <2>1, <2>2 DEF Shape, HeadsExist
  <2>3. ASSUME NEW p \in Procs, sync[p] # Nil
        PROVE  /\ sync[p].clone \in Clones /\ sync[p].remote \in Remotes
               /\ sync[p].pc # "resolve" => sync[p].attempt \in 1..maxAttempts
    <3>1. sync[p] \in Syncing \/ sync[p] \in Resolving
      BY <2>1, <2>3 DEF Shape
    <3> QED
      BY <3>1 DEF Syncing, Resolving
  <2> QED
    BY <2>1, <2>2, <2>3 DEF TypeOK, HeadsExist, Shape
<1> QED
  BY <1>1, SpecIInv, PTL

\* No publication of a sync moves the head under a journal that holds unpublished
\* transactions (lockForPublication, FastForwardSnapshot), whenever they commit.
THEOREM JournalBasedHolds == Spec => []JournalBased
<1>1. IInv => JournalBased
  BY DEF IInv, HeadsExist, JournalBased
<1> QED
  BY <1>1, SpecIInv, PTL

\* No fast-forward, merge, checkpoint or push takes a head to a commit that does not
\* descend from it, although ancestry is judged on heads read earlier.
THEOREM HeadsAdvanceHolds == Spec => HeadsAdvance
<1> DEFINE A == /\ \A c \in Clones : local[c] # 0 => local[c] \in commits'[local'[c]].anc
                /\ \A r \in Remotes : remote[r] # 0 => remote[r] \in commits'[remote'[r]].anc
<1>1. ASSUME IInv, [Next]_vars PROVE A
  <2>0. /\ Shape /\ Graph /\ HeadsExist /\ Len(commits) \in Nat
        /\ DOMAIN commits = 1..Len(commits)
        /\ \A n \in DOMAIN commits : commits'[n] = commits[n]
    BY <1>1, CommitsKept DEF IInv
  <2>1. ASSUME NEW n \in 0..Len(commits), n # 0 PROVE n \in commits'[n].anc
    <3>1. n \in DOMAIN commits
      BY <2>0, <2>1
    <3> QED
      BY <2>0, <3>1 DEF Graph, Anc
  <2>2. ASSUME NEW c \in Clones, local[c] # 0 PROVE local[c] \in commits'[local'[c]].anc
    <3>1. CASE local'[c] = local[c]
      BY <2>0, <2>1, <2>2, <3>1 DEF HeadsExist
    <3>2. CASE local'[c] # local[c]
      <4>1. PICK d \in Clones : \E h \in DOMAIN commits' :
              local' = [local EXCEPT ![d] = h] /\ (local[d] = 0 \/ local[d] \in Anc(h)')
        BY <1>1, <3>2, LocalMoves
      <4>2. PICK h \in DOMAIN commits' :
              local' = [local EXCEPT ![d] = h] /\ (local[d] = 0 \/ local[d] \in Anc(h)')
        BY <4>1
      <4>3. d = c /\ local'[c] = h
        BY <2>0, <3>2, <4>2 DEF Shape
      <4> QED
        BY <2>2, <4>2, <4>3 DEF Anc
    <3> QED
      BY <3>1, <3>2
  <2>3. ASSUME NEW r \in Remotes, remote[r] # 0 PROVE remote[r] \in commits'[remote'[r]].anc
    <3>1. CASE remote'[r] = remote[r]
      BY <2>0, <2>1, <2>3, <3>1 DEF HeadsExist
    <3>2. CASE remote'[r] # remote[r]
      <4>1. PICK q \in Remotes, h \in DOMAIN commits :
              remote' = [remote EXCEPT ![q] = h] /\ (remote[q] = 0 \/ remote[q] \in Anc(h))
        BY <1>1, <3>2, RemoteMoves
      <4>2. q = r /\ remote'[r] = h
        BY <2>0, <3>2, <4>1 DEF Shape
      <4> QED
        BY <2>0, <2>3, <4>1, <4>2 DEF Anc
    <3> QED
      BY <3>1, <3>2
  <2> QED
    BY <2>2, <2>3
<1>2. HeadsAdvance <=> [][A]_vars
  BY DEF HeadsAdvance
<1> HIDE DEF A
<1>3. IInv /\ [Next]_vars => [A]_vars
  BY <1>1
<1> QED
  BY <1>2, <1>3, SpecIInv, PTL DEF Spec

\* Every published snapshot has unique index keys: journals check them, and a merge
\* that would break them is not published (rebuildIndexesFromTree).
THEOREM HistoryUniqueHolds == Spec => []HistoryUnique
<1>1. IInv => HistoryUnique
  BY DEF IInv, UniqueKeys, UniqueTree, HistoryUnique
<1> QED
  BY <1>1, SpecIInv, PTL

\* What a transaction wrote is in every commit that descends from it, unless somebody
\* who had it overwrote it or decided a conflict about it: no merge loses it, whatever
\* was read before whichever fetch, fast-forward, push or retry.
THEOREM NothingLostHolds == Spec => []NothingLost
<1>1. IInv => NothingLost
  BY DEF IInv
<1> QED
  BY <1>1, SpecIInv, PTL

=============================================================================
