------------------------------- MODULE Merge -------------------------------
(***************************************************************************)
(* The three-way merge of snapshots (engine/merge.go).  A snapshot maps     *)
(* every table name to a version: its schema and its rows, or NoTable.      *)
(* Roots are content hashes, so versions with equal roots are equal.        *)
(* A conflict is the table it is about, or the table and the key.           *)
(***************************************************************************)
CONSTANTS
  Tables,
  Keys,
  NoTable,  \* the table is not in the manifest
  Absent,   \* no row with this key
  Null      \* the unique-index key of a row whose indexed column is NULL

Sides == {"base", "local", "remote", "delete"}

\* Seeded fault: a change of the remote side alone is not taken.
MergedRowKeepsLocal(b, l, r, choice) ==
  IF l = r \/ l = b \/ r = b THEN l
  ELSE CASE choice = "base" -> b
         [] choice = "local" -> l
         [] choice = "remote" -> r
         [] choice \in {"delete", ""} -> Absent

\* sameValue and the cases of mergeRows; a choice stands for the value that
\* Resolve recorded, "" for none.
MergedRow(b, l, r, choice) ==
  IF l = r THEN l
  ELSE IF l = b THEN r
  ELSE IF r = b THEN l
  ELSE CASE choice = "base" -> b
         [] choice = "local" -> l
         [] choice = "remote" -> r
         [] choice \in {"delete", ""} -> Absent

RowConflict(b, l, r) == l # r /\ l # b /\ r # b

\* A table that both sides changed: rows can be compared only if all three
\* versions exist and have one schema.
Changed(b, l, r) == RowConflict(b, l, r)

Comparable(b, l, r) ==
  /\ NoTable \notin {b, l, r}
  /\ b.schema = l.schema
  /\ b.schema = r.schema

\* What MergeSnapshots finds to be decided by the user.
Conflicts(b, l, r) ==
  {<<t>> : t \in {u \in Tables : /\ Changed(b[u], l[u], r[u])
                                 /\ ~Comparable(b[u], l[u], r[u])}}
  \cup
  {tk \in Tables \X Keys :
     LET t == tk[1]
         k == tk[2]
     IN /\ Changed(b[t], l[t], r[t])
        /\ Comparable(b[t], l[t], r[t])
        /\ RowConflict(b[t].rows[k], l[t].rows[k], r[t].rows[k])}

Choice(choices, id) == IF id \in DOMAIN choices THEN choices[id] ELSE ""

\* copyTable of one side, or the rows merged key by key.
MergedTable(t, b, l, r, choices) ==
  IF ~Changed(b, l, r) \/ ~Comparable(b, l, r)
  THEN LET v == MergedRow(b, l, r, Choice(choices, <<t>>))
       IN IF v = Absent THEN NoTable ELSE v
  ELSE [l EXCEPT !.rows = [k \in Keys |->
          MergedRow(b.rows[k], l.rows[k], r.rows[k], Choice(choices, <<t, k>>))]]

MergedSnapshot(b, l, r, choices) ==
  [t \in Tables |-> MergedTable(t, b[t], l[t], r[t], choices)]

\* Rows of a table hold different unique-index keys; NULL keys never collide.
UniqueTable(v) ==
  v # NoTable =>
    \A j, k \in Keys :
      (v.rows[j] # Absent /\ v.rows[k] # Absent
         /\ v.rows[j].key = v.rows[k].key /\ v.rows[j].key # Null) => j = k

\* Seeded fault: merged indexes are rebuilt without a check for duplicates.
InvalidNever(b, l, r, choices) == FALSE

\* rebuildIndexesFromTree fails on a duplicate key, for tables merged by row
\* whose conflicts are all decided.
Invalid(b, l, r, choices) ==
  \E t \in Tables :
    /\ Changed(b[t], l[t], r[t])
    /\ Comparable(b[t], l[t], r[t])
    /\ \A k \in Keys : <<t, k>> \in Conflicts(b, l, r) => <<t, k>> \in DOMAIN choices
    /\ ~UniqueTable(MergedTable(t, b[t], l[t], r[t], choices))
=============================================================================
