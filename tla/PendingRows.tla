---------------------------- MODULE PendingRows ----------------------------
(***************************************************************************)
(* The edits of a tree since its last checkpoint                            *)
(* (common/repository/pending.go): sorted runs, newest first, that are      *)
(* merged by size.  An edit is a key with its new value, or Gone when the   *)
(* key is deleted; keys are numbers, which compare like encoded keys.       *)
(***************************************************************************)
EXTENDS Naturals, SequencesExt

CONSTANT Gone

Empty == <<>>

Before(a, b) == a.key < b.key

\* sort.Search over a run: the first position at or after key.
Search(run, key) ==
  Min({i \in 1..Len(run) : run[i].key >= key} \cup {Len(run) + 1})

RECURSIVE mergeRuns(_, _)

\* Seeded fault: the older run wins.
mergeRunsOlderWins(newer, older) ==
  SetToSortSeq(ToSet(older) \cup
               {e \in ToSet(newer) : \A o \in ToSet(older) : o.key # e.key}, Before)

\* One run out of two; the newer one wins.
mergeRuns(newer, older) ==
  IF newer = <<>> THEN older
  ELSE IF older = <<>> THEN newer
  ELSE LET n == Head(newer)
           o == Head(older)
       IN CASE n.key < o.key -> <<n>> \o mergeRuns(Tail(newer), older)
            [] n.key > o.key -> <<o>> \o mergeRuns(newer, Tail(older))
            [] OTHER -> <<n>> \o mergeRuns(Tail(newer), Tail(older))

RECURSIVE tiered(_)

\* Merges the newest run into the next while it is at least half its size.
tiered(runs) ==
  IF Len(runs) > 1 /\ 2 * Len(runs[1]) >= Len(runs[2])
  THEN tiered(<<mergeRuns(runs[1], runs[2])>> \o SubSeq(runs, 3, Len(runs)))
  ELSE runs

\* The edits sorted by key, of which the last one of a key stays.
unique(edits) ==
  SetToSortSeq({edits[i] : i \in {j \in 1..Len(edits) :
                  \A later \in j+1..Len(edits) : edits[later].key # edits[j].key}},
               Before)

with(runs, edits) ==
  IF edits = <<>> THEN runs ELSE tiered(<<unique(edits)>> \o runs)

\* The newest edit of a key, or NoEdit.
NoEdit == [key |-> 0, row |-> Gone]

Holds(run, key) ==
  LET i == Search(run, key) IN i <= Len(run) /\ run[i].key = key

Get(runs, key) ==
  LET found == {r \in 1..Len(runs) : Holds(runs[r], key)}
  IN IF found = {} THEN NoEdit
     ELSE LET run == runs[Min(found)] IN run[Search(run, key)]

\* Iter and IterReverse over [start, end), where an end of 0 is unbounded: a
\* position in every run, which counts down when reverse.
Iter(runs, start, end, reverse) ==
  [runs |-> runs, reverse |-> reverse,
   bound |-> IF reverse THEN start ELSE end,
   pos |-> [r \in 1..Len(runs) |->
     IF ~reverse THEN Search(runs[r], start)
     ELSE IF end = 0 THEN Len(runs[r])
     ELSE Search(runs[r], end) - 1]]

\* PendingIter.Next and prev: the next edit, or NoEdit, with the iterator moved
\* past its key in every run.
PendingNext(it) ==
  LET live == {r \in 1..Len(it.runs) : it.pos[r] \in 1..Len(it.runs[r])}
      At(r) == it.runs[r][it.pos[r]]
      First(r, s) == IF it.reverse THEN At(r).key >= At(s).key ELSE At(r).key <= At(s).key
      best == Min({r \in live : \A s \in live : First(r, s)})
      outside == IF it.reverse THEN At(best).key < it.bound
                 ELSE it.bound # 0 /\ At(best).key >= it.bound
      step == [r \in 1..Len(it.runs) |->
        IF r \in live /\ At(r).key = At(best).key
        THEN IF it.reverse THEN it.pos[r] - 1 ELSE it.pos[r] + 1
        ELSE it.pos[r]]
      ended == [it EXCEPT !.pos = [r \in 1..Len(it.runs) |->
        IF it.reverse THEN 0 ELSE Len(it.runs[r]) + 1]]
  IN IF live = {} THEN [edit |-> NoEdit, it |-> it]
     ELSE IF outside THEN [edit |-> NoEdit, it |-> ended]
     ELSE [edit |-> At(best), it |-> [it EXCEPT !.pos = step]]

RECURSIVE Drain(_)

\* Every remaining edit of an iterator, in its order.
Drain(it) ==
  LET n == PendingNext(it)
  IN IF n.edit = NoEdit THEN <<>> ELSE <<n.edit>> \o Drain(n.it)
=============================================================================
