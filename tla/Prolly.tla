------------------------------- MODULE Prolly -------------------------------
(***************************************************************************)
(* Prolly trees (common/prolly/tree.go, reverse.go): immutable trees whose  *)
(* chunks end where the hash of a key says so, so that equal contents have  *)
(* equal trees whatever the edits that led to them.                         *)
(*                                                                         *)
(* Keys are numbers, and `cuts' is the set of the keys whose boundary hash  *)
(* ends a chunk.  Nodes are content-addressed: a node stands for its hash.  *)
(* The byte encoding of a node, its cached offsets and prefetching are left *)
(* out; reads of the store succeed.                                         *)
(***************************************************************************)
EXTENDS Naturals, SequencesExt, FiniteSetsExt

CONSTANTS
  MinChunkEntries,
  MaxChunkEntries

\* Options.validate also admits a minimum of 1; the engine uses 64 and 256.
ASSUME OptionsAssumption ==
  /\ MinChunkEntries \in Nat /\ MaxChunkEntries \in Nat
  /\ 2 <= MinChunkEntries /\ MinChunkEntries <= MaxChunkEntries

NoTree == [level |-> 0, entries |-> <<[key |-> 0, value |-> 0]>>]

Leaf(entries) == [level |-> 0, entries |-> entries]
Inner(level, children) == [level |-> level, children |-> children]

LeafLink(entries) ==
  [max |-> Last(entries).key, count |-> Len(entries), node |-> Leaf(entries)]

sumCounts(links) == FoldLeft(LAMBDA n, l : n + l.count, 0, links)

InnerLink(level, links) ==
  [max |-> Last(links).max, count |-> sumCounts(links), node |-> Inner(level, links)]

shouldCut(size, key, cuts) ==
  \/ size >= MaxChunkEntries
  \/ size >= MinChunkEntries /\ key \in cuts

\* One item more in the current chunk of [done, cur].
Chunked(acc, item, key, cuts) ==
  LET cur == Append(acc.cur, item)
  IN IF shouldCut(Len(cur), key, cuts)
     THEN [done |-> Append(acc.done, cur), cur |-> <<>>]
     ELSE [acc EXCEPT !.cur = cur]

NoChunks == [done |-> <<>>, cur |-> <<>>]

Closed(acc) == IF acc.cur = <<>> THEN acc.done ELSE Append(acc.done, acc.cur)

chunkEntries(entries, cuts) ==
  Closed(FoldLeft(LAMBDA acc, e : Chunked(acc, e, e.key, cuts), NoChunks, entries))

chunkLinks(links, cuts) ==
  Closed(FoldLeft(LAMBDA acc, l : Chunked(acc, l, l.max, cuts), NoChunks, links))

RECURSIVE levels(_, _, _)

\* The levels above the given links, up to the root.
levels(links, level, cuts) ==
  IF Len(links) = 1 THEN links[1].node
  ELSE LET groups == chunkLinks(links, cuts)
       IN levels([i \in 1..Len(groups) |-> InnerLink(level, groups[i])], level + 1, cuts)

buildFromLeafLinks(leaves, cuts) == levels(leaves, 1, cuts)

\* The entries of a map in key order.
Sorted(rows) ==
  LET keys == SetToSortSeq(DOMAIN rows, <)
  IN [i \in 1..Len(keys) |-> [key |-> keys[i], value |-> rows[keys[i]]]]

Build(entries, cuts) ==
  LET groups == chunkEntries(entries, cuts)
  IN IF entries = <<>> THEN Leaf(<<>>)
     ELSE levels([i \in 1..Len(groups) |-> LeafLink(groups[i])], 1, cuts)

-----------------------------------------------------------------------------
(* Apply.                                                                   *)

RECURSIVE leafLinks(_)

leafLinks(node) ==
  CASE node.level = 0 ->
         <<[max |-> IF node.entries = <<>> THEN 0 ELSE Last(node.entries).key,
            count |-> Len(node.entries), node |-> node]>>
    [] node.level = 1 -> node.children
    [] OTHER -> FlattenSeq([i \in 1..Len(node.children) |-> leafLinks(node.children[i].node)])

\* leafChunker: the leaves so far, the open chunk and the edits ahead.
flush(c) ==
  IF c.cur = <<>> THEN c
  ELSE [c EXCEPT !.links = Append(@, LeafLink(c.cur)), !.cur = <<>>]

add(c, entry, cuts) ==
  LET grown == [c EXCEPT !.cur = Append(@, entry)]
  IN IF shouldCut(Len(grown.cur), entry.key, cuts) THEN flush(grown) ELSE grown

\* The next edit takes effect.
Take(c, cuts) ==
  LET e == Head(c.edits)
      taken == [c EXCEPT !.edits = Tail(@)]
  IN IF e.delete THEN taken ELSE add(taken, [key |-> e.key, value |-> e.value], cuts)

RECURSIVE TakeBelow(_, _, _)

TakeBelow(c, key, cuts) ==
  IF c.edits # <<>> /\ Head(c.edits).key < key
  THEN TakeBelow(Take(c, cuts), key, cuts) ELSE c

RECURSIVE TakeAll(_, _)

TakeAll(c, cuts) == IF c.edits = <<>> THEN c ELSE TakeAll(Take(c, cuts), cuts)

\* An entry of an old leaf, after the edits before it.
Pass(c, entry, cuts) ==
  LET ready == TakeBelow(c, entry.key, cuts)
  IN IF ready.edits # <<>> /\ Head(ready.edits).key = entry.key
     THEN Take(ready, cuts) ELSE add(ready, entry, cuts)


\* The boundaries are the old ones again: the remaining leaves can be reused.
Realigned(c) == c.edits = <<>> /\ c.cur = <<>>

RECURSIVE Rewrite(_, _, _, _)

\* The leaves of the new tree, from the i-th old one on.
Rewrite(c, leaves, i, cuts) ==
  IF i > Len(leaves) THEN flush(TakeAll(c, cuts)).links
  ELSE LET passed == FoldLeft(LAMBDA acc, e : Pass(acc, e, cuts), c, leaves[i].node.entries)
       IN IF Realigned(passed)
          THEN flush(passed).links \o SubSeq(leaves, i + 1, Len(leaves))
          ELSE Rewrite(passed, leaves, i + 1, cuts)

\* Edits in key order on a tree.
Apply(tree, edits, cuts) ==
  LET leaves == leafLinks(tree)
      reach == {i \in 1..Len(leaves) : leaves[i].max >= edits[1].key}
      start == IF reach = {} THEN Len(leaves) ELSE Min(reach)
      result == Rewrite([links |-> SubSeq(leaves, 1, start - 1), cur |-> <<>>, edits |-> edits],
                        leaves, start, cuts)
  IN IF edits = <<>> THEN tree
     ELSE IF result = <<>> THEN Leaf(<<>>)
     ELSE buildFromLeafLinks(result, cuts)

-----------------------------------------------------------------------------
(* SortedBuilder: entries arrive in key order, one chunk a level is open.   *)

NewSortedBuilder == [leaves |-> <<>>, levels |-> <<>>]

RECURSIVE addLink(_, _, _, _), flushLinks(_, _, _)

\* Level i of the builder holds links to nodes of level i - 1.
addLink(b, i, item, cuts) ==
  LET wide == IF i > Len(b.levels) THEN [b EXCEPT !.levels = Append(@, <<>>)] ELSE b
      grown == [wide EXCEPT !.levels[i] = Append(@, item)]
  IN IF shouldCut(Len(grown.levels[i]), item.max, cuts) THEN flushLinks(grown, i, cuts)
     ELSE grown

flushLinks(b, i, cuts) ==
  addLink([b EXCEPT !.levels[i] = <<>>], i + 1, InnerLink(i, b.levels[i]), cuts)

flushLeaf(b, cuts) ==
  addLink([b EXCEPT !.leaves = <<>>], 1, LeafLink(b.leaves), cuts)

Add(b, entry, cuts) ==
  LET grown == [b EXCEPT !.leaves = Append(@, entry)]
  IN IF shouldCut(Len(grown.leaves), entry.key, cuts) THEN flushLeaf(grown, cuts) ELSE grown

RECURSIVE FinishFrom(_, _, _)

FinishFrom(b, i, cuts) ==
  IF b.levels[i] = <<>> THEN FinishFrom(b, i + 1, cuts)
  ELSE IF Len(b.levels[i]) = 1 /\ \A above \in i+1..Len(b.levels) : b.levels[above] = <<>>
  THEN b.levels[i][1].node
  ELSE FinishFrom(flushLinks(b, i, cuts), i + 1, cuts)

Finish(b, cuts) ==
  IF b.leaves # <<>> THEN FinishFrom(flushLeaf(b, cuts), 1, cuts)
  ELSE IF b.levels = <<>> THEN Leaf(<<>>)
  ELSE FinishFrom(b, 1, cuts)

-----------------------------------------------------------------------------
(* Reading.                                                                 *)

RECURSIVE TreeGet(_, _)

\* Tree.Get: the value of a key, or 0 (ErrNotFound).
TreeGet(node, key) ==
  IF node.level = 0
  THEN LET found == {i \in 1..Len(node.entries) : node.entries[i].key >= key}
       IN IF found = {} \/ node.entries[Min(found)].key # key THEN 0
          ELSE node.entries[Min(found)].value
  ELSE LET found == {i \in 1..Len(node.children) : node.children[i].max >= key}
       IN IF found = {} THEN 0 ELSE TreeGet(node.children[Min(found)].node, key)

\* Tree.Count, from the root alone.
Count(node) == IF node.level = 0 THEN Len(node.entries) ELSE sumCounts(node.children)

RECURSIVE walk(_)

\* walker.walk: whether the subtree is valid, and its number of entries.
walk(node) ==
  IF node.level = 0
  THEN [ok |-> \A i \in 2..Len(node.entries) : node.entries[i-1].key < node.entries[i].key,
        count |-> Len(node.entries)]
  ELSE LET c == node.children
           below == [i \in 1..Len(c) |-> walk(c[i].node)]
       IN [ok |-> /\ c # <<>>
                  /\ \A i \in 2..Len(c) : c[i-1].max < c[i].max
                  /\ \A i \in 1..Len(c) : below[i].ok /\ below[i].count = c[i].count,
           count |-> FoldLeft(LAMBDA n, w : n + w.count, 0, below)]

\* Iterator and ReverseIterator: a frame a level with the next child, and the
\* entries of the current leaf that remain, in the order of the iterator.
NewIterator(reverse) == [reverse |-> reverse, stack |-> <<>>, leaf |-> <<>>, done |-> FALSE]

Ordered(it, entries) == IF it.reverse THEN Reverse(entries) ELSE entries

\* Into the i-th child, whose neighbour in the iterator's direction is next.
Into(it, node, i) ==
  [it EXCEPT !.stack = Append(@, [node |-> node, next |-> IF it.reverse THEN i - 1 ELSE i + 1])]

RECURSIVE descend(_, _)

\* descend and descendRight: to the first entry under a node.
descend(it, node) ==
  IF node.level = 0 THEN [it EXCEPT !.leaf = Ordered(it, node.entries)]
  ELSE LET i == IF it.reverse THEN Len(node.children) ELSE 1
       IN descend(Into(it, node, i), node.children[i].node)

RECURSIVE advance(_)

\* advance and retreat: to the next leaf.
advance(it) ==
  IF it.stack = <<>> THEN [it EXCEPT !.leaf = <<>>, !.done = TRUE]
  ELSE LET top == Last(it.stack)
       IN IF top.next \in 1..Len(top.node.children)
          THEN descend([it EXCEPT !.leaf = <<>>,
                          !.stack = Append(Front(@), [top EXCEPT !.next =
                            IF it.reverse THEN @ - 1 ELSE @ + 1])],
                       top.node.children[top.next].node)
          ELSE advance([it EXCEPT !.stack = Front(@)])

RECURSIVE seekTo(_, _, _), seekBelow(_, _, _)

\* IteratorFrom: at the first key that is not below start.
seekTo(it, node, start) ==
  IF node.level = 0
  THEN LET rest == SelectSeq(node.entries, LAMBDA e : e.key >= start)
       IN IF rest = <<>> THEN advance(it) ELSE [it EXCEPT !.leaf = rest]
  ELSE LET found == {i \in 1..Len(node.children) : node.children[i].max >= start}
       IN IF found = {} THEN [it EXCEPT !.done = TRUE]
          ELSE seekTo(Into(it, node, Min(found)), node.children[Min(found)].node, start)

\* ReverseIterator: at the last key below end, where an end of 0 is unbounded.
seekBelow(it, node, end) ==
  IF node.level = 0
  THEN LET rest == SelectSeq(node.entries, LAMBDA e : end = 0 \/ e.key < end)
       IN IF rest = <<>> THEN advance(it) ELSE [it EXCEPT !.leaf = Reverse(rest)]
  ELSE LET found == {i \in 1..Len(node.children) : end # 0 /\ node.children[i].max >= end}
           i == IF found = {} THEN Len(node.children) ELSE Min(found)
       IN seekBelow(Into(it, node, i), node.children[i].node, end)

NoEntry == [key |-> 0, value |-> 0]

RECURSIVE TreeNext(_)

TreeNext(it) ==
  IF it.leaf # <<>> THEN [entry |-> Head(it.leaf), it |-> [it EXCEPT !.leaf = Tail(@)]]
  ELSE IF it.done THEN [entry |-> NoEntry, it |-> it]
  ELSE TreeNext(advance(it))

RECURSIVE Rest(_)

\* Every remaining entry of an iterator.
Rest(it) ==
  LET n == TreeNext(it)
  IN IF n.entry = NoEntry THEN <<>> ELSE <<n.entry>> \o Rest(n.it)

\* Tree.Entries.
Entries(node) == Rest(descend(NewIterator(FALSE), node))
=============================================================================
