------------------------- MODULE PublicationProofs -------------------------
(* Proofs about Publication, for every set of threads, tables and versions and
   every bound. *)
EXTENDS Publication, TLAPS

-----------------------------------------------------------------------------
(* The inductive invariant, in parts that are inductive together.           *)
(*                                                                          *)

Objects == Tables \X Versions \X {"data", "index"}
Snapshots == [Tables -> Versions \cup {Nil}]
Stamps == {Nil} \cup Nat

Commit == [parent : Nat, tables : Snapshots, objects : SUBSET Objects,
           time : Times, anc : SUBSET Nat]

Thread ==
  [pc : HeadSteps \cup {"idle", "lock", "write", "update", "failed",
                        "resolve publication", "published"},
   kind : {"native", "checkpoint", Nil}, for : {"begin", "check", Nil},
   stamp : Stamps \cup (Stamps \X Nat), value : Stamps, seen : SUBSET Nat,
   expected : Nat, tables : Snapshots, objects : SUBSET Objects, commit : Nat,
   moved : BOOLEAN]

\* The fields of the records, whatever commits there are.
Shape ==
  /\ loose = Nil \/ loose \in [version : Nat, commit : Nat]
  /\ packed \in [version : Nat, commit : Nat]
  /\ commits \in Seq(Commit)
  /\ thread \in [Threads -> Thread]
  /\ lock \in Threads \cup {Nil}
  /\ journal = Nil \/ journal \in [table : Tables, version : Versions, base : Nat]
  /\ cached = Nil \/ cached \in [head : Nat, stamp : Stamps \X Nat]
  /\ validated \subseteq Tables \X Versions
  /\ answers \subseteq [commit : Nat, outcome : {"committed", "rejected", "unknown"},
                        moved : BOOLEAN]

\* The state refers to commits that exist.
Refers ==
  /\ Ref \in Refs /\ packed.commit \in Refs
  /\ journal # Nil => journal.base \in Refs
  /\ cached # Nil => cached.head \in Refs

\* Every table of a snapshot is listed with its data object.
Listed(tables, objects) ==
  \A t \in Tables : tables[t] # Nil => DataObject(t, tables[t]) \in objects

\* A commit's ancestors are itself and its parent's; its inventory is complete.
Graph ==
  \A n \in DOMAIN commits :
    /\ commits[n].parent < n
    /\ commits[n].anc = {n} \cup History(commits[n].parent)
    /\ commits[n].anc \subseteq 1..n
    /\ Listed(commits[n].tables, commits[n].objects)

AfterUpdate == {"failed", "resolve publication", "published"}
AfterWrite == {"update"} \cup AfterUpdate

\* What a thread publishes is complete.  Past git commit-tree it has a child of
\* the head it expects; once that child has moved the ref, or is going to be
\* answered "committed", it is in the history for good.
Writer(t) ==
  /\ thread[t].expected \in Refs /\ thread[t].commit \in Refs
  /\ thread[t].seen \subseteq Refs
  /\ Listed(thread[t].tables, thread[t].objects)
  /\ thread[t].pc \in AfterWrite =>
       /\ thread[t].commit \in DOMAIN commits
       /\ commits[thread[t].commit].parent = thread[t].expected
  /\ thread[t].moved = TRUE => thread[t].pc \in AfterUpdate
  /\ thread[t].moved = TRUE \/ thread[t].pc = "published" => thread[t].commit \in History(Ref)

Writers == \A t \in Threads : Writer(t)

\* And so it is after the answer.
Told(a) ==
  /\ a.commit \in Refs
  /\ a.moved = TRUE \/ a.outcome = "committed" => a.commit \in History(Ref)

Answers == \A a \in answers : Told(a)

\* Every version of a file is newer than those before it.  A loose file that is
\* older than packed-refs has been packed; a newer one holds a newer commit.
Files ==
  loose # Nil =>
    \/ loose.version < packed.version /\ loose.commit = packed.commit
    \/ loose.version > packed.version /\ loose.commit > packed.commit

\* A stamp that no write of the ref has followed: its loose file is still there,
\* or packed-refs is as it was and holds the head.
StampCurrent(s) ==
  \/ loose # Nil /\ s[1] = loose.version
  \/ (loose = Nil \/ loose.version < packed.version) /\ s[2] = packed.version

Older(s) == (s[1] # Nil => s[1] < NextVersion) /\ s[2] < NextVersion

\* What may be in the cache under stamp s: the head, if no write has followed;
\* otherwise what a thread that has already looked at the loose file, and would
\* find s, has seen the ref to be.
CacheEntry(v, s) ==
  /\ Older(s)
  /\ StampCurrent(s) => v = Ref
  /\ \A u \in Threads :
       thread[u].pc = "stat packed" /\ s = <<thread[u].stamp, packed.version>> =>
         v \in thread[u].seen

\* Where a thread is inside Head.
Pinning(t) ==
  /\ thread[t].pc \in HeadSteps => Ref \in thread[t].seen
  /\ thread[t].pc = "stat packed" =>
       thread[t].stamp \in Stamps /\ (thread[t].stamp # Nil => thread[t].stamp < NextVersion)
  /\ thread[t].pc \in {"resolve", "store"} =>
       thread[t].stamp \in Stamps \X Nat /\ Older(thread[t].stamp)
  /\ thread[t].pc = "store" => CacheEntry(thread[t].value, thread[t].stamp)
  /\ thread[t].pc \in {"store", "return"} => thread[t].value \in thread[t].seen

HeadInv ==
  /\ Files
  /\ cached # Nil => CacheEntry(cached.head, cached.stamp)
  /\ \A t \in Threads : Pinning(t)

IInv == Shape /\ Refers /\ Graph /\ Writers /\ Answers /\ HeadInv

-----------------------------------------------------------------------------
(* Operators.                                                               *)

\* All commits stay, and the one returned has the content asked for, whether it
\* is a new one or not.
Makes(made, parent, tables, objects, time) ==
  /\ made.all \in Seq(Commit) /\ made.id \in DOMAIN made.all
  /\ Len(made.all) >= Len(commits)
  /\ \A n \in DOMAIN commits : made.all[n] = commits[n]
  /\ \A n \in DOMAIN made.all : n \in DOMAIN commits \/ n = made.id
  /\ made.all[made.id] =
       [parent |-> parent, tables |-> tables, objects |-> objects,
        time |-> time, anc |-> History(parent) \cup {made.id}]
  /\ made.id \in DOMAIN commits \/ made.id = Len(commits) + 1

\* And so does git commit-tree.
LEMMA CommitTreeMakes ==
  ASSUME commits \in Seq(Commit), NEW parent \in Refs, NEW tables \in Snapshots,
         NEW objects \in SUBSET Objects, NEW time \in Times
  PROVE  Makes(CommitTree(parent, tables, objects, time), parent, tables, objects, time)
<1> DEFINE made == CommitTree(parent, tables, objects, time)
           content(n) == [parent |-> parent, tables |-> tables, objects |-> objects,
                          time |-> time, anc |-> History(parent) \cup {n}]
           same == {n \in DOMAIN commits : commits[n] = content(n)}
<1>1. made = IF same = {} THEN [id |-> Len(commits) + 1,
                                all |-> Append(commits, content(Len(commits) + 1))]
                          ELSE [id |-> CHOOSE n \in same : TRUE, all |-> commits]
  BY DEF CommitTree
<1> HIDE DEF made
<1>2. History(parent) \in SUBSET Nat
  <2>1. CASE parent = 0
    BY <2>1 DEF History
  <2>2. CASE parent # 0
    <3>1. parent \in DOMAIN commits
      BY <2>2 DEF Refs
    <3>2. commits[parent] \in Commit
      BY <3>1
    <3> QED
      BY <2>2, <3>2 DEF History, Commit
  <2> QED
    BY <2>1, <2>2
<1>3. content(Len(commits) + 1) \in Commit
  BY <1>2 DEF Commit, Refs
<1>4. ASSUME same = {} PROVE Makes(made, parent, tables, objects, time)
  <2> DEFINE c == content(Len(commits) + 1)
  <2> HIDE DEF c
  <2>1. made = [id |-> Len(commits) + 1, all |-> Append(commits, c)]
    BY <1>1, <1>4 DEF c
  <2>2. c \in Commit
    BY <1>3 DEF c
  <2>3. /\ made.all \in Seq(Commit) /\ Len(made.all) = Len(commits) + 1
        /\ \A n \in 1..Len(commits) : made.all[n] = commits[n]
        /\ made.all[Len(commits) + 1] = c
    BY <2>1, <2>2
  <2> QED
    BY <2>1, <2>3 DEF c, Makes
<1>5. ASSUME same # {} PROVE Makes(made, parent, tables, objects, time)
  <2> DEFINE m == CHOOSE n \in same : TRUE
  <2>1. m \in same
    BY <1>5
  <2> HIDE DEF m
  <2>2. made = [id |-> m, all |-> commits]
    BY <1>1, <1>5 DEF m
  <2> QED
    BY <2>1, <2>2 DEF Makes
<1>6. Makes(made, parent, tables, objects, time)
  BY <1>4, <1>5
<1> QED
  BY <1>6 DEF made

\* The tables of a commit, and the objects retained for a writer on it.
LEMMA TablesAtType ==
  ASSUME commits \in Seq(Commit), NEW c \in Refs
  PROVE  TablesAt(c) \in Snapshots
<1>1. CASE c = 0
  BY <1>1 DEF TablesAt, NoTables, Snapshots
<1>2. CASE c # 0
  <2>1. commits[c] \in Commit
    BY <1>2 DEF Refs
  <2> QED
    BY <1>2, <2>1 DEF TablesAt, Commit
<1> QED
  BY <1>1, <1>2

\* The files of a table version are objects of the store.
LEMMA TableObjectsType ==
  ASSUME NEW t \in Tables, NEW v \in Versions \cup {Nil}
  PROVE  TableObjects(t, v) \in SUBSET Objects
  BY DEF TableObjects, Objects, DataObject, IndexObject

\* So are the files of a native commit and of a checkpoint.
LEMMA ObjectsType ==
  ASSUME commits \in Seq(Commit), NEW c \in Refs, NEW changed, NEW v \in Versions
  PROVE  /\ NativeObjects(c, changed, v) \in SUBSET Objects
         /\ CheckpointObjects(c, changed, v) \in SUBSET Objects
<1>1. ASSUME NEW t \in Tables
      PROVE  /\ TableObjects(t, v) \in SUBSET Objects
             /\ TableObjects(t, TablesAt(c)[t]) \in SUBSET Objects
  BY TablesAtType, TableObjectsType DEF Snapshots
<1> QED
  BY <1>1 DEF NativeObjects, CheckpointObjects

\* An idle thread is a thread record.
LEMMA IdleType == Idle \in Thread
  BY DEF Idle, Thread, NoTables, Snapshots, Stamps

\* Noting a moved reference in the threads inside Head keeps their type.
LEMMA SeenByType ==
  ASSUME NEW threads \in [Threads -> Thread], NEW c \in Nat
  PROVE  SeenBy(threads, c) \in [Threads -> Thread]
<1>1. ASSUME NEW u \in Threads
      PROVE  [threads[u] EXCEPT !.seen = @ \cup {c}] \in Thread
  <2>1. threads[u] \in Thread /\ threads[u].seen \cup {c} \in SUBSET Nat
    BY DEF Thread
  <2> QED
    BY <2>1 DEF Thread
<1> QED
  BY <1>1 DEF SeenBy

\* The validation cache holds table versions only.
LEMMA ValidatedType ==
  ASSUME validated \subseteq Tables \X Versions, NEW tables \in Snapshots
  PROVE  Validated(tables) \subseteq Tables \X Versions
  BY DEF Validated, Snapshots

-----------------------------------------------------------------------------
(* The records keep their fields.                                           *)

\* Where a thread goes, and how it ends.
LEMMA GotoType ==
  ASSUME Shape, NEW t \in Threads, NEW record \in Thread, Goto(t, record)
  PROVE  thread' \in [Threads -> Thread]
  BY DEF Shape, Goto

\* Returning an outcome to the caller keeps the types of the threads, the lock and the answers.
LEMMA AnswerType ==
  ASSUME Shape, NEW t \in Threads, NEW outcome \in {"committed", "rejected", "unknown"},
         Answer(t, outcome)
  PROVE  /\ thread' \in [Threads -> Thread]
         /\ lock' \in Threads \cup {Nil}
         /\ answers' \subseteq [commit : Nat, outcome : {"committed", "rejected", "unknown"},
                                moved : BOOLEAN]
<1>1. thread[t] \in Thread
  BY DEF Shape
<1>2. [commit |-> thread[t].commit, outcome |-> outcome, moved |-> thread[t].moved]
        \in [commit : Nat, outcome : {"committed", "rejected", "unknown"}, moved : BOOLEAN]
  BY <1>1 DEF Thread
<1>3. thread' \in [Threads -> Thread]
  BY IdleType, GotoType DEF Answer
<1> QED
  BY <1>2, <1>3 DEF Answer, Shape

\* Calling Head starts a thread record that has seen the present reference.
LEMMA CallHeadType ==
  ASSUME Shape, Ref \in Nat, NEW t \in Threads, NEW record \in Thread,
         NEW for \in {"begin", "check"}, CallHead(t, record, for)
  PROVE  thread' \in [Threads -> Thread]
<1>1. [record EXCEPT !.pc = "stat", !.for = for, !.seen = {Ref}] \in Thread
  BY DEF Thread, HeadSteps
<1> QED
  BY <1>1, GotoType DEF CallHead

\* A write of the ref.
LEMMA MovedToType ==
  ASSUME Shape, NEW c \in Nat
  PROVE  MovedTo(c) \in [version : Nat, commit : Nat]
  BY DEF MovedTo, NextVersion, Shape

\* A thread that moves the reference, and the readers that see the move, stay thread records.
LEMMA MoveSeen ==
  ASSUME Shape, NEW t \in Threads, NEW pc \in {"failed", "published"},
         thread' = SeenBy([thread EXCEPT ![t].pc = pc, ![t].moved = TRUE], thread[t].commit)
  PROVE  thread' \in [Threads -> Thread]
<1>1. thread[t] \in Thread /\ thread[t].commit \in Nat
  BY DEF Shape, Thread
<1>2. [thread[t] EXCEPT !.pc = pc, !.moved = TRUE] \in Thread
  BY <1>1 DEF Thread
<1>3. [thread EXCEPT ![t].pc = pc, ![t].moved = TRUE] =
        [thread EXCEPT ![t] = [thread[t] EXCEPT !.pc = pc, !.moved = TRUE]]
  BY <1>1 DEF Shape, Thread
<1>4. [thread EXCEPT ![t].pc = pc, ![t].moved = TRUE] \in [Threads -> Thread]
  BY <1>2, <1>3 DEF Shape
<1> QED
  BY <1>1, <1>4, SeenByType

\* Every step keeps the types: one case per action.
LEMMA ShapeStep == IInv /\ [Next]_vars => Shape'
<1> SUFFICES ASSUME IInv, [Next]_vars PROVE Shape'
  OBVIOUS
<1>0. /\ Shape /\ Ref \in Refs /\ Ref \in Nat
      /\ \A t \in Threads : thread[t] \in Thread
  BY DEF IInv, Shape, Refers, Refs
<1>1. ASSUME NEW t \in Threads, StartInit(t) PROVE Shape'
  <2>1. thread' \in [Threads -> Thread]
    <3>1. [Idle EXCEPT !.pc = "lock", !.kind = "native"] \in Thread
      BY IdleType DEF Thread
    <3> QED
      BY <1>0, <1>1, <3>1, GotoType DEF StartInit
  <2> QED
    BY <1>0, <1>1, <2>1 DEF StartInit, Shape
<1>2. ASSUME NEW t \in Threads, StartNative(t) PROVE Shape'
  <2>1. [Idle EXCEPT !.kind = "native"] \in Thread
    BY IdleType DEF Thread
  <2>2. thread' \in [Threads -> Thread]
    BY <1>0, <1>2, <2>1, CallHeadType DEF StartNative
  <2> QED
    BY <1>0, <1>2, <2>2 DEF StartNative, Shape
<1>3. ASSUME NEW t \in Threads, StartCheckpoint(t) PROVE Shape'
  <2>1. TablesAt(Ref) \in Snapshots /\ journal.table \in Tables /\ journal.version \in Versions
    BY <1>0, <1>3, TablesAtType DEF Shape, StartCheckpoint
  <2>2. [TablesAt(Ref) EXCEPT ![journal.table] = journal.version] \in Snapshots
    BY <2>1 DEF Snapshots
  <2>3. CheckpointObjects(Ref, journal.table, journal.version) \in SUBSET Objects
    BY <1>0, <2>1, ObjectsType DEF Shape
  <2>4. thread' \in [Threads -> Thread]
    <3>1. [Idle EXCEPT !.pc = "lock", !.kind = "checkpoint", !.expected = Ref,
             !.tables = [TablesAt(Ref) EXCEPT ![journal.table] = journal.version],
             !.objects = CheckpointObjects(Ref, journal.table, journal.version)] \in Thread
      BY <1>0, <2>2, <2>3, IdleType DEF Thread
    <3> QED
      BY <1>0, <1>3, <3>1, GotoType DEF StartCheckpoint
  <2> QED
    BY <1>0, <1>3, <2>4 DEF StartCheckpoint, Shape
<1>4. ASSUME NEW t \in Threads, HeadStatLoose(t) PROVE Shape'
  <2>1. (IF loose = Nil THEN Nil ELSE loose.version) \in Stamps
    BY <1>0 DEF Shape, Stamps
  <2>2. [thread[t] EXCEPT !.pc = "stat packed",
           !.stamp = IF loose = Nil THEN Nil ELSE loose.version] \in Thread
    <3>1. thread[t] \in Thread
      BY <1>0
    <3> QED
      BY <2>1, <3>1 DEF Thread, HeadSteps
  <2>3. thread' \in [Threads -> Thread]
    BY <1>0, <1>4, <2>2, GotoType DEF HeadStatLoose
  <2> QED
    BY <1>0, <1>4, <2>3 DEF HeadStatLoose, Shape
<1>5. ASSUME NEW t \in Threads, HeadStatPacked(t) PROVE Shape'
  <2> DEFINE stamp == <<thread[t].stamp, packed.version>>
             hit == cached # Nil /\ cached.stamp = stamp
             pc == IF hit THEN "return" ELSE "resolve"
             value == IF hit THEN cached.head ELSE Nil
  <2>1. thread[t].stamp \in Stamps /\ packed.version \in Nat
    BY <1>0, <1>5 DEF HeadStatPacked, IInv, HeadInv, Pinning, Shape
  <2>2. stamp \in Stamps \cup (Stamps \X Nat) /\ value \in Stamps /\ pc \in HeadSteps
    BY <1>0, <2>1 DEF Stamps, Shape, HeadSteps
  <2>3. Goto(t, [thread[t] EXCEPT !.stamp = stamp, !.pc = pc, !.value = value])
    BY <1>5 DEF HeadStatPacked
  <2> HIDE DEF stamp, hit, pc, value
  <2>4. thread' \in [Threads -> Thread]
    <3>1. thread[t] \in Thread
      BY <1>0
    <3>2. [thread[t] EXCEPT !.stamp = stamp, !.pc = pc, !.value = value] \in Thread
      BY <2>2, <3>1 DEF Thread
    <3> QED
      BY <1>0, <2>3, <3>2, GotoType
  <2> QED
    BY <1>0, <1>5, <2>4 DEF HeadStatPacked, Shape
<1>6. ASSUME NEW t \in Threads, HeadResolve(t) PROVE Shape'
  <2>1. [thread[t] EXCEPT !.pc = "store", !.value = Ref] \in Thread
    <3>1. thread[t] \in Thread
      BY <1>0
    <3> QED
      BY <1>0, <3>1 DEF Thread, HeadSteps, Stamps
  <2>2. thread' \in [Threads -> Thread]
    BY <1>0, <1>6, <2>1, GotoType DEF HeadResolve
  <2> QED
    BY <1>0, <1>6, <2>2 DEF HeadResolve, Shape
<1>7. ASSUME NEW t \in Threads, HeadStore(t) PROVE Shape'
  <2>1. [thread[t] EXCEPT !.pc = "return"] \in Thread
    <3>1. thread[t] \in Thread
      BY <1>0
    <3> QED
      BY <3>1 DEF Thread, HeadSteps
  <2>2. thread' \in [Threads -> Thread]
    BY <1>0, <1>7, <2>1, GotoType DEF HeadStore
  <2>3. thread[t].value \in Nat /\ thread[t].stamp \in Stamps \X Nat
    BY <1>0, <1>7 DEF HeadStore, IInv, HeadInv, Pinning, Shape, Thread
  <2>4. cached' \in [head : Nat, stamp : Stamps \X Nat]
    BY <1>7, <2>3 DEF HeadStore
  <2> QED
    BY <1>0, <1>7, <2>2, <2>4 DEF HeadStore, Shape
<1>8. ASSUME NEW t \in Threads, HeadFails(t) PROVE Shape'
  <2>1. thread' \in [Threads -> Thread]
    <3>1. thread[t] \in Thread
      BY <1>0
    <3>2. [thread[t] EXCEPT !.pc = "write", !.seen = {}, !.value = Nil, !.stamp = Nil] \in Thread
      BY <3>1 DEF Thread, Stamps
    <3> QED
      BY <1>0, <1>8, <3>2, IdleType, GotoType DEF HeadFails
  <2> QED
    BY <1>0, <1>8, <2>1 DEF HeadFails, Shape
<1>9. ASSUME NEW t \in Threads, BuildNative(t) PROVE Shape'
  <2> DEFINE base == thread[t].value
  <2>1. CASE base = 0 \/ ~Valid(base)
    <3>1. thread' \in [Threads -> Thread]
      BY <1>0, <1>9, <2>1, IdleType, GotoType DEF BuildNative
    <3> QED
      BY <1>0, <1>9, <2>1, <3>1 DEF BuildNative, Shape
  <2>2. CASE ~(base = 0 \/ ~Valid(base))
    <3>1. base \in Refs
      BY <1>9 DEF BuildNative, IInv, HeadInv, Pinning, Writers, Writer
    <3>2. base \in Nat
      BY <3>1 DEF Refs
    <3>3. PICK table \in Tables, v \in Versions :
            /\ validated' = Validated(TablesAt(base))
            /\ Goto(t, [Idle EXCEPT !.pc = "lock", !.kind = "native", !.expected = base,
                          !.tables = [TablesAt(base) EXCEPT ![table] = v],
                          !.objects = NativeObjects(base, table, v)])
      BY <1>9, <2>2 DEF BuildNative
    <3> HIDE DEF base
    <3>4. TablesAt(base) \in Snapshots
      BY <1>0, <3>1, TablesAtType DEF Shape
    <3>5. [TablesAt(base) EXCEPT ![table] = v] \in Snapshots
      BY <3>4 DEF Snapshots
    <3>6. NativeObjects(base, table, v) \in SUBSET Objects
      BY <1>0, <3>1, ObjectsType DEF Shape
    <3>7. thread' \in [Threads -> Thread]
      <4>1. [Idle EXCEPT !.pc = "lock", !.kind = "native", !.expected = base,
               !.tables = [TablesAt(base) EXCEPT ![table] = v],
               !.objects = NativeObjects(base, table, v)] \in Thread
        BY <3>2, <3>5, <3>6, IdleType DEF Thread
      <4> QED
        BY <1>0, <3>3, <4>1, GotoType
    <3>8. validated' \subseteq Tables \X Versions
      BY <1>0, <3>3, <3>4, ValidatedType DEF Shape
    <3> QED
      BY <1>0, <1>9, <3>7, <3>8 DEF BuildNative, Shape
  <2> QED
    BY <2>1, <2>2
<1>10. ASSUME NEW t \in Threads, LockPublication(t) PROVE Shape'
  <2>1. CASE journal # Nil /\ (thread[t].kind = "native" \/ journal.base # Ref)
    <3>1. Answer(t, "rejected")
      BY <1>10, <2>1 DEF LockPublication
    <3> QED
      BY <1>0, <1>10, <3>1, AnswerType DEF LockPublication, Shape
  <2>2. CASE ~(journal # Nil /\ (thread[t].kind = "native" \/ journal.base # Ref))
    <3>1. thread' \in [Threads -> Thread]
      <4>1. thread[t] \in Thread
        BY <1>0
      <4>2. [thread[t] EXCEPT !.pc = "write"] \in Thread
        BY <4>1 DEF Thread
      <4> QED
        BY <1>0, <1>10, <2>2, <4>1, <4>2, IdleType, GotoType, CallHeadType
        DEF LockPublication
    <3>2. lock' \in Threads \cup {Nil} /\ answers' = answers
      BY <1>0, <1>10, <2>2 DEF LockPublication, Shape
    <3> QED
      BY <1>0, <1>10, <3>1, <3>2 DEF LockPublication, Shape
  <2> QED
    BY <2>1, <2>2
<1>11. ASSUME NEW t \in Threads, CheckHead(t) PROVE Shape'
  <2>1. CASE thread[t].value # thread[t].expected
    <3>1. Answer(t, "rejected")
      BY <1>11, <2>1 DEF CheckHead
    <3> QED
      BY <1>0, <1>11, <3>1, AnswerType DEF CheckHead, Shape
  <2>2. CASE thread[t].value = thread[t].expected
    <3>1. thread' \in [Threads -> Thread]
      <4>1. thread[t] \in Thread
        BY <1>0
      <4>2. [thread[t] EXCEPT !.pc = "write", !.seen = {}, !.value = Nil, !.stamp = Nil] \in Thread
        BY <4>1 DEF Thread, Stamps
      <4> QED
        BY <1>0, <1>11, <2>2, <4>2, GotoType DEF CheckHead
    <3> QED
      BY <1>0, <1>11, <2>2, <3>1 DEF CheckHead, Shape
  <2> QED
    BY <2>1, <2>2
<1>12. ASSUME NEW t \in Threads, WriteCommit(t) PROVE Shape'
  <2>1. PICK time \in Times :
          LET made == CommitTree(thread[t].expected, thread[t].tables, thread[t].objects, time)
          IN commits' = made.all /\ Goto(t, [thread[t] EXCEPT !.pc = "update", !.commit = made.id])
    BY <1>12 DEF WriteCommit
  <2> DEFINE made == CommitTree(thread[t].expected, thread[t].tables, thread[t].objects, time)
  <2>2. /\ thread[t].expected \in Refs /\ thread[t].tables \in Snapshots
        /\ thread[t].objects \in SUBSET Objects /\ commits \in Seq(Commit)
    BY <1>0 DEF Thread, Shape, IInv, Writers, Writer
  <2>3. made.all \in Seq(Commit) /\ made.id \in DOMAIN made.all
    BY <2>2, CommitTreeMakes DEF Makes
  <2>4. commits' = made.all /\ Goto(t, [thread[t] EXCEPT !.pc = "update", !.commit = made.id])
    BY <2>1
  <2> HIDE DEF made
  <2>5. thread' \in [Threads -> Thread]
    <3>1. [thread[t] EXCEPT !.pc = "update", !.commit = made.id] \in Thread
      <4>1. thread[t] \in Thread /\ made.id \in Nat
        BY <1>0, <2>3
      <4> QED
        BY <4>1 DEF Thread
    <3> QED
      BY <1>0, <2>4, <3>1, GotoType
  <2> QED
    BY <1>0, <1>12, <2>3, <2>4, <2>5 DEF WriteCommit, Shape
<1>13. ASSUME NEW t \in Threads, WriteFails(t) PROVE Shape'
  BY <1>0, <1>13, AnswerType DEF WriteFails, Shape
<1>14. ASSUME NEW t \in Threads, UpdateRef(t) PROVE Shape'
  <2>1. thread' \in [Threads -> Thread]
    <3>1. thread[t] \in Thread
      BY <1>0
    <3>2. [thread[t] EXCEPT !.pc = "failed"] \in Thread
      BY <3>1 DEF Thread
    <3> QED
      BY <1>0, <1>14, <3>2, MoveSeen, GotoType DEF UpdateRef
  <2>2. thread[t].commit \in Nat
    BY <1>0 DEF Thread
  <2>3. loose' = Nil \/ loose' \in [version : Nat, commit : Nat]
    BY <1>0, <1>14, <2>2, MovedToType DEF UpdateRef, Shape
  <2> QED
    BY <1>0, <1>14, <2>1, <2>3 DEF UpdateRef, Shape
<1>15. ASSUME NEW t \in Threads, UpdateInterrupted(t) PROVE Shape'
  <2>1. thread' \in [Threads -> Thread]
    <3>1. thread[t] \in Thread
      BY <1>0
    <3>2. [thread[t] EXCEPT !.pc = "failed"] \in Thread
      BY <3>1 DEF Thread
    <3> QED
      BY <1>0, <1>15, <3>2, MoveSeen, GotoType DEF UpdateInterrupted
  <2>2. thread[t].commit \in Nat
    BY <1>0 DEF Thread
  <2>3. loose' = Nil \/ loose' \in [version : Nat, commit : Nat]
    BY <1>0, <1>15, <2>2, MovedToType DEF UpdateInterrupted, Shape
  <2> QED
    BY <1>0, <1>15, <2>1, <2>3 DEF UpdateInterrupted, Shape
<1>16. ASSUME NEW t \in Threads, ResolveFailure(t) PROVE Shape'
  <2>1. CASE Answer(t, "rejected")
    BY <1>0, <1>16, <2>1, AnswerType DEF ResolveFailure, Shape
  <2>2. CASE Goto(t, [thread[t] EXCEPT !.pc = "resolve publication"]) /\ UNCHANGED <<lock, answers>>
    <3>1. thread' \in [Threads -> Thread]
      <4>1. thread[t] \in Thread
        BY <1>0
      <4>2. [thread[t] EXCEPT !.pc = "resolve publication"] \in Thread
        BY <4>1 DEF Thread
      <4> QED
        BY <1>0, <2>2, <4>2, GotoType
    <3> QED
      BY <1>0, <1>16, <2>2, <3>1 DEF ResolveFailure, Shape
  <2> QED
    BY <1>16, <2>1, <2>2 DEF ResolveFailure
<1>17. ASSUME NEW t \in Threads, ResolveFailureFails(t) PROVE Shape'
  <2>1. thread' \in [Threads -> Thread]
    <3>1. thread[t] \in Thread
      BY <1>0
    <3>2. [thread[t] EXCEPT !.pc = "resolve publication"] \in Thread
      BY <3>1 DEF Thread
    <3> QED
      BY <1>0, <1>17, <3>2, GotoType DEF ResolveFailureFails
  <2> QED
    BY <1>0, <1>17, <2>1 DEF ResolveFailureFails, Shape
<1>18. ASSUME NEW t \in Threads, ResolvePublication(t) PROVE Shape'
  <2>1. CASE Answer(t, "rejected") \/ Answer(t, "unknown")
    BY <1>0, <1>18, <2>1, AnswerType DEF ResolvePublication, Shape
  <2>2. CASE Goto(t, [thread[t] EXCEPT !.pc = "published"]) /\ UNCHANGED <<lock, answers>>
    <3>1. thread' \in [Threads -> Thread]
      <4>1. thread[t] \in Thread
        BY <1>0
      <4>2. [thread[t] EXCEPT !.pc = "published"] \in Thread
        BY <4>1 DEF Thread
      <4> QED
        BY <1>0, <2>2, <4>2, GotoType
    <3> QED
      BY <1>0, <1>18, <2>2, <3>1 DEF ResolvePublication, Shape
  <2> QED
    BY <1>18, <2>1, <2>2 DEF ResolvePublication
<1>19. ASSUME NEW t \in Threads, ResolvePublicationFails(t) PROVE Shape'
  BY <1>0, <1>19, AnswerType DEF ResolvePublicationFails, Shape
<1>20. ASSUME NEW t \in Threads, Published(t) PROVE Shape'
  <2>1. thread[t].tables \in Snapshots
    BY <1>0 DEF Thread
  <2>2. validated' \subseteq Tables \X Versions
    BY <1>0, <1>20, <2>1, ValidatedType DEF Published, Shape
  <2> QED
    BY <1>0, <1>20, <2>2, AnswerType DEF Published, Shape
<1>21. CASE Crash
  BY <1>0, <1>21, IdleType DEF Crash, Shape
<1>22. CASE JournalCommit
  BY <1>0, <1>22 DEF JournalCommit, Shape
<1>23. CASE PublishElsewhere
  <2>1. PICK t \in Tables, v \in Versions, time \in Times :
          LET made == CommitTree(Ref, [TablesAt(Ref) EXCEPT ![t] = v],
                                 NativeObjects(Ref, t, v), time)
          IN /\ commits' = made.all
             /\ loose' = MovedTo(made.id)
             /\ thread' = SeenBy(thread, made.id)
    BY <1>23 DEF PublishElsewhere
  <2> DEFINE made == CommitTree(Ref, [TablesAt(Ref) EXCEPT ![t] = v],
                                NativeObjects(Ref, t, v), time)
  <2>2. [TablesAt(Ref) EXCEPT ![t] = v] \in Snapshots
    BY <1>0, TablesAtType DEF Shape, Snapshots
  <2>3. NativeObjects(Ref, t, v) \in SUBSET Objects
    BY <1>0, ObjectsType DEF Shape
  <2>4. made.all \in Seq(Commit) /\ made.id \in Nat
    <3>1. made.all \in Seq(Commit) /\ made.id \in DOMAIN made.all
      BY <1>0, <2>2, <2>3, CommitTreeMakes DEF Shape, Makes
    <3> QED
      BY <3>1
  <2> HIDE DEF made
  <2>5. commits' = made.all /\ loose' = MovedTo(made.id) /\ thread' = SeenBy(thread, made.id)
    BY <2>1 DEF made
  <2>6. thread' \in [Threads -> Thread] /\ loose' \in [version : Nat, commit : Nat]
    BY <1>0, <2>4, <2>5, SeenByType, MovedToType DEF Shape
  <2> QED
    BY <1>0, <1>23, <2>4, <2>5, <2>6 DEF PublishElsewhere, Shape
<1>24. CASE PackRefs
  <2>1. loose.commit \in Nat
    BY <1>0, <1>24 DEF PackRefs, Shape
  <2>2. packed' \in [version : Nat, commit : Nat]
    BY <1>0, <1>24, <2>1, MovedToType DEF PackRefs
  <2> QED
    BY <1>0, <1>24, <2>2 DEF PackRefs, Shape
<1>25. CASE PruneLoose
  BY <1>0, <1>25 DEF PruneLoose, Shape
<1>26. CASE UNCHANGED vars
  BY <1>0, <1>26 DEF vars, Shape
<1> QED
  BY <1>1, <1>2, <1>3, <1>4, <1>5, <1>6, <1>7, <1>8, <1>9, <1>10, <1>11, <1>12, <1>13,
     <1>14, <1>15, <1>16, <1>17, <1>18, <1>19, <1>20, <1>21, <1>22, <1>23, <1>24, <1>25,
     <1>26 DEF Next, Start, Continue, Fail

-----------------------------------------------------------------------------
(* Commits and the ref.                                                     *)

\* Both inventories list the data objects of all tables: those of the table
\* that is written, and those the base has, with or without its index objects.
LEMMA InventoriesListed ==
  ASSUME commits \in Seq(Commit), NEW c \in Refs, NEW table \in Tables, NEW v \in Versions
  PROVE  /\ Listed([TablesAt(c) EXCEPT ![table] = v], NativeObjects(c, table, v))
         /\ Listed([TablesAt(c) EXCEPT ![table] = v], CheckpointObjects(c, table, v))
<1> DEFINE tables == [TablesAt(c) EXCEPT ![table] = v]
<1>1. TablesAt(c) \in Snapshots
  BY TablesAtType
<1>2. ASSUME NEW t \in Tables, tables[t] # Nil
      PROVE  /\ DataObject(t, tables[t]) \in NativeObjects(c, table, v)
             /\ DataObject(t, tables[t]) \in CheckpointObjects(c, table, v)
  <2>1. tables[t] = IF t = table THEN v ELSE TablesAt(c)[t]
    BY <1>1 DEF Snapshots
  <2>2. /\ DataObject(t, tables[t]) \in TableObjects(t, tables[t])
        /\ DataObject(t, tables[t]) # IndexObject(t, TablesAt(c)[t])
    BY <1>2 DEF TableObjects, DataObject, IndexObject
  <2> HIDE DEF tables
  <2>3. DataObject(t, tables[t]) \in NativeObjects(c, table, v)
    BY <2>1, <2>2 DEF NativeObjects
  <2>4. DataObject(t, tables[t]) \in CheckpointObjects(c, table, v)
    BY <2>1, <2>2 DEF CheckpointObjects
  <2> QED
    BY <2>3, <2>4
<1> QED
  BY <1>2 DEF Listed

\* Commits are only made, from complete inventories and on commits that exist.
LEMMA CommitsMade ==
  ASSUME IInv, [Next]_vars
  PROVE  \/ commits' = commits
         \/ \E parent \in Refs, tables \in Snapshots, objects \in SUBSET Objects, time \in Times :
              /\ Listed(tables, objects)
              /\ commits' = CommitTree(parent, tables, objects, time).all
<1>1. ASSUME NEW t \in Threads, WriteCommit(t)
      PROVE  \E parent \in Refs, tables \in Snapshots, objects \in SUBSET Objects, time \in Times :
               /\ Listed(tables, objects)
               /\ commits' = CommitTree(parent, tables, objects, time).all
  <2>1. /\ thread[t].expected \in Refs /\ thread[t].tables \in Snapshots
        /\ thread[t].objects \in SUBSET Objects
        /\ Listed(thread[t].tables, thread[t].objects)
    BY DEF IInv, Shape, Thread, Writers, Writer
  <2>2. \E time \in Times :
          commits' = CommitTree(thread[t].expected, thread[t].tables, thread[t].objects, time).all
    BY <1>1 DEF WriteCommit
  <2> QED
    BY <2>1, <2>2
<1>2. ASSUME PublishElsewhere
      PROVE  \E parent \in Refs, tables \in Snapshots, objects \in SUBSET Objects, time \in Times :
               /\ Listed(tables, objects)
               /\ commits' = CommitTree(parent, tables, objects, time).all
  <2>1. PICK t \in Tables, v \in Versions, time \in Times :
          commits' = CommitTree(Ref, [TablesAt(Ref) EXCEPT ![t] = v],
                                NativeObjects(Ref, t, v), time).all
    BY <1>2 DEF PublishElsewhere
  <2>2. commits \in Seq(Commit) /\ Ref \in Refs
    BY DEF IInv, Shape, Refers
  <2>3. [TablesAt(Ref) EXCEPT ![t] = v] \in Snapshots
    BY <2>2, TablesAtType DEF Snapshots
  <2>4. NativeObjects(Ref, t, v) \in SUBSET Objects
    BY <2>2, ObjectsType
  <2>5. Listed([TablesAt(Ref) EXCEPT ![t] = v], NativeObjects(Ref, t, v))
    BY <2>2, InventoriesListed
  <2> QED
    BY <2>1, <2>2, <2>3, <2>4, <2>5
<1>3. ASSUME NEW t \in Threads,
             \/ Start(t) \/ Fail(t)
             \/ HeadStatLoose(t) \/ HeadStatPacked(t) \/ HeadResolve(t) \/ HeadStore(t)
             \/ BuildNative(t) \/ LockPublication(t) \/ CheckHead(t)
             \/ UpdateRef(t) \/ ResolveFailure(t) \/ ResolvePublication(t) \/ Published(t)
      PROVE  commits' = commits
  BY <1>3 DEF Start, StartInit, StartNative, StartCheckpoint, Fail, HeadFails, WriteFails,
              UpdateInterrupted, ResolveFailureFails, ResolvePublicationFails, HeadStatLoose,
              HeadStatPacked, HeadResolve, HeadStore, BuildNative, LockPublication, CheckHead,
              UpdateRef, ResolveFailure, ResolvePublication, Published
<1>4. ASSUME Crash \/ JournalCommit \/ PackRefs \/ PruneLoose \/ UNCHANGED vars
      PROVE  commits' = commits
  BY <1>4 DEF Crash, JournalCommit, PackRefs, PruneLoose, vars
<1> QED
  BY <1>1, <1>2, <1>3, <1>4 DEF Next, Continue

\* No commit changes or is lost, and a commit's history stays what it is.
LEMMA CommitsKept ==
  ASSUME IInv, [Next]_vars
  PROVE  /\ Len(commits) \in Nat /\ Len(commits') \in Nat /\ Len(commits') >= Len(commits)
         /\ DOMAIN commits = 1..Len(commits) /\ DOMAIN commits' = 1..Len(commits')
         /\ \A n \in DOMAIN commits : commits'[n] = commits[n]
         /\ \A c \in Refs : c \in Refs' /\ History(c)' = History(c)
<1>1. commits \in Seq(Commit)
  BY DEF IInv, Shape
<1>2. commits' \in Seq(Commit)
  BY ShapeStep DEF Shape
<1>3. /\ Len(commits') >= Len(commits)
      /\ \A n \in DOMAIN commits : commits'[n] = commits[n]
  <2>1. CASE commits' = commits
    BY <1>1, <2>1
  <2>2. CASE commits' # commits
    <3>1. PICK parent \in Refs, tables \in Snapshots, objects \in SUBSET Objects, time \in Times :
            commits' = CommitTree(parent, tables, objects, time).all
      BY <2>2, CommitsMade
    <3> DEFINE made == CommitTree(parent, tables, objects, time)
    <3>2. Makes(made, parent, tables, objects, time)
      BY <1>1, CommitTreeMakes
    <3> HIDE DEF made
    <3>3. commits' = made.all
      BY <3>1 DEF made
    <3> QED
      BY <3>2, <3>3 DEF Makes
  <2> QED
    BY <2>1, <2>2
<1>4. /\ Len(commits) \in Nat /\ Len(commits') \in Nat
      /\ DOMAIN commits = 1..Len(commits) /\ DOMAIN commits' = 1..Len(commits')
  BY <1>1, <1>2
<1>5. ASSUME NEW c \in Refs PROVE c \in Refs' /\ History(c)' = History(c)
  BY <1>3, <1>4 DEF Refs, History
<1> QED
  BY <1>3, <1>4, <1>5

\* The commit graph stays one: a new commit descends from its parent alone.
LEMMA GraphStep == IInv /\ [Next]_vars => Graph'
<1> SUFFICES ASSUME IInv, [Next]_vars, NEW n \in DOMAIN commits'
             PROVE  /\ commits'[n].parent < n
                    /\ commits'[n].anc = {n} \cup IF commits'[n].parent = 0 THEN {}
                                                  ELSE commits'[commits'[n].parent].anc
                    /\ commits'[n].anc \subseteq 1..n
                    /\ Listed(commits'[n].tables, commits'[n].objects)
  BY DEF Graph, Listed, History
<1>0. commits \in Seq(Commit)
  BY DEF IInv, Shape
<1>1. CASE n \in DOMAIN commits
  <2>1. /\ commits[n].parent < n
        /\ commits[n].anc = {n} \cup History(commits[n].parent)
        /\ commits[n].anc \subseteq 1..n
        /\ Listed(commits[n].tables, commits[n].objects)
    BY <1>1 DEF IInv, Graph
  <2>2. commits'[n] = commits[n] /\ n \in 1..Len(commits) /\ Len(commits) \in Nat
    BY <1>1, CommitsKept
  <2>3. commits[n].parent \in Nat
    <3>1. commits[n] \in Commit
      BY <1>0, <1>1
    <3> QED
      BY <3>1 DEF Commit
  <2>4. commits[n].parent \in Refs
    BY <2>1, <2>2, <2>3 DEF Refs
  <2>5. \A c \in Refs : History(c)' = History(c)
    BY CommitsKept
  <2>6. History(commits[n].parent) = IF commits[n].parent = 0 THEN {}
                                     ELSE commits'[commits[n].parent].anc
    BY <2>4, <2>5 DEF History
  <2> QED
    BY <2>1, <2>2, <2>6
<1>2. CASE n \notin DOMAIN commits
  <2>1. PICK parent \in Refs, tables \in Snapshots, objects \in SUBSET Objects, time \in Times :
          /\ Listed(tables, objects)
          /\ commits' = CommitTree(parent, tables, objects, time).all
    BY <1>2, CommitsMade
  <2> DEFINE made == CommitTree(parent, tables, objects, time)
  <2>2. /\ n = Len(commits) + 1
        /\ commits'[n] = [parent |-> parent, tables |-> tables, objects |-> objects,
                          time |-> time, anc |-> History(parent) \cup {n}]
    <3>1. Makes(made, parent, tables, objects, time)
      BY <1>0, CommitTreeMakes
    <3> HIDE DEF made
    <3>2. commits' = made.all
      BY <2>1 DEF made
    <3> QED
      BY <1>2, <3>1, <3>2 DEF Makes
  <2>3. parent \in 0..Len(commits) /\ Len(commits) \in Nat
    BY <1>0 DEF Refs
  <2>4. History(parent) \subseteq 1..Len(commits)
    <3>1. CASE parent = 0
      BY <3>1 DEF History
    <3>2. CASE parent # 0
      <4>1. parent \in DOMAIN commits
        BY <1>0, <2>3, <3>2
      <4>2. commits[parent].anc \subseteq 1..parent
        BY <4>1 DEF IInv, Graph
      <4> QED
        BY <2>3, <3>2, <4>2 DEF History
    <3> QED
      BY <3>1, <3>2
  <2>5. History(parent)' = History(parent)
    BY CommitsKept
  <2>6. (IF parent = 0 THEN {} ELSE commits'[parent].anc) = History(parent)
    BY <2>5 DEF History
  <2> HIDE DEF made
  <2> QED
    BY <2>1, <2>2, <2>3, <2>4, <2>6
<1> QED
  BY <1>1, <1>2

\* The ref is moved to a child of its value, whoever moves it: git update-ref of
\* a thread, whether it is interrupted or not, and other processes.
Moves(c) ==
  /\ c \in DOMAIN commits' /\ commits'[c].parent = Ref
  /\ loose' = MovedTo(c) /\ packed' = packed /\ cached' = cached

\* Another process moves the ref, and every thread inside Head sees it.
LEMMA ElsewhereMoves ==
  ASSUME IInv, PublishElsewhere
  PROVE  \E c : Moves(c) /\ thread' = SeenBy(thread, c)
<1>1. PICK t \in Tables, v \in Versions, time \in Times :
        LET made == CommitTree(Ref, [TablesAt(Ref) EXCEPT ![t] = v],
                               NativeObjects(Ref, t, v), time)
        IN /\ commits' = made.all /\ loose' = MovedTo(made.id)
           /\ thread' = SeenBy(thread, made.id)
  BY DEF PublishElsewhere
<1> DEFINE tables == [TablesAt(Ref) EXCEPT ![t] = v]
           made == CommitTree(Ref, tables, NativeObjects(Ref, t, v), time)
<1>2. commits \in Seq(Commit) /\ Ref \in Refs
  BY DEF IInv, Shape, Refers
<1>3. tables \in Snapshots /\ NativeObjects(Ref, t, v) \in SUBSET Objects
  BY <1>2, TablesAtType, ObjectsType DEF Snapshots
<1>4. Makes(made, Ref, tables, NativeObjects(Ref, t, v), time)
  BY <1>2, <1>3, CommitTreeMakes
<1>5. /\ commits' = made.all /\ loose' = MovedTo(made.id)
      /\ thread' = SeenBy(thread, made.id)
  BY <1>1
<1> HIDE DEF made, tables
<1>6. Moves(made.id)
  BY <1>4, <1>5 DEF Makes, Moves, PublishElsewhere
<1> QED
  BY <1>5, <1>6

\* The two reference files change only when a publication moves the reference, or git packs or
\* prunes it.
LEMMA FilesWritten ==
  ASSUME IInv, [Next]_vars
  PROVE  \/ UNCHANGED <<loose, packed>>
         \/ \E c : Moves(c)
         \/ PackRefs
         \/ PruneLoose
<1>1. ASSUME NEW t \in Threads, UpdateRef(t) \/ UpdateInterrupted(t)
      PROVE  UNCHANGED <<loose, packed>> \/ Moves(thread[t].commit)
  <2>1. CASE UNCHANGED loose
    BY <1>1, <2>1 DEF UpdateRef, UpdateInterrupted
  <2>2. CASE loose' # loose
    <3>1. /\ thread[t].pc = "update" /\ Ref = thread[t].expected
          /\ loose' = MovedTo(thread[t].commit)
          /\ packed' = packed /\ cached' = cached /\ commits' = commits
      BY <1>1, <2>2 DEF UpdateRef, UpdateInterrupted
    <3>2. thread[t].commit \in DOMAIN commits /\ commits[thread[t].commit].parent = Ref
      BY <3>1 DEF IInv, Writers, Writer, AfterWrite
    <3> QED
      BY <3>1, <3>2 DEF Moves
  <2> QED
    BY <2>1, <2>2
<1>2. ASSUME PublishElsewhere PROVE \E c : Moves(c)
  BY <1>2, ElsewhereMoves
<1>3. ASSUME NEW t \in Threads,
             \/ Start(t) \/ HeadFails(t) \/ WriteFails(t)
             \/ ResolveFailureFails(t) \/ ResolvePublicationFails(t)
             \/ HeadStatLoose(t) \/ HeadStatPacked(t) \/ HeadResolve(t) \/ HeadStore(t)
             \/ BuildNative(t) \/ LockPublication(t) \/ CheckHead(t) \/ WriteCommit(t)
             \/ ResolveFailure(t) \/ ResolvePublication(t) \/ Published(t)
      PROVE  UNCHANGED <<loose, packed>>
  BY <1>3 DEF Start, StartInit, StartNative, StartCheckpoint, HeadFails, WriteFails,
              ResolveFailureFails, ResolvePublicationFails, HeadStatLoose,
              HeadStatPacked, HeadResolve, HeadStore, BuildNative, LockPublication, CheckHead,
              WriteCommit, ResolveFailure, ResolvePublication, Published
<1>4. ASSUME Crash \/ JournalCommit \/ UNCHANGED vars
      PROVE  UNCHANGED <<loose, packed>>
  BY <1>4 DEF Crash, JournalCommit, vars
<1> QED
  BY <1>1, <1>2, <1>3, <1>4 DEF Next, Continue, Fail

\* After a move the ref is the new commit, and the new file the newest.
LEMMA MovesRef ==
  ASSUME IInv, [Next]_vars, NEW c, Moves(c)
  PROVE  /\ Ref' = c /\ loose' # Nil /\ loose'.commit = c
         /\ loose'.version = NextVersion /\ NextVersion \in Nat
<1>1. c \in Nat
  BY CommitsKept DEF Moves
<1>2. MovedTo(c) \in [version : Nat, commit : Nat]
  BY <1>1, MovedToType DEF IInv
<1>3. loose' # Nil
  BY <1>2, PublicationAssumption DEF Moves
<1> QED
  BY <1>2, <1>3 DEF Moves, MovedTo, Ref

\* The ref keeps its value or goes to a child of it.
LEMMA RefStep ==
  ASSUME IInv, [Next]_vars
  PROVE  \/ Ref' = Ref
         \/ Ref' \in DOMAIN commits' /\ commits'[Ref'].parent = Ref
<1>1. CASE UNCHANGED <<loose, packed>>
  BY <1>1 DEF Ref
<1>2. ASSUME NEW c, Moves(c) PROVE Ref' \in DOMAIN commits' /\ commits'[Ref'].parent = Ref
  BY <1>2, MovesRef DEF Moves
<1>3. CASE PackRefs
  BY <1>3 DEF PackRefs, Ref
<1>4. CASE PruneLoose
  BY <1>4 DEF PruneLoose, Ref
<1> QED
  BY <1>1, <1>2, <1>3, <1>4, FilesWritten

\* So the history only grows, by the new head.
LEMMA HistoryStep ==
  ASSUME IInv, [Next]_vars
  PROVE  /\ Ref' \in Refs'
         /\ History(Ref) \subseteq History(Ref)'
         /\ History(Ref)' \subseteq History(Ref) \cup {Ref'}
         /\ Ref' # 0 => Ref' \in History(Ref)'
<1>1. Graph'
  BY GraphStep
<1>2. Ref \in Refs /\ Ref \in Refs' /\ History(Ref) = IF Ref = 0 THEN {} ELSE commits'[Ref].anc
  BY CommitsKept DEF IInv, Refers, History, Refs
<1>3. CASE Ref' = Ref
  <2>1. Ref # 0 => Ref \in commits'[Ref].anc
    BY <1>1, <1>2, CommitsKept DEF Graph, Refs
  <2> QED
    BY <1>2, <1>3, <2>1 DEF History
<1>4. CASE Ref' \in DOMAIN commits' /\ commits'[Ref'].parent = Ref
  <2>1. /\ Ref' \in 1..Len(commits') /\ Len(commits') \in Nat
        /\ commits'[Ref'].anc = {Ref'} \cup IF Ref = 0 THEN {} ELSE commits'[Ref].anc
    BY <1>1, <1>4, CommitsKept DEF Graph, History
  <2> QED
    BY <1>2, <2>1 DEF History, Refs
<1> QED
  BY <1>3, <1>4, RefStep

-----------------------------------------------------------------------------
(* Threads.                                                                 *)

\* A thread that keeps its publication stays sound, wherever it goes.
LEMMA WriterKept ==
  ASSUME IInv, [Next]_vars, NEW u \in Threads,
         thread'[u].expected = thread[u].expected,
         thread'[u].commit = thread[u].commit,
         thread'[u].tables = thread[u].tables,
         thread'[u].objects = thread[u].objects,
         thread'[u].seen \subseteq Refs',
         thread'[u].pc \in AfterWrite => thread[u].pc \in AfterWrite,
         thread'[u].moved = TRUE => thread'[u].pc \in AfterUpdate,
         thread'[u].moved = TRUE \/ thread'[u].pc = "published" =>
           \/ thread[u].moved = TRUE \/ thread[u].pc = "published"
           \/ thread[u].commit \in History(Ref)'
  PROVE  Writer(u)'
<1>1. Writer(u)
  BY DEF IInv, Writers
<1>2. thread[u].expected \in Refs' /\ thread[u].commit \in Refs'
  BY <1>1, CommitsKept DEF Writer
<1>3. thread'[u].pc \in AfterWrite =>
        /\ thread[u].commit \in DOMAIN commits'
        /\ commits'[thread[u].commit].parent = thread[u].expected
  <2> SUFFICES ASSUME thread[u].pc \in AfterWrite
               PROVE  /\ thread[u].commit \in DOMAIN commits'
                      /\ commits'[thread[u].commit].parent = thread[u].expected
    OBVIOUS
  <2>1. /\ thread[u].commit \in DOMAIN commits
        /\ commits[thread[u].commit].parent = thread[u].expected
    BY <1>1 DEF Writer, AfterWrite, AfterUpdate
  <2>2. /\ Len(commits) \in Nat /\ Len(commits') \in Nat /\ Len(commits') >= Len(commits)
        /\ DOMAIN commits = 1..Len(commits) /\ DOMAIN commits' = 1..Len(commits')
        /\ \A n \in DOMAIN commits : commits'[n] = commits[n]
    BY CommitsKept
  <2> QED
    BY <2>1, <2>2
<1>4. thread'[u].moved = TRUE \/ thread'[u].pc = "published" => thread[u].commit \in History(Ref)'
  BY <1>1, HistoryStep DEF Writer
<1>5. Listed(thread[u].tables, thread[u].objects)
  BY <1>1 DEF Writer
<1> QED
  BY <1>2, <1>3, <1>4, <1>5 DEF Writer, AfterWrite, AfterUpdate, Listed

\* A thread that has returned satisfies Writer: it publishes nothing.
LEMMA WriterIdle ==
  ASSUME NEW u \in Threads, thread'[u] = Idle, Len(commits') \in Nat
  PROVE  Writer(u)'
  BY DEF Writer, Idle, Listed, NoTables, Refs, AfterWrite, AfterUpdate

\* The other threads, when the ref is moved and when it is not.
LEMMA OtherWriter ==
  ASSUME IInv, [Next]_vars, NEW u \in Threads,
         thread'[u] = thread[u] \/ thread'[u] = [thread[u] EXCEPT !.seen = @ \cup {Ref'}]
  PROVE  Writer(u)'
<1>1. Writer(u) /\ thread[u] \in Thread
  BY DEF IInv, Writers, Shape
<1>2. thread[u].seen \cup {Ref'} \subseteq Refs'
  BY <1>1, CommitsKept, HistoryStep DEF Writer
<1>3. /\ thread'[u].expected = thread[u].expected /\ thread'[u].commit = thread[u].commit
      /\ thread'[u].tables = thread[u].tables /\ thread'[u].objects = thread[u].objects
      /\ thread'[u].seen \subseteq Refs'
      /\ thread'[u].pc = thread[u].pc /\ thread'[u].moved = thread[u].moved
  BY <1>1, <1>2 DEF Thread
<1>4. thread[u].moved = TRUE => thread[u].pc \in AfterUpdate
  BY <1>1 DEF Writer
<1> QED
  BY <1>3, <1>4, WriterKept

\* A step of one thread.
LEMMA GotoOthers ==
  ASSUME Shape, NEW t \in Threads, NEW record, Goto(t, record)
  PROVE  /\ thread'[t] = record
         /\ \A u \in Threads : u # t => thread'[u] = thread[u]
  BY DEF Shape, Goto

\* A thread that starts to publish on a head.
LEMMA WriterStarts ==
  ASSUME IInv, [Next]_vars, NEW u \in Threads, NEW base \in Refs, NEW kind,
         NEW tables, NEW objects, Listed(tables, objects), NEW record,
         record = [Idle EXCEPT !.pc = "lock", !.kind = kind, !.expected = base,
                               !.tables = tables, !.objects = objects],
         Goto(u, record)
  PROVE  Writers'
<1>1. base \in Refs' /\ 0 \in Refs'
  BY CommitsKept DEF Refs
<1>2. /\ record.expected = base /\ record.commit = 0 /\ record.seen = {}
      /\ record.tables = tables /\ record.objects = objects
      /\ record.pc = "lock" /\ record.moved = FALSE
  BY DEF Idle
<1>3. thread'[u] = record /\ \A w \in Threads : w # u => thread'[w] = thread[w]
  BY GotoOthers DEF IInv
<1>4. Writer(u)'
  BY <1>1, <1>2, <1>3 DEF Writer, Listed, AfterWrite, AfterUpdate
<1> QED
  BY <1>3, <1>4, OtherWriter DEF Writers

\* A thread whose command moves the ref, and the others, which see it.
LEMMA MoveOthers ==
  ASSUME Shape, NEW t \in Threads, NEW pc \in AfterUpdate,
         thread' = SeenBy([thread EXCEPT ![t].pc = pc, ![t].moved = TRUE], thread[t].commit)
  PROVE  /\ thread'[t] = [thread[t] EXCEPT !.pc = pc, !.moved = TRUE]
         /\ \A u \in Threads : u # t =>
              thread'[u] = IF thread[u].pc \in HeadSteps
                             THEN [thread[u] EXCEPT !.seen = @ \cup {thread[t].commit}]
                             ELSE thread[u]
<1>1. thread[t] \in Thread
  BY DEF Shape
<1>2. [thread EXCEPT ![t].pc = pc, ![t].moved = TRUE] =
        [thread EXCEPT ![t] = [thread[t] EXCEPT !.pc = pc, !.moved = TRUE]]
  BY <1>1 DEF Shape, Thread
<1>3. [thread[t] EXCEPT !.pc = pc, !.moved = TRUE].pc = pc
  BY <1>1 DEF Thread
<1> QED
  BY <1>1, <1>2, <1>3 DEF SeenBy, Shape, AfterWrite, AfterUpdate, HeadSteps

SamePublication(r, s) ==
  /\ r.expected = s.expected /\ r.commit = s.commit /\ r.moved = s.moved
  /\ r.tables = s.tables /\ r.objects = s.objects

\* A step of one thread that keeps its publication, with what it may have seen.
LEMMA GotoKeeps ==
  ASSUME IInv, [Next]_vars, NEW t \in Threads, NEW record, Goto(t, record),
         SamePublication(record, thread[t]),
         record.seen \subseteq thread[t].seen \cup {Ref},
         record.pc \in AfterWrite => thread[t].pc \in AfterWrite,
         thread[t].pc \in AfterUpdate => record.pc \in AfterUpdate,
         record.pc = "published" => thread[t].commit \in History(Ref)'
  PROVE  Writers'
<1>1. Shape /\ Writer(t) /\ Ref \in Refs
  BY DEF IInv, Writers, Refers
<1>2. thread'[t] = record /\ \A u \in Threads : u # t => thread'[u] = thread[u]
  BY <1>1, GotoOthers
<1>3. record.seen \subseteq Refs'
  BY <1>1, CommitsKept DEF Writer
<1>4. Writer(t)'
  <2>1. record.moved = TRUE => record.pc \in AfterUpdate
    BY <1>1 DEF Writer, SamePublication
  <2>2. record.moved = TRUE \/ record.pc = "published" =>
          \/ thread[t].moved = TRUE \/ thread[t].pc = "published"
          \/ thread[t].commit \in History(Ref)'
    BY DEF SamePublication
  <2> QED
    BY <1>2, <1>3, <2>1, <2>2, WriterKept DEF SamePublication
<1>5. \A u \in Threads : u # t => Writer(u)'
  BY <1>2, OtherWriter
<1> QED
  BY <1>4, <1>5 DEF Writers

\* A thread that ends.
LEMMA GotoIdleKeeps ==
  ASSUME IInv, [Next]_vars, NEW t \in Threads, Goto(t, Idle)
  PROVE  Writers'
<1>1. thread'[t] = Idle /\ \A u \in Threads : u # t => thread'[u] = thread[u]
  BY GotoOthers DEF IInv
<1>2. Writer(t)'
  BY <1>1, WriterIdle, CommitsKept
<1>3. \A u \in Threads : u # t => Writer(u)'
  BY <1>1, OtherWriter
<1> QED
  BY <1>2, <1>3 DEF Writers

\* A thread whose command moves the ref to its commit.
LEMMA MoveKeeps ==
  ASSUME IInv, [Next]_vars, NEW t \in Threads, NEW pc \in AfterUpdate,
         thread[t].pc = "update", Moves(thread[t].commit), NEW record,
         record = [thread[t] EXCEPT !.pc = pc, !.moved = TRUE], thread'[t] = record,
         \A u \in Threads : u # t =>
           thread'[u] = IF thread[u].pc \in HeadSteps
                          THEN [thread[u] EXCEPT !.seen = @ \cup {thread[t].commit}]
                          ELSE thread[u]
  PROVE  Writers'
<1>1. Writer(t) /\ thread[t] \in Thread
  BY DEF IInv, Writers, Shape
<1>2. /\ record.expected = thread[t].expected /\ record.commit = thread[t].commit
      /\ record.tables = thread[t].tables /\ record.objects = thread[t].objects
      /\ record.seen = thread[t].seen /\ record.pc = pc
  BY <1>1 DEF Thread
<1>3. Ref' = thread[t].commit /\ Ref' # 0
  BY MovesRef, CommitsKept DEF Moves
<1>4. thread[t].commit \in History(Ref)'
  BY <1>3, HistoryStep
<1>5. thread[t].seen \subseteq Refs'
  BY <1>1, CommitsKept DEF Writer
<1>6. Writer(t)'
  BY <1>2, <1>4, <1>5, WriterKept DEF AfterWrite
<1>7. \A u \in Threads : u # t => Writer(u)'
  BY <1>3, OtherWriter
<1> QED
  BY <1>6, <1>7 DEF Writers

\* Every step keeps the threads' publications sound.
LEMMA WritersStep == IInv /\ [Next]_vars => Writers'
<1> SUFFICES ASSUME IInv, [Next]_vars PROVE Writers'
  OBVIOUS
<1>0. /\ Shape /\ Writers /\ commits \in Seq(Commit) /\ Ref \in Refs
      /\ \A t \in Threads : thread[t] \in Thread
  BY DEF IInv, Shape, Refers
<1>1. ASSUME NEW t \in Threads, StartInit(t) PROVE Writers'
  <2> DEFINE r == [Idle EXCEPT !.pc = "lock", !.kind = "native"]
  <2>1. Goto(t, r)
    BY <1>1 DEF StartInit
  <2>2. /\ r.expected = 0 /\ r.commit = 0 /\ r.moved = FALSE /\ r.seen = {}
        /\ r.tables = NoTables /\ r.pc = "lock"
    BY DEF Idle
  <2> HIDE DEF r
  <2>3. thread'[t] = r /\ \A u \in Threads : u # t => thread'[u] = thread[u]
    BY <1>0, <2>1, GotoOthers
  <2>4. Len(commits') \in Nat
    BY CommitsKept
  <2>5. Writer(t)'
    <3>1. 0 \in Refs' /\ r.seen \subseteq Refs'
      BY <2>2, <2>4 DEF Refs
    <3>2. Listed(r.tables, r.objects)
      BY <2>2 DEF Listed, NoTables
    <3> QED
      BY <2>2, <2>3, <3>1, <3>2 DEF Writer, Listed, AfterWrite, AfterUpdate
  <2> QED
    BY <2>3, <2>5, OtherWriter DEF Writers
<1>2. ASSUME NEW t \in Threads, StartNative(t) PROVE Writers'
  <2> DEFINE r == [[Idle EXCEPT !.kind = "native"] EXCEPT
                     !.pc = "stat", !.for = "begin", !.seen = {Ref}]
  <2>1. Goto(t, r)
    BY <1>2 DEF StartNative, CallHead
  <2>2. /\ r.expected = 0 /\ r.commit = 0 /\ r.moved = FALSE /\ r.seen = {Ref}
        /\ r.tables = NoTables /\ r.pc = "stat"
    BY DEF Idle
  <2> HIDE DEF r
  <2>3. thread'[t] = r /\ \A u \in Threads : u # t => thread'[u] = thread[u]
    BY <1>0, <2>1, GotoOthers
  <2>4. Len(commits') \in Nat /\ Ref \in Refs'
    BY <1>0, CommitsKept
  <2>5. Writer(t)'
    <3>1. 0 \in Refs' /\ r.seen \subseteq Refs'
      BY <2>2, <2>4 DEF Refs
    <3>2. Listed(r.tables, r.objects)
      BY <2>2 DEF Listed, NoTables
    <3> QED
      BY <2>2, <2>3, <3>1, <3>2 DEF Writer, Listed, AfterWrite, AfterUpdate
  <2> QED
    BY <2>3, <2>5, OtherWriter DEF Writers
<1>3. ASSUME NEW t \in Threads, StartCheckpoint(t) PROVE Writers'
  <2> DEFINE tables == [TablesAt(Ref) EXCEPT ![journal.table] = journal.version]
             objects == CheckpointObjects(Ref, journal.table, journal.version)
  <2>1. Goto(t, [Idle EXCEPT !.pc = "lock", !.kind = "checkpoint", !.expected = Ref,
                             !.tables = tables, !.objects = objects])
    BY <1>3 DEF StartCheckpoint
  <2>2. journal.table \in Tables /\ journal.version \in Versions
    BY <1>0, <1>3 DEF StartCheckpoint, Shape
  <2>3. Listed(tables, objects)
    BY <1>0, <2>2, InventoriesListed
  <2> HIDE DEF tables, objects
  <2> QED
    BY <1>0, <2>1, <2>3, WriterStarts
<1>4. ASSUME NEW t \in Threads, HeadStatLoose(t) PROVE Writers'
  <2> DEFINE r == [thread[t] EXCEPT !.pc = "stat packed",
                     !.stamp = IF loose = Nil THEN Nil ELSE loose.version]
  <2>1. Goto(t, r)
    BY <1>4 DEF HeadStatLoose
  <2>2. thread[t] \in Thread
    BY <1>0
  <2>3. SamePublication(r, thread[t]) /\ r.seen = thread[t].seen /\ r.pc = "stat packed"
    BY <2>2 DEF Thread, SamePublication
  <2> HIDE DEF r
  <2> QED
    BY <1>4, <2>1, <2>3, GotoKeeps DEF AfterWrite, AfterUpdate, HeadStatLoose
<1>5. ASSUME NEW t \in Threads, HeadStatPacked(t) PROVE Writers'
  <2> DEFINE stamp == <<thread[t].stamp, packed.version>>
             hit == cached # Nil /\ cached.stamp = stamp
             pc == IF hit THEN "return" ELSE "resolve"
             value == IF hit THEN cached.head ELSE Nil
             r == [thread[t] EXCEPT !.stamp = stamp, !.pc = pc, !.value = value]
  <2>1. Goto(t, r) /\ pc \in {"return", "resolve"}
    BY <1>5 DEF HeadStatPacked
  <2>2. thread[t] \in Thread
    BY <1>0
  <2> HIDE DEF stamp, hit, pc, value
  <2>3. SamePublication(r, thread[t]) /\ r.seen = thread[t].seen /\ r.pc = pc
    BY <2>2 DEF Thread, SamePublication
  <2> HIDE DEF r
  <2> QED
    BY <1>5, <2>1, <2>3, GotoKeeps DEF AfterWrite, AfterUpdate, HeadStatPacked
<1>6. ASSUME NEW t \in Threads, HeadResolve(t) PROVE Writers'
  <2> DEFINE r == [thread[t] EXCEPT !.pc = "store", !.value = Ref]
  <2>1. Goto(t, r)
    BY <1>6 DEF HeadResolve
  <2>2. thread[t] \in Thread
    BY <1>0
  <2>3. SamePublication(r, thread[t]) /\ r.seen = thread[t].seen /\ r.pc = "store"
    BY <2>2 DEF Thread, SamePublication
  <2> HIDE DEF r
  <2> QED
    BY <1>6, <2>1, <2>3, GotoKeeps DEF AfterWrite, AfterUpdate, HeadResolve
<1>7. ASSUME NEW t \in Threads, HeadStore(t) PROVE Writers'
  <2> DEFINE r == [thread[t] EXCEPT !.pc = "return"]
  <2>1. Goto(t, r)
    BY <1>7 DEF HeadStore
  <2>2. thread[t] \in Thread
    BY <1>0
  <2>3. SamePublication(r, thread[t]) /\ r.seen = thread[t].seen /\ r.pc = "return"
    BY <2>2 DEF Thread, SamePublication
  <2> HIDE DEF r
  <2> QED
    BY <1>7, <2>1, <2>3, GotoKeeps DEF AfterWrite, AfterUpdate, HeadStore
<1>8. ASSUME NEW t \in Threads, HeadFails(t) \/ CheckHead(t) PROVE Writers'
  <2> DEFINE r == [thread[t] EXCEPT !.pc = "write", !.seen = {}, !.value = Nil, !.stamp = Nil]
  <2>1. Goto(t, r) \/ Goto(t, Idle)
    BY <1>8 DEF HeadFails, CheckHead, Answer
  <2>2. thread[t] \in Thread
    BY <1>0
  <2>3. SamePublication(r, thread[t]) /\ r.seen = {} /\ r.pc = "write"
    BY <2>2 DEF Thread, SamePublication
  <2> HIDE DEF r
  <2> QED
    BY <1>8, <2>1, <2>3, GotoKeeps, GotoIdleKeeps DEF AfterWrite, AfterUpdate, HeadFails, CheckHead
<1>9. ASSUME NEW t \in Threads, BuildNative(t) PROVE Writers'
  <2>1. CASE Goto(t, Idle)
    BY <2>1, GotoIdleKeeps
  <2>2. CASE ~Goto(t, Idle)
    <3> DEFINE base == thread[t].value
    <3>1. base \in Refs
      BY <1>9 DEF BuildNative, IInv, HeadInv, Pinning, Writers, Writer
    <3>2. PICK table \in Tables, v \in Versions :
            Goto(t, [Idle EXCEPT !.pc = "lock", !.kind = "native", !.expected = base,
                       !.tables = [TablesAt(base) EXCEPT ![table] = v],
                       !.objects = NativeObjects(base, table, v)])
      BY <1>9, <2>2 DEF BuildNative
    <3>3. Listed([TablesAt(base) EXCEPT ![table] = v], NativeObjects(base, table, v))
      BY <1>0, <3>1, InventoriesListed
    <3> HIDE DEF base
    <3> QED
      BY <3>1, <3>2, <3>3, WriterStarts
  <2> QED
    BY <2>1, <2>2
<1>10. ASSUME NEW t \in Threads, LockPublication(t) PROVE Writers'
  <2> DEFINE w == [thread[t] EXCEPT !.pc = "write"]
             r == [thread[t] EXCEPT !.pc = "stat", !.for = "check", !.seen = {Ref}]
  <2>1. Goto(t, Idle) \/ Goto(t, w) \/ Goto(t, r)
    BY <1>10 DEF LockPublication, Answer, CallHead
  <2>2. thread[t] \in Thread
    BY <1>0
  <2>3. SamePublication(w, thread[t]) /\ w.seen = thread[t].seen /\ w.pc = "write"
    BY <2>2 DEF Thread, SamePublication
  <2>4. SamePublication(r, thread[t]) /\ r.seen = {Ref} /\ r.pc = "stat"
    BY <2>2 DEF Thread, SamePublication
  <2> HIDE DEF w, r
  <2> QED
    BY <1>10, <2>1, <2>3, <2>4, GotoKeeps, GotoIdleKeeps DEF AfterWrite, AfterUpdate, LockPublication
<1>11. ASSUME NEW t \in Threads,
              \/ WriteFails(t) \/ ResolvePublicationFails(t) \/ Published(t)
       PROVE  Writers'
  <2>1. Goto(t, Idle)
    BY <1>11 DEF WriteFails, ResolvePublicationFails, Published, Answer
  <2> QED
    BY <2>1, GotoIdleKeeps
<1>12. ASSUME NEW t \in Threads, WriteCommit(t) PROVE Writers'
  <2>1. PICK time \in Times :
          LET made == CommitTree(thread[t].expected, thread[t].tables, thread[t].objects, time)
          IN commits' = made.all /\ Goto(t, [thread[t] EXCEPT !.pc = "update", !.commit = made.id])
    BY <1>12 DEF WriteCommit
  <2> DEFINE made == CommitTree(thread[t].expected, thread[t].tables, thread[t].objects, time)
             r == [thread[t] EXCEPT !.pc = "update", !.commit = made.id]
  <2>2. /\ thread[t].expected \in Refs /\ thread[t].tables \in Snapshots
        /\ thread[t].objects \in SUBSET Objects
    BY <1>0 DEF Thread, Writers, Writer
  <2>3. Makes(made, thread[t].expected, thread[t].tables, thread[t].objects, time)
    BY <1>0, <2>2, CommitTreeMakes
  <2>4. commits' = made.all /\ Goto(t, r)
    BY <2>1
  <2>5. thread[t] \in Thread
    BY <1>0
  <2> HIDE DEF made
  <2>6. /\ r.expected = thread[t].expected /\ r.commit = made.id /\ r.pc = "update"
        /\ r.moved = thread[t].moved /\ r.seen = thread[t].seen
        /\ r.tables = thread[t].tables /\ r.objects = thread[t].objects
    BY <2>5 DEF Thread
  <2> HIDE DEF r
  <2>7. thread'[t] = r /\ \A u \in Threads : u # t => thread'[u] = thread[u]
    BY <1>0, <2>4, GotoOthers
  <2>8. thread[t].moved # TRUE
    BY <1>12 DEF WriteCommit, IInv, Writers, Writer, AfterUpdate
  <2>9. /\ made.id \in DOMAIN commits' /\ commits'[made.id].parent = thread[t].expected
    BY <2>3, <2>4 DEF Makes
  <2>10. /\ thread[t].expected \in Refs' /\ made.id \in Refs'
         /\ thread[t].seen \subseteq Refs'
    BY <1>0, <2>9, CommitsKept DEF Writers, Writer, Refs
  <2>11. Listed(thread[t].tables, thread[t].objects)
    BY <1>0 DEF Writers, Writer
  <2>12. Writer(t)'
    BY <2>6, <2>7, <2>8, <2>9, <2>10, <2>11 DEF Writer, Listed, AfterWrite, AfterUpdate
  <2> QED
    BY <2>7, <2>12, OtherWriter DEF Writers
<1>13. ASSUME NEW t \in Threads, UpdateRef(t) \/ UpdateInterrupted(t) PROVE Writers'
  <2> DEFINE r == [thread[t] EXCEPT !.pc = "failed"]
  <2>1. \/ Goto(t, r)
        \/ \E pc \in AfterUpdate :
             /\ thread' = SeenBy([thread EXCEPT ![t].pc = pc, ![t].moved = TRUE],
                                 thread[t].commit)
             /\ Ref = thread[t].expected /\ loose' = MovedTo(thread[t].commit)
    BY <1>13 DEF UpdateRef, UpdateInterrupted, AfterUpdate
  <2>2. /\ thread[t].pc = "update"
        /\ UNCHANGED <<packed, cached, commits>>
    BY <1>13 DEF UpdateRef, UpdateInterrupted
  <2>3. CASE Goto(t, r)
    <3>1. thread[t] \in Thread
      BY <1>0
    <3>2. SamePublication(r, thread[t]) /\ r.seen = thread[t].seen /\ r.pc = "failed"
      BY <3>1 DEF Thread, SamePublication
    <3> HIDE DEF r
    <3> QED
      BY <2>2, <2>3, <3>2, GotoKeeps DEF AfterWrite, AfterUpdate
  <2>4. ASSUME NEW pc \in AfterUpdate,
               thread' = SeenBy([thread EXCEPT ![t].pc = pc, ![t].moved = TRUE],
                                thread[t].commit),
               Ref = thread[t].expected, loose' = MovedTo(thread[t].commit)
        PROVE  Writers'
    <3>1. Moves(thread[t].commit)
      BY <1>0, <2>2, <2>4 DEF Moves, Writers, Writer, AfterWrite
    <3>2. /\ thread'[t] = [thread[t] EXCEPT !.pc = pc, !.moved = TRUE]
          /\ \A u \in Threads : u # t =>
               thread'[u] = IF thread[u].pc \in HeadSteps
                              THEN [thread[u] EXCEPT !.seen = @ \cup {thread[t].commit}]
                              ELSE thread[u]
      BY <1>0, <2>4, MoveOthers
    <3> QED
      BY <2>2, <3>1, <3>2, MoveKeeps
  <2> QED
    BY <2>1, <2>3, <2>4
<1>14. ASSUME NEW t \in Threads, ResolveFailure(t) \/ ResolveFailureFails(t) PROVE Writers'
  <2> DEFINE r == [thread[t] EXCEPT !.pc = "resolve publication"]
  <2>1. Goto(t, Idle) \/ Goto(t, r)
    BY <1>14 DEF ResolveFailure, ResolveFailureFails, Answer
  <2>2. thread[t] \in Thread
    BY <1>0
  <2>3. SamePublication(r, thread[t]) /\ r.seen = thread[t].seen /\ r.pc = "resolve publication"
    BY <2>2 DEF Thread, SamePublication
  <2> HIDE DEF r
  <2> QED
    BY <1>14, <2>1, <2>3, GotoKeeps, GotoIdleKeeps
    DEF AfterWrite, AfterUpdate, ResolveFailure, ResolveFailureFails
<1>15. ASSUME NEW t \in Threads, ResolvePublication(t) PROVE Writers'
  <2> DEFINE r == [thread[t] EXCEPT !.pc = "published"]
  <2>1. /\ thread[t].pc = "resolve publication"
        /\ \/ Goto(t, Idle)
           \/ Goto(t, r) /\ Ref # 0 /\ Ref = thread[t].commit
        /\ UNCHANGED <<loose, packed>>
    <3>1. thread[t].pc = "resolve publication" /\ UNCHANGED <<loose, packed>>
      BY <1>15 DEF ResolvePublication
    <3>2. thread[t].commit # 0
      <4>1. thread[t].commit \in DOMAIN commits
        BY <1>0, <3>1 DEF Writers, Writer, AfterWrite, AfterUpdate
      <4> QED
        BY <1>0, <4>1
    <3>3. CASE Ref = 0
      <4>1. Answer(t, "unknown")
        BY <1>15, <3>2, <3>3 DEF ResolvePublication
      <4> QED
        BY <3>1, <4>1 DEF Answer
    <3>4. CASE Ref # 0 /\ Ref = thread[t].commit
      BY <1>15, <3>1, <3>4 DEF ResolvePublication
    <3>5. CASE Ref # 0 /\ Ref # thread[t].commit
      <4>1. Answer(t, "rejected")
        BY <1>15, <3>5 DEF ResolvePublication
      <4> QED
        BY <3>1, <4>1 DEF Answer
    <3> QED
      BY <3>3, <3>4, <3>5
  <2>2. thread[t] \in Thread
    BY <1>0
  <2>3. SamePublication(r, thread[t]) /\ r.seen = thread[t].seen /\ r.pc = "published"
    BY <2>2 DEF Thread, SamePublication
  <2>4. Ref' = Ref
    BY <2>1 DEF Ref
  <2>5. Ref # 0 => Ref \in History(Ref)'
    BY <2>4, HistoryStep
  <2> HIDE DEF r
  <2> QED
    BY <2>1, <2>3, <2>5, GotoKeeps, GotoIdleKeeps DEF AfterWrite, AfterUpdate
<1>16. CASE Crash
  <2>1. \A u \in Threads : thread'[u] = Idle
    BY <1>16 DEF Crash
  <2> QED
    BY <2>1, WriterIdle, CommitsKept DEF Writers
<1>17. CASE PublishElsewhere
  <2>1. PICK c : Moves(c) /\ thread' = SeenBy(thread, c)
    BY <1>17, ElsewhereMoves
  <2>3. Ref' = c
    BY <2>1, MovesRef
  <2>4. \A u \in Threads :
          thread'[u] = thread[u] \/ thread'[u] = [thread[u] EXCEPT !.seen = @ \cup {Ref'}]
    BY <2>1, <2>3 DEF SeenBy
  <2> QED
    BY <2>4, OtherWriter DEF Writers
<1>18. CASE JournalCommit \/ PackRefs \/ PruneLoose \/ UNCHANGED vars
  <2>1. \A u \in Threads : thread'[u] = thread[u]
    BY <1>18 DEF JournalCommit, PackRefs, PruneLoose, vars
  <2> QED
    BY <2>1, OtherWriter DEF Writers
<1> QED
  BY <1>1, <1>2, <1>3, <1>4, <1>5, <1>6, <1>7, <1>8, <1>9, <1>10, <1>11, <1>12, <1>13,
     <1>14, <1>15, <1>16, <1>17, <1>18 DEF Next, Start, Continue, Fail

-----------------------------------------------------------------------------
(* The files, the journal, the cache and the answers.                       *)

\* Only Head stores in the cache, and only a crash empties it.
LEMMA CacheWritten ==
  ASSUME [Next]_vars
  PROVE  cached' = cached \/ Crash \/ \E t \in Threads : HeadStore(t)
<1>1. ASSUME NEW t \in Threads,
             \/ Start(t) \/ Fail(t)
             \/ HeadStatLoose(t) \/ HeadStatPacked(t) \/ HeadResolve(t)
             \/ BuildNative(t) \/ LockPublication(t) \/ CheckHead(t) \/ WriteCommit(t)
             \/ UpdateRef(t) \/ ResolveFailure(t) \/ ResolvePublication(t) \/ Published(t)
      PROVE  cached' = cached
  BY <1>1 DEF Start, StartInit, StartNative, StartCheckpoint, Fail, HeadFails, WriteFails,
              UpdateInterrupted, ResolveFailureFails, ResolvePublicationFails, HeadStatLoose,
              HeadStatPacked, HeadResolve, BuildNative, LockPublication, CheckHead,
              WriteCommit, UpdateRef, ResolveFailure, ResolvePublication, Published
<1>2. ASSUME JournalCommit \/ PublishElsewhere \/ PackRefs \/ PruneLoose \/ UNCHANGED vars
      PROVE  cached' = cached
  BY <1>2 DEF JournalCommit, PublishElsewhere, PackRefs, PruneLoose, vars
<1> QED
  BY <1>1, <1>2 DEF Next, Continue

\* A step leaves the journal, clears it, or is the commit that appends to it.
LEMMA JournalWritten ==
  ASSUME [Next]_vars
  PROVE  journal' = journal \/ journal' = Nil \/ JournalCommit
<1>1. ASSUME NEW t \in Threads,
             \/ Start(t) \/ Fail(t)
             \/ HeadStatLoose(t) \/ HeadStatPacked(t) \/ HeadResolve(t) \/ HeadStore(t)
             \/ BuildNative(t) \/ LockPublication(t) \/ CheckHead(t) \/ WriteCommit(t)
             \/ UpdateRef(t) \/ ResolveFailure(t) \/ ResolvePublication(t) \/ Published(t)
      PROVE  journal' = journal \/ journal' = Nil
  BY <1>1 DEF Start, StartInit, StartNative, StartCheckpoint, Fail, HeadFails, WriteFails,
              UpdateInterrupted, ResolveFailureFails, ResolvePublicationFails, HeadStatLoose,
              HeadStatPacked, HeadResolve, HeadStore, BuildNative, LockPublication, CheckHead,
              WriteCommit, UpdateRef, ResolveFailure, ResolvePublication, Published
<1>2. ASSUME Crash \/ PublishElsewhere \/ PackRefs \/ PruneLoose \/ UNCHANGED vars
      PROVE  journal' = journal \/ journal' = Nil
  BY <1>2 DEF Crash, PublishElsewhere, PackRefs, PruneLoose, vars
<1> QED
  BY <1>1, <1>2 DEF Next, Continue

\* Every step keeps the references to commits within the commits that exist.
LEMMA RefersStep == IInv /\ [Next]_vars => Refers'
<1> SUFFICES ASSUME IInv, [Next]_vars PROVE Refers'
  OBVIOUS
<1>0. Refers /\ \A c \in Refs : c \in Refs'
  BY CommitsKept DEF IInv
<1>1. Ref' \in Refs'
  BY HistoryStep
<1>2. packed'.commit \in Refs'
  <2>1. CASE packed' = packed
    BY <1>0, <2>1 DEF Refers
  <2>2. CASE PackRefs
    <3>1. packed'.commit = Ref
      BY <2>2 DEF PackRefs, MovedTo, Ref
    <3> QED
      BY <1>0, <3>1 DEF Refers
  <2> QED
    BY <2>1, <2>2, FilesWritten DEF Moves, PruneLoose
<1>3. journal' # Nil => journal'.base \in Refs'
  <2>1. CASE journal' = journal \/ journal' = Nil
    BY <1>0, <2>1 DEF Refers
  <2>2. CASE JournalCommit
    <3>1. journal'.base = Ref
      BY <2>2 DEF JournalCommit
    <3> QED
      BY <1>0, <3>1 DEF Refers
  <2> QED
    BY <2>1, <2>2, JournalWritten
<1>4. cached' # Nil => cached'.head \in Refs'
  <2>1. CASE cached' = cached \/ Crash
    BY <1>0, <2>1 DEF Refers, Crash
  <2>2. ASSUME NEW t \in Threads, HeadStore(t) PROVE cached'.head \in Refs'
    <3>1. cached'.head = thread[t].value /\ thread[t].pc = "store"
      BY <2>2 DEF HeadStore
    <3>2. thread[t].value \in Refs
      BY <3>1 DEF IInv, HeadInv, Pinning, Writers, Writer
    <3> QED
      BY <1>0, <3>1, <3>2
  <2> QED
    BY <2>1, <2>2, CacheWritten
<1> QED
  BY <1>1, <1>2, <1>3, <1>4 DEF Refers

\* An answer "committed" is given only after the ref was found to have been
\* moved.
LEMMA AnswersTold ==
  ASSUME IInv, [Next]_vars
  PROVE  \/ answers' = answers
         \/ \E t \in Threads, outcome \in {"committed", "rejected", "unknown"} :
              /\ answers' = answers \cup {[commit |-> thread[t].commit, outcome |-> outcome,
                                           moved |-> thread[t].moved]}
              /\ outcome = "committed" => thread[t].pc = "published"
<1>1. ASSUME NEW t \in Threads,
             \/ Start(t) \/ HeadFails(t) \/ UpdateInterrupted(t) \/ ResolveFailureFails(t)
             \/ HeadStatLoose(t) \/ HeadStatPacked(t) \/ HeadResolve(t) \/ HeadStore(t)
             \/ BuildNative(t) \/ WriteCommit(t) \/ UpdateRef(t)
      PROVE  answers' = answers
  BY <1>1 DEF Start, StartInit, StartNative, StartCheckpoint, HeadFails,
              UpdateInterrupted, ResolveFailureFails, HeadStatLoose,
              HeadStatPacked, HeadResolve, HeadStore, BuildNative, WriteCommit, UpdateRef
<1>2. ASSUME NEW t \in Threads,
             \/ LockPublication(t) \/ CheckHead(t) \/ WriteFails(t) \/ ResolveFailure(t)
             \/ ResolvePublication(t) \/ ResolvePublicationFails(t)
      PROVE  answers' = answers \/ Answer(t, "rejected") \/ Answer(t, "unknown")
  BY <1>2 DEF LockPublication, CheckHead, WriteFails, ResolveFailure, ResolvePublication,
              ResolvePublicationFails
<1>3. ASSUME NEW t \in Threads, Published(t)
      PROVE  Answer(t, "committed") /\ thread[t].pc = "published"
  BY <1>3 DEF Published
<1>4. ASSUME Crash \/ JournalCommit \/ PublishElsewhere \/ PackRefs \/ PruneLoose \/ UNCHANGED vars
      PROVE  answers' = answers
  BY <1>4 DEF Crash, JournalCommit, PublishElsewhere, PackRefs, PruneLoose, vars
<1>5. \/ answers' = answers
      \/ \E t \in Threads : \/ Answer(t, "rejected") \/ Answer(t, "unknown")
                            \/ Answer(t, "committed") /\ thread[t].pc = "published"
  BY <1>1, <1>2, <1>3, <1>4 DEF Next, Continue, Fail
<1> QED
  BY <1>5 DEF Answer

\* Every step keeps the outcomes told to callers true of the reference's history.
LEMMA AnswersStep == IInv /\ [Next]_vars => Answers'
<1> SUFFICES ASSUME IInv, [Next]_vars, NEW a \in answers' PROVE Told(a)'
  BY DEF Answers
<1>0. /\ \A c \in Refs : c \in Refs'
      /\ History(Ref) \subseteq History(Ref)'
  BY CommitsKept, HistoryStep
<1>1. CASE a \in answers
  <2>1. Told(a)
    BY <1>1 DEF IInv, Answers
  <2> QED
    BY <1>0, <2>1 DEF Told
<1>2. CASE a \notin answers
  <2>1. PICK t \in Threads, outcome \in {"committed", "rejected", "unknown"} :
          /\ answers' = answers \cup {[commit |-> thread[t].commit, outcome |-> outcome,
                                       moved |-> thread[t].moved]}
          /\ outcome = "committed" => thread[t].pc = "published"
    BY <1>2, AnswersTold
  <2>2. a = [commit |-> thread[t].commit, outcome |-> outcome, moved |-> thread[t].moved]
    BY <1>2, <2>1
  <2>3. a.commit = thread[t].commit /\ a.outcome = outcome /\ a.moved = thread[t].moved
    BY <2>2
  <2>4. Writer(t)
    BY DEF IInv, Writers
  <2> QED
    BY <1>0, <2>1, <2>3, <2>4 DEF Told, Writer
<1> QED
  BY <1>1, <1>2

-----------------------------------------------------------------------------
(* Head.                                                                    *)

\* A reference file written now has a version neither file has had.
LEMMA NextVersionNewer ==
  ASSUME Shape
  PROVE  /\ NextVersion \in Nat /\ packed.version \in Nat /\ packed.version < NextVersion
         /\ loose # Nil => loose.version \in Nat /\ loose.version < NextVersion
  BY DEF Shape, NextVersion

\* A write of the ref makes the newest file; packing it a newer one with the same
\* commit; and only a loose file that has been packed is removed.
LEMMA FilesStep ==
  ASSUME IInv, [Next]_vars
  PROVE  Files' /\ NextVersion' \in Nat /\ NextVersion' >= NextVersion
<1>0. Shape /\ Shape' /\ Files /\ packed.commit \in Nat /\ Ref \in Nat
  BY ShapeStep DEF IInv, HeadInv, Shape, Refers, Refs
<1>1. CASE UNCHANGED <<loose, packed>>
  BY <1>0, <1>1, NextVersionNewer DEF Files, NextVersion
<1>2. ASSUME NEW c, Moves(c) PROVE Files' /\ NextVersion' \in Nat /\ NextVersion' >= NextVersion
  <2>1. /\ loose' # Nil /\ loose'.commit = c /\ loose'.version = NextVersion
        /\ NextVersion \in Nat /\ packed' = packed
    BY <1>2, MovesRef DEF Moves
  <2>2. c \in Nat /\ Ref < c
    <3>1. c \in DOMAIN commits' /\ commits'[c].parent = Ref
      BY <1>2 DEF Moves
    <3>2. c \in Nat
      BY <3>1, CommitsKept
    <3> QED
      BY <3>1, <3>2, GraphStep DEF Graph
  <2>3. packed.commit <= Ref
    BY <1>0 DEF Files, Ref, Shape
  <2>4. packed.version \in Nat /\ packed.version < NextVersion
    BY <1>0, NextVersionNewer
  <2>5. Files'
    BY <1>0, <2>1, <2>2, <2>3, <2>4 DEF Files
  <2> QED
    BY <2>1, <2>4, <2>5 DEF NextVersion
<1>3. CASE PackRefs
  <2>1. /\ loose # Nil /\ loose' = loose /\ packed'.version = NextVersion
        /\ packed'.commit = loose.commit
    BY <1>3 DEF PackRefs, MovedTo
  <2>2. loose.version \in Nat /\ loose.version < NextVersion /\ NextVersion \in Nat
    BY <1>0, <2>1, NextVersionNewer
  <2> QED
    BY <2>1, <2>2 DEF Files, NextVersion
<1>4. CASE PruneLoose
  <2>1. loose # Nil /\ loose' = Nil /\ packed' = packed /\ packed.commit = loose.commit
    BY <1>4 DEF PruneLoose
  <2>2. loose.version < packed.version /\ loose.version \in Nat /\ packed.version \in Nat
    BY <1>0, <2>1, NextVersionNewer DEF Files
  <2> QED
    BY <2>1, <2>2 DEF Files, NextVersion
<1> QED
  BY <1>1, <1>2, <1>3, <1>4, FilesWritten

\* A stamp that is current after a step was so before it, and the step was no
\* write of the ref.
LEMMA StampKept ==
  ASSUME IInv, [Next]_vars, NEW s \in Stamps \X Nat, Older(s)
  PROVE  /\ Older(s)'
         /\ StampCurrent(s)' => StampCurrent(s) /\ Ref' = Ref
<1>0. Shape /\ Files /\ NextVersion \in Nat /\ packed.commit \in Nat
  BY NextVersionNewer DEF IInv, HeadInv, Shape
<1>1. Older(s)'
  <2>1. NextVersion' \in Nat /\ NextVersion' >= NextVersion
    BY FilesStep
  <2> QED
    BY <1>0, <2>1 DEF Older, Stamps
<1>2. CASE UNCHANGED <<loose, packed>>
  BY <1>1, <1>2 DEF StampCurrent, Ref
<1>3. ASSUME NEW c, Moves(c) PROVE ~StampCurrent(s)'
  <2>1. loose' # Nil /\ loose'.version = NextVersion /\ packed' = packed
    BY <1>3, MovesRef DEF Moves
  <2>2. packed.version < NextVersion /\ packed.version \in Nat
    BY <1>0, NextVersionNewer
  <2>3. s[1] # NextVersion
    BY <1>0, PublicationAssumption DEF Older, Stamps
  <2> QED
    BY <1>0, <2>1, <2>2, <2>3 DEF StampCurrent
<1>4. CASE PackRefs
  <2>1. /\ loose # Nil /\ loose' = loose /\ packed'.version = NextVersion
        /\ packed'.commit = loose.commit
    BY <1>4 DEF PackRefs, MovedTo
  <2>2. s[2] # NextVersion
    BY <1>0 DEF Older
  <2> QED
    BY <1>1, <2>1, <2>2 DEF StampCurrent, Ref
<1>5. CASE PruneLoose
  <2>1. loose # Nil /\ loose' = Nil /\ packed' = packed /\ packed.commit = loose.commit
    BY <1>5 DEF PruneLoose
  <2>2. loose.version < packed.version
    BY <1>0, <2>1, NextVersionNewer DEF Files
  <2> QED
    BY <1>1, <2>1, <2>2 DEF StampCurrent, Ref
<1> QED
  BY <1>1, <1>2, <1>3, <1>4, <1>5, FilesWritten

\* What a step does to a thread inside Head: its own step, the start of a call,
\* the end of one, or nothing but to see the new value of the ref.
Watches(u) ==
  /\ thread'[u].pc = thread[u].pc /\ thread'[u].stamp = thread[u].stamp
  /\ thread'[u].value = thread[u].value
  /\ \/ thread'[u].seen = thread[u].seen /\ Ref' = Ref
     \/ thread'[u].seen = thread[u].seen \cup {Ref'}

Calls(u) == thread'[u].pc = "stat" /\ thread'[u].seen = {Ref} /\ Ref' = Ref

\* A reader of Head that a step leaves alone, the reference with it, keeps what it has seen.
LEMMA WatchesSame ==
  ASSUME NEW u \in Threads, thread'[u] = thread[u], Ref' = Ref
  PROVE  Watches(u)
  BY DEF Watches

\* A reader of Head that another thread moves the reference under has seen the new value.
LEMMA WatchesMove ==
  ASSUME Shape, NEW u \in Threads, thread[u].pc \in HeadSteps,
         thread'[u] = [thread[u] EXCEPT !.seen = @ \cup {Ref'}]
  PROVE  Watches(u)
<1>1. thread[u] \in Thread
  BY DEF Shape
<1> QED
  BY <1>1 DEF Watches, Thread

\* A thread inside Head after a step was left alone, has just called it, or took one of its
\* steps.
LEMMA HeadKinds ==
  ASSUME IInv, [Next]_vars, NEW u \in Threads, thread'[u].pc \in HeadSteps
  PROVE  \/ Watches(u) \/ Calls(u)
         \/ HeadStatLoose(u) \/ HeadStatPacked(u) \/ HeadResolve(u) \/ HeadStore(u)
<1>0. Shape /\ \A t \in Threads : thread[t] \in Thread
  BY DEF IInv, Shape
<1>1. ASSUME NEW t \in Threads,
             \/ StartInit(t) \/ StartCheckpoint(t) \/ BuildNative(t)
             \/ HeadFails(t) \/ CheckHead(t) \/ WriteCommit(t) \/ WriteFails(t)
             \/ ResolveFailure(t) \/ ResolveFailureFails(t)
             \/ ResolvePublication(t) \/ ResolvePublicationFails(t) \/ Published(t)
      PROVE  Watches(u)
  <2>1. Ref' = Ref
    BY <1>1 DEF Ref, StartInit, StartCheckpoint, BuildNative, HeadFails, CheckHead, WriteCommit,
                WriteFails, ResolveFailure, ResolveFailureFails, ResolvePublication,
                ResolvePublicationFails, Published
  <2>2. \E r : Goto(t, r) /\ r.pc \notin HeadSteps
    <3>1. Idle.pc \notin HeadSteps
      BY DEF Idle, HeadSteps
    <3>2. thread[t] \in Thread
      BY <1>0
    <3>3. CASE \/ WriteFails(t) \/ ResolvePublicationFails(t) \/ Published(t)
      BY <3>1, <3>3 DEF WriteFails, ResolvePublicationFails, Published, Answer
    <3>4. CASE StartInit(t)
      <4>1. [Idle EXCEPT !.pc = "lock", !.kind = "native"].pc \notin HeadSteps
        BY DEF Idle, HeadSteps
      <4> QED
        BY <3>4, <4>1 DEF StartInit
    <3>5. CASE StartCheckpoint(t) \/ BuildNative(t)
      <4>1. \A kind, base, tables, objects :
              [Idle EXCEPT !.pc = "lock", !.kind = kind, !.expected = base,
                           !.tables = tables, !.objects = objects].pc \notin HeadSteps
        BY DEF Idle, HeadSteps
      <4> QED
        BY <3>1, <3>5, <4>1 DEF StartCheckpoint, BuildNative
    <3>6. CASE HeadFails(t) \/ CheckHead(t)
      <4>1. [thread[t] EXCEPT !.pc = "write", !.seen = {}, !.value = Nil, !.stamp = Nil].pc
              \notin HeadSteps
        BY <3>2 DEF Thread, HeadSteps
      <4> QED
        BY <3>1, <3>6, <4>1 DEF HeadFails, CheckHead, Answer
    <3>7. CASE WriteCommit(t)
      <4>1. \A c : [thread[t] EXCEPT !.pc = "update", !.commit = c].pc \notin HeadSteps
        BY <3>2 DEF Thread, HeadSteps
      <4> QED
        BY <3>7, <4>1 DEF WriteCommit
    <3>8. CASE ResolveFailure(t) \/ ResolveFailureFails(t) \/ ResolvePublication(t)
      <4>1. /\ [thread[t] EXCEPT !.pc = "resolve publication"].pc \notin HeadSteps
            /\ [thread[t] EXCEPT !.pc = "published"].pc \notin HeadSteps
        BY <3>2 DEF Thread, HeadSteps
      <4> QED
        BY <3>1, <3>8, <4>1 DEF ResolveFailure, ResolveFailureFails, ResolvePublication, Answer
    <3> QED
      BY <1>1, <3>3, <3>4, <3>5, <3>6, <3>7, <3>8
  <2>3. thread'[u] = thread[u]
    BY <1>0, <2>2, GotoOthers
  <2> QED
    BY <2>1, <2>3, WatchesSame
<1>2. ASSUME NEW t \in Threads,
             HeadStatLoose(t) \/ HeadStatPacked(t) \/ HeadResolve(t) \/ HeadStore(t)
      PROVE  t = u \/ Watches(u)
  <2>1. Ref' = Ref
    BY <1>2 DEF Ref, HeadStatLoose, HeadStatPacked, HeadResolve, HeadStore
  <2>2. t # u => thread'[u] = thread[u]
    BY <1>0, <1>2, GotoOthers DEF HeadStatLoose, HeadStatPacked, HeadResolve, HeadStore
  <2> QED
    BY <2>1, <2>2, WatchesSame
<1>3. ASSUME NEW t \in Threads, StartNative(t) \/ LockPublication(t)
      PROVE  Watches(u) \/ Calls(u)
  <2>1. Ref' = Ref
    BY <1>3 DEF Ref, StartNative, LockPublication
  <2>2. \E r : /\ Goto(t, r)
               /\ r.pc \in HeadSteps => r.pc = "stat" /\ r.seen = {Ref}
    <3>1. Idle.pc \notin HeadSteps
      BY DEF Idle, HeadSteps
    <3>2. thread[t] \in Thread
      BY <1>0
    <3>3. CASE StartNative(t)
      <4> DEFINE r == [[Idle EXCEPT !.kind = "native"] EXCEPT
                         !.pc = "stat", !.for = "begin", !.seen = {Ref}]
      <4>1. r.pc = "stat" /\ r.seen = {Ref}
        BY DEF Idle
      <4>2. Goto(t, r)
        BY <3>3 DEF StartNative, CallHead
      <4> HIDE DEF r
      <4> QED
        BY <4>1, <4>2
    <3>4. CASE LockPublication(t)
      <4> DEFINE r == [thread[t] EXCEPT !.pc = "stat", !.for = "check", !.seen = {Ref}]
                 w == [thread[t] EXCEPT !.pc = "write"]
      <4>1. r.pc = "stat" /\ r.seen = {Ref} /\ w.pc \notin HeadSteps
        BY <3>2 DEF Thread, HeadSteps
      <4>2. Goto(t, Idle) \/ Goto(t, w) \/ Goto(t, r)
        BY <3>4 DEF LockPublication, Answer, CallHead
      <4> HIDE DEF r, w
      <4> QED
        BY <3>1, <4>1, <4>2
    <3> QED
      BY <1>3, <3>3, <3>4
  <2>3. PICK r : /\ Goto(t, r)
                 /\ r.pc \in HeadSteps => r.pc = "stat" /\ r.seen = {Ref}
    BY <2>2
  <2>4. /\ thread'[t] = r
        /\ \A w \in Threads : w # t => thread'[w] = thread[w]
    BY <1>0, <2>3, GotoOthers
  <2> QED
    BY <2>1, <2>3, <2>4, WatchesSame DEF Calls
<1>4. ASSUME NEW t \in Threads, UpdateRef(t) \/ UpdateInterrupted(t) PROVE Watches(u)
  <2> DEFINE r == [thread[t] EXCEPT !.pc = "failed"]
  <2>1. \/ Goto(t, r) /\ loose' = loose
        \/ \E pc \in AfterUpdate :
             /\ thread' = SeenBy([thread EXCEPT ![t].pc = pc, ![t].moved = TRUE],
                                 thread[t].commit)
             /\ Ref = thread[t].expected /\ loose' = MovedTo(thread[t].commit)
    BY <1>4 DEF UpdateRef, UpdateInterrupted, AfterUpdate
  <2>2. thread[t].pc = "update" /\ UNCHANGED <<packed, cached, commits>>
    BY <1>4 DEF UpdateRef, UpdateInterrupted
  <2>3. thread[t] \in Thread
    BY <1>0
  <2>4. CASE Goto(t, r) /\ loose' = loose
    <3>1. r.pc \notin HeadSteps
      BY <2>3 DEF Thread, HeadSteps
    <3>2. Ref' = Ref
      BY <2>2, <2>4 DEF Ref
    <3> HIDE DEF r
    <3>3. thread'[u] = thread[u]
      BY <1>0, <2>4, <3>1, GotoOthers
    <3> QED
      BY <3>2, <3>3, WatchesSame
  <2>5. ASSUME NEW pc \in AfterUpdate,
               thread' = SeenBy([thread EXCEPT ![t].pc = pc, ![t].moved = TRUE],
                                thread[t].commit),
               Ref = thread[t].expected, loose' = MovedTo(thread[t].commit)
        PROVE  Watches(u)
    <3>1. Moves(thread[t].commit)
      BY <2>2, <2>5 DEF Moves, IInv, Writers, Writer, AfterWrite
    <3>2. Ref' = thread[t].commit
      BY <3>1, MovesRef
    <3>3. /\ thread'[t] = [thread[t] EXCEPT !.pc = pc, !.moved = TRUE]
          /\ \A w \in Threads : w # t =>
               thread'[w] = IF thread[w].pc \in HeadSteps
                              THEN [thread[w] EXCEPT !.seen = @ \cup {thread[t].commit}]
                              ELSE thread[w]
      BY <1>0, <2>5, MoveOthers
    <3>4. [thread[t] EXCEPT !.pc = pc, !.moved = TRUE].pc = pc /\ pc \notin HeadSteps
      BY <2>3 DEF Thread, HeadSteps, AfterUpdate
    <3>5. u # t
      BY <3>3, <3>4
    <3>6. thread[u].pc \in HeadSteps
      BY <3>3, <3>5
    <3> QED
      BY <1>0, <3>2, <3>3, <3>5, <3>6, WatchesMove
  <2> QED
    BY <2>1, <2>4, <2>5
<1>5. ASSUME PublishElsewhere PROVE Watches(u)
  <2>1. PICK c : Moves(c) /\ thread' = SeenBy(thread, c)
    BY <1>5, ElsewhereMoves
  <2>2. Ref' = c
    BY <2>1, MovesRef
  <2>3. thread'[u] = IF thread[u].pc \in HeadSteps
                       THEN [thread[u] EXCEPT !.seen = @ \cup {c}] ELSE thread[u]
    BY <2>1 DEF SeenBy
  <2> QED
    BY <1>0, <2>2, <2>3, WatchesMove
<1>6. ASSUME JournalCommit \/ PackRefs \/ PruneLoose \/ UNCHANGED vars PROVE Watches(u)
  <2>1. thread' = thread /\ Ref' = Ref
    BY <1>6 DEF JournalCommit, PackRefs, PruneLoose, vars, Ref
  <2> QED
    BY <2>1, WatchesSame
<1>7. ASSUME Crash PROVE FALSE
  <2>1. thread'[u] = Idle
    BY <1>7 DEF Crash
  <2>2. Idle.pc \notin HeadSteps
    BY DEF Idle, HeadSteps
  <2> QED
    BY <2>1, <2>2
<1> QED
  BY <1>1, <1>2, <1>3, <1>4, <1>5, <1>6, <1>7 DEF Next, Start, Continue, Fail

\* What is right for the cache stays right.  A thread that has just looked at the
\* loose file and would find s in the cache finds a current stamp; one that had
\* looked before has seen more since.
LEMMA EntryKept ==
  ASSUME IInv, [Next]_vars, NEW v, NEW s \in Stamps \X Nat, CacheEntry(v, s)
  PROVE  CacheEntry(v, s)'
<1>0. Shape /\ Older(s) /\ (StampCurrent(s) => v = Ref)
  BY DEF CacheEntry, IInv
<1>1. Older(s)' /\ (StampCurrent(s)' => v = Ref')
  BY <1>0, StampKept
<1>2. ASSUME NEW u \in Threads, thread'[u].pc = "stat packed",
             s = <<thread'[u].stamp, packed'.version>>
      PROVE  v \in thread'[u].seen
  <2>0. thread[u] \in Thread
    BY <1>0 DEF Shape
  <2>1. packed'.version = packed.version
    <3>1. CASE packed' = packed
      BY <3>1
    <3>2. CASE PackRefs
      <4>1. packed'.version = NextVersion
        BY <3>2 DEF PackRefs, MovedTo
      <4>2. s[2] < NextVersion /\ NextVersion \in Nat
        BY <1>0, NextVersionNewer DEF Older
      <4>3. s[2] = packed'.version
        BY <1>2
      <4> QED
        BY <4>1, <4>2, <4>3
    <3> QED
      BY <3>1, <3>2, FilesWritten DEF Moves, PruneLoose
  <2>2. CASE Watches(u)
    <3>1. thread[u].pc = "stat packed" /\ s = <<thread[u].stamp, packed.version>>
      BY <1>2, <2>1, <2>2 DEF Watches
    <3>2. v \in thread[u].seen
      BY <3>1 DEF CacheEntry
    <3> QED
      BY <2>2, <3>2 DEF Watches
  <2>3. CASE HeadStatLoose(u)
    <3>1. /\ thread[u].pc = "stat"
          /\ thread'[u] = [thread[u] EXCEPT !.pc = "stat packed",
                             !.stamp = IF loose = Nil THEN Nil ELSE loose.version]
      BY <1>0, <2>3, GotoOthers DEF HeadStatLoose
    <3>2. /\ thread'[u].stamp = (IF loose = Nil THEN Nil ELSE loose.version)
          /\ thread'[u].seen = thread[u].seen
      BY <2>0, <3>1 DEF Thread
    <3>3. StampCurrent(s)
      BY <1>2, <2>1, <3>2 DEF StampCurrent
    <3>4. Ref \in thread[u].seen
      BY <3>1 DEF IInv, HeadInv, Pinning, HeadSteps
    <3> QED
      BY <1>0, <3>2, <3>3, <3>4
  <2>4. ~Calls(u) /\ ~HeadStatPacked(u) /\ ~HeadResolve(u) /\ ~HeadStore(u)
    <3>1. ASSUME HeadStatPacked(u) \/ HeadResolve(u) \/ HeadStore(u) PROVE FALSE
      <4>1. \E r : Goto(u, r) /\ r.pc # "stat packed"
        <5> DEFINE h == [thread[u] EXCEPT !.stamp = <<thread[u].stamp, packed.version>>,
                           !.pc = "return", !.value = cached.head]
                   m == [thread[u] EXCEPT !.stamp = <<thread[u].stamp, packed.version>>,
                           !.pc = "resolve", !.value = Nil]
                   r == [thread[u] EXCEPT !.pc = "store", !.value = Ref]
                   w == [thread[u] EXCEPT !.pc = "return"]
        <5>1. /\ h.pc # "stat packed" /\ m.pc # "stat packed"
              /\ r.pc # "stat packed" /\ w.pc # "stat packed"
          BY <2>0 DEF Thread
        <5>2. Goto(u, h) \/ Goto(u, m) \/ Goto(u, r) \/ Goto(u, w)
          BY <3>1 DEF HeadStatPacked, HeadResolve, HeadStore
        <5> HIDE DEF h, m, r, w
        <5> QED
          BY <5>1, <5>2
      <4> QED
        BY <1>0, <1>2, <4>1, GotoOthers
    <3> QED
      BY <1>2, <3>1 DEF Calls
  <2>5. thread'[u].pc \in HeadSteps
    BY <1>2 DEF HeadSteps
  <2> QED
    BY <2>2, <2>3, <2>4, <2>5, HeadKinds
<1> QED
  BY <1>1, <1>2 DEF CacheEntry

\* What Head resolves is right for the cache under the stamp it took before: it is
\* what the ref is now, which everyone inside Head has seen.
LEMMA ResolvedEntry ==
  ASSUME HeadInv, NEW s \in Stamps \X Nat, Older(s)
  PROVE  CacheEntry(Ref, s)
  BY DEF CacheEntry, HeadInv, Pinning, HeadSteps

\* A thread that only watches stays where it was, with more seen.
LEMMA PinningWatches ==
  ASSUME IInv, [Next]_vars, NEW u \in Threads, Watches(u)
  PROVE  Pinning(u)'
<1>0. Pinning(u) /\ NextVersion \in Nat /\ NextVersion' \in Nat /\ NextVersion' >= NextVersion
  BY FilesStep, NextVersionNewer DEF IInv, HeadInv
<1>1. /\ thread'[u].pc = thread[u].pc /\ thread'[u].stamp = thread[u].stamp
      /\ thread'[u].value = thread[u].value
      /\ thread[u].seen \subseteq thread'[u].seen
      /\ Ref \in thread[u].seen => Ref' \in thread'[u].seen
  BY DEF Watches
<1>2. thread[u].pc \in {"resolve", "store"} =>
        thread[u].stamp \in Stamps \X Nat /\ Older(thread[u].stamp)'
  <2>1. ASSUME thread[u].pc \in {"resolve", "store"}
        PROVE  thread[u].stamp \in Stamps \X Nat /\ Older(thread[u].stamp)
    BY <1>0, <2>1 DEF Pinning
  <2>2. ASSUME NEW s \in Stamps \X Nat, Older(s) PROVE Older(s)'
    BY <2>2, StampKept
  <2> QED
    BY <1>1, <2>1, <2>2 DEF Older
<1>3. thread[u].pc = "store" => CacheEntry(thread[u].value, thread[u].stamp)'
  <2> SUFFICES ASSUME thread[u].pc = "store"
               PROVE  CacheEntry(thread[u].value, thread[u].stamp)'
    OBVIOUS
  <2>0. PICK v : v = thread[u].value
    OBVIOUS
  <2>1. PICK s \in Stamps \X Nat : s = thread[u].stamp
    BY <1>0 DEF Pinning
  <2>2. CacheEntry(v, s)
    BY <1>0, <2>0, <2>1 DEF Pinning
  <2>3. CacheEntry(v, s)'
    BY <2>2, EntryKept
  <2>4. v = thread'[u].value /\ s = thread'[u].stamp
    BY <1>1, <2>0, <2>1
  <2> QED
    BY <2>3, <2>4 DEF CacheEntry
<1>4. thread[u].pc = "stat packed" =>
        thread[u].stamp \in Stamps /\ (thread[u].stamp # Nil => thread[u].stamp < NextVersion')
  <2>1. thread[u].pc = "stat packed" =>
          thread[u].stamp \in Stamps /\ (thread[u].stamp # Nil => thread[u].stamp < NextVersion)
    BY <1>0 DEF Pinning
  <2>2. \A s \in Stamps : s # Nil /\ s < NextVersion => s < NextVersion'
    BY <1>0 DEF Stamps
  <2> QED
    BY <2>1, <2>2
<1>5. /\ thread[u].pc \in HeadSteps => Ref \in thread[u].seen
      /\ thread[u].pc \in {"store", "return"} => thread[u].value \in thread[u].seen
  BY <1>0 DEF Pinning
<1> HIDE DEF HeadSteps
<1>6. /\ thread'[u].pc \in HeadSteps => Ref' \in thread'[u].seen
      /\ thread'[u].pc = "stat packed" =>
           thread'[u].stamp \in Stamps /\ (thread'[u].stamp # Nil => thread'[u].stamp < NextVersion')
      /\ thread'[u].pc \in {"store", "return"} => thread'[u].value \in thread'[u].seen
  BY <1>1, <1>4, <1>5
<1>7. /\ thread'[u].pc \in {"resolve", "store"} =>
           thread'[u].stamp \in Stamps \X Nat /\ Older(thread[u].stamp)'
      /\ thread'[u].pc = "store" => CacheEntry(thread[u].value, thread[u].stamp)'
  BY <1>1, <1>2, <1>3
<1> QED
  BY <1>6, <1>7 DEF Pinning

\* The steps of Head itself, one by one.
LEMMA PinningHead ==
  ASSUME IInv, [Next]_vars, NEW u \in Threads,
         HeadStatLoose(u) \/ HeadStatPacked(u) \/ HeadResolve(u) \/ HeadStore(u)
  PROVE  Pinning(u)'
<1>0. Shape /\ Pinning(u) /\ HeadInv
  BY DEF IInv, HeadInv
<1>1. thread[u] \in Thread
  BY <1>0 DEF Shape
<1>2. loose' = loose /\ packed' = packed
  BY DEF HeadStatLoose, HeadStatPacked, HeadResolve, HeadStore
<1>3. Ref' = Ref /\ NextVersion' = NextVersion
  BY <1>2 DEF Ref, NextVersion
<1>4. Ref \in thread[u].seen
  BY <1>0 DEF Pinning, HeadSteps, HeadStatLoose, HeadStatPacked, HeadResolve, HeadStore
<1>5. CASE HeadStatLoose(u)
  <2>1. thread'[u] = [thread[u] EXCEPT !.pc = "stat packed",
                        !.stamp = IF loose = Nil THEN Nil ELSE loose.version]
    BY <1>0, <1>5, GotoOthers DEF HeadStatLoose
  <2>2. /\ thread'[u].pc = "stat packed" /\ thread'[u].seen = thread[u].seen
        /\ thread'[u].stamp = IF loose = Nil THEN Nil ELSE loose.version
    BY <1>1, <2>1 DEF Thread
  <2>3. thread'[u].stamp \in Stamps /\ (thread'[u].stamp # Nil => thread'[u].stamp < NextVersion)
    BY <1>0, <2>2, NextVersionNewer DEF Stamps
  <2> QED
    BY <1>3, <1>4, <2>2, <2>3 DEF Pinning
<1>6. CASE HeadStatPacked(u)
  <2> DEFINE s == <<thread[u].stamp, packed.version>>
             h == [thread[u] EXCEPT !.stamp = s, !.pc = "return", !.value = cached.head]
             m == [thread[u] EXCEPT !.stamp = s, !.pc = "resolve", !.value = Nil]
  <2>1. /\ thread[u].pc = "stat packed"
        /\ (Goto(u, h) /\ cached # Nil /\ cached.stamp = s) \/ Goto(u, m)
    BY <1>6 DEF HeadStatPacked
  <2>2. s \in Stamps \X Nat /\ Older(s)
    BY <1>0, <2>1, NextVersionNewer DEF Pinning, Older
  <2>3. /\ h.pc = "return" /\ h.value = cached.head /\ h.seen = thread[u].seen
        /\ m.pc = "resolve" /\ m.stamp = s /\ m.seen = thread[u].seen
    BY <1>1 DEF Thread
  <2> HIDE DEF h, m
  <2>4. CASE Goto(u, h) /\ cached # Nil /\ cached.stamp = s
    <3>1. CacheEntry(cached.head, cached.stamp)
      BY <1>0, <2>4 DEF HeadInv
    <3>2. cached.head \in thread[u].seen
      BY <2>1, <2>4, <3>1 DEF CacheEntry
    <3>3. thread'[u] = h
      BY <1>0, <2>4, GotoOthers
    <3> QED
      BY <1>3, <1>4, <2>3, <3>2, <3>3 DEF Pinning
  <2>5. CASE Goto(u, m)
    <3>1. thread'[u] = m
      BY <1>0, <2>5, GotoOthers
    <3>2. thread'[u].pc = "resolve" /\ thread'[u].stamp = s /\ Ref' \in thread'[u].seen
      BY <1>3, <1>4, <2>3, <3>1
    <3>3. thread'[u].stamp \in Stamps \X Nat /\ Older(thread[u].stamp)'
      BY <1>3, <2>2, <3>2 DEF Older
    <3> QED
      BY <3>2, <3>3 DEF Pinning
  <2> QED
    BY <2>1, <2>4, <2>5
<1>7. CASE HeadResolve(u)
  <2>1. thread[u].pc = "resolve" /\ thread'[u] = [thread[u] EXCEPT !.pc = "store", !.value = Ref]
    BY <1>0, <1>7, GotoOthers DEF HeadResolve
  <2>2. /\ thread'[u].pc = "store" /\ thread'[u].seen = thread[u].seen
        /\ thread'[u].stamp = thread[u].stamp /\ thread'[u].value = Ref
    BY <1>1, <2>1 DEF Thread
  <2>3. PICK s \in Stamps \X Nat : s = thread[u].stamp /\ Older(s)
    BY <1>0, <2>1 DEF Pinning
  <2>4. CacheEntry(Ref, s)
    BY <1>0, <2>3, ResolvedEntry
  <2>5. PICK v : v = Ref
    OBVIOUS
  <2>6. CacheEntry(v, s)'
    BY <2>4, <2>5, EntryKept
  <2>7. v = thread'[u].value /\ s = thread'[u].stamp
    BY <2>2, <2>3, <2>5
  <2>8. CacheEntry(thread[u].value, thread[u].stamp)' /\ Older(thread[u].stamp)'
    BY <2>6, <2>7 DEF CacheEntry
  <2> QED
    BY <1>3, <1>4, <2>2, <2>3, <2>8 DEF Pinning
<1>8. CASE HeadStore(u)
  <2>1. thread[u].pc = "store" /\ thread'[u] = [thread[u] EXCEPT !.pc = "return"]
    BY <1>0, <1>8, GotoOthers DEF HeadStore
  <2>2. /\ thread'[u].pc = "return" /\ thread'[u].seen = thread[u].seen
        /\ thread'[u].value = thread[u].value
    BY <1>1, <2>1 DEF Thread
  <2>3. thread[u].value \in thread[u].seen
    BY <1>0, <2>1 DEF Pinning
  <2> QED
    BY <1>3, <1>4, <2>2, <2>3 DEF Pinning
<1> QED
  BY <1>5, <1>6, <1>7, <1>8

\* What the cache holds, and what Head returns, stays right.
LEMMA HeadStep == IInv /\ [Next]_vars => HeadInv'
<1> SUFFICES ASSUME IInv, [Next]_vars PROVE HeadInv'
  OBVIOUS
<1>1. Files'
  BY FilesStep
<1>2. ASSUME cached' # Nil PROVE CacheEntry(cached.head, cached.stamp)'
  <2>1. \E v : \E s \in Stamps \X Nat :
          CacheEntry(v, s) /\ cached'.head = v /\ cached'.stamp = s
    <3>1. CASE cached' = cached
      BY <1>2, <3>1 DEF IInv, Shape, HeadInv
    <3>2. CASE Crash
      BY <1>2, <3>2 DEF Crash
    <3>3. ASSUME NEW t \in Threads, HeadStore(t)
          PROVE  \E v : \E s \in Stamps \X Nat :
                   CacheEntry(v, s) /\ cached'.head = v /\ cached'.stamp = s
      <4>1. /\ thread[t].pc = "store"
            /\ cached'.head = thread[t].value /\ cached'.stamp = thread[t].stamp
        BY <3>3 DEF HeadStore
      <4>2. thread[t].stamp \in Stamps \X Nat /\ CacheEntry(thread[t].value, thread[t].stamp)
        BY <4>1 DEF IInv, HeadInv, Pinning
      <4> QED
        BY <4>1, <4>2
    <3> QED
      BY <3>1, <3>2, <3>3, CacheWritten
  <2>2. PICK v : \E s \in Stamps \X Nat :
          CacheEntry(v, s) /\ cached'.head = v /\ cached'.stamp = s
    BY <2>1
  <2>3. PICK s \in Stamps \X Nat : CacheEntry(v, s) /\ cached'.head = v /\ cached'.stamp = s
    BY <2>2
  <2>4. CacheEntry(v, s)'
    BY <2>3, EntryKept
  <2> QED
    BY <2>3, <2>4 DEF CacheEntry
<1>3. ASSUME NEW u \in Threads PROVE Pinning(u)'
  <2>1. CASE thread'[u].pc \notin HeadSteps
    BY <2>1 DEF Pinning, HeadSteps
  <2>2. CASE Calls(u)
    BY <2>2 DEF Calls, Pinning
  <2> QED
    BY <2>1, <2>2, HeadKinds, PinningWatches, PinningHead
<1> QED
  BY <1>1, <1>2, <1>3 DEF HeadInv

-----------------------------------------------------------------------------
(* The invariant holds, and what follows from it.                           *)

\* The inductive invariant holds of a repository without data.
LEMMA InitIInv == Init => IInv
<1> SUFFICES ASSUME Init PROVE IInv
  OBVIOUS
<1>0. /\ loose = Nil /\ packed = [version |-> 0, commit |-> 0] /\ commits = <<>>
      /\ lock = Nil /\ journal = Nil /\ cached = Nil /\ validated = {} /\ answers = {}
      /\ thread = [t \in Threads |-> Idle]
  BY DEF Init
<1>1. Len(commits) = 0 /\ DOMAIN commits = {} /\ commits \in Seq(Commit)
  BY <1>0
<1>2. Ref = 0 /\ Refs = {0}
  BY <1>0, <1>1 DEF Ref, Refs
<1>3. Shape
  <2>1. thread \in [Threads -> Thread]
    BY <1>0, IdleType
  <2>2. packed \in [version : Nat, commit : Nat]
    BY <1>0
  <2> QED
    BY <1>0, <1>1, <2>1, <2>2 DEF Shape
<1>4. Refers
  BY <1>0, <1>2 DEF Refers
<1>5. Graph
  BY <1>1 DEF Graph
<1>6. ASSUME NEW t \in Threads PROVE Writer(t) /\ Pinning(t)
  <2>1. thread[t] = Idle
    BY <1>0
  <2>2. /\ Idle.pc = "idle" /\ Idle.expected = 0 /\ Idle.commit = 0 /\ Idle.seen = {}
        /\ Idle.tables = NoTables /\ Idle.moved = FALSE
    BY DEF Idle
  <2>3. Listed(NoTables, Idle.objects)
    BY DEF Listed, NoTables
  <2>4. Writer(t)
    BY <1>2, <2>1, <2>2, <2>3 DEF Writer, AfterWrite, AfterUpdate
  <2>5. Pinning(t)
    BY <2>1, <2>2 DEF Pinning, HeadSteps
  <2> QED
    BY <2>4, <2>5
<1>7. Answers
  BY <1>0 DEF Answers
<1>8. Files
  BY <1>0 DEF Files
<1> QED
  BY <1>0, <1>3, <1>4, <1>5, <1>6, <1>7, <1>8 DEF IInv, Writers, HeadInv

\* Every step keeps the inductive invariant: its parts, one by one.
LEMMA IInvStep == IInv /\ [Next]_vars => IInv'
  BY ShapeStep, RefersStep, GraphStep, WritersStep, AnswersStep, HeadStep DEF IInv

\* So it holds in every reachable state.
LEMMA SpecIInv == Spec => []IInv
  BY InitIInv, IInvStep, PTL DEF Spec

\* The invariant gives the types.
LEMMA IInvTypes == IInv => TypeOK
<1> SUFFICES ASSUME IInv PROVE TypeOK
  OBVIOUS
<1>0. Shape /\ Refers /\ Graph /\ Writers /\ Answers
  BY DEF IInv
<1>1. loose = Nil \/ loose \in [version : Nat, commit : Refs]
  <2>1. CASE loose # Nil
    <3>1. loose \in [version : Nat, commit : Nat] /\ loose.commit \in Refs
      BY <1>0, <2>1 DEF Shape, Refers, Ref
    <3> QED
      BY <3>1
  <2> QED
    BY <2>1
<1>2. packed \in [version : Nat, commit : Refs]
  <2>1. packed \in [version : Nat, commit : Nat] /\ packed.commit \in Refs
    BY <1>0 DEF Shape, Refers
  <2> QED
    BY <2>1
<1>3. journal = Nil \/ journal \in [table : Tables, version : Versions, base : Refs]
  <2>1. CASE journal # Nil
    <3>1. /\ journal \in [table : Tables, version : Versions, base : Nat]
          /\ journal.base \in Refs
      BY <1>0, <2>1 DEF Shape, Refers
    <3> QED
      BY <3>1
  <2> QED
    BY <2>1
<1>4. ASSUME NEW n \in DOMAIN commits
      PROVE  /\ commits[n].parent \in 0..(n - 1)
             /\ commits[n].anc \subseteq 1..Len(commits)
             /\ commits[n].tables \in [Tables -> Versions \cup {Nil}]
  <2>1. commits \in Seq(Commit) /\ n \in 1..Len(commits) /\ Len(commits) \in Nat
    BY <1>0 DEF Shape
  <2>2. commits[n] \in Commit
    BY <2>1
  <2>3. commits[n].parent \in Nat /\ commits[n].tables \in [Tables -> Versions \cup {Nil}]
    BY <2>2 DEF Commit, Snapshots
  <2>4. commits[n].parent < n /\ commits[n].anc \subseteq 1..n
    BY <1>0 DEF Graph
  <2> QED
    BY <2>1, <2>3, <2>4
<1>5. \A t \in Threads : thread[t].expected \in Refs /\ thread[t].commit \in Refs
  BY <1>0 DEF Writers, Writer
<1>6. \A a \in answers : a.commit \in Refs /\ a.outcome \in {"committed", "rejected", "unknown"}
  BY <1>0 DEF Answers, Told, Shape
<1> QED
  BY <1>0, <1>1, <1>2, <1>3, <1>4, <1>5, <1>6 DEF TypeOK, Shape, Refers

\* The types of the ref's files, the caches, the commits and the threads' local
\* variables, for any number of threads, tables, versions, faults and publications.
THEOREM PublicationTypeCorrect == Spec => []TypeOK
  BY SpecIInv, IInvTypes, PTL

\* Repository.Head: the value that it returns was the ref's at some time since it was
\* called, however the steps of other threads, other processes and git pack-refs fall
\* between its two stats, its look into the cache and its resolution.
THEOREM HeadFreshHolds == Spec => []HeadFresh
<1>1. IInv => HeadFresh
  BY DEF IInv, HeadInv, Pinning, HeadFresh
<1> QED
  BY <1>1, SpecIInv, PTL

\* CommitWithOutcomeMessage answers "committed" only of commits that are in the data
\* history, and they stay there.
THEOREM CommittedIsPublishedHolds == Spec => []CommittedIsPublished
<1>1. IInv => CommittedIsPublished
  BY DEF IInv, Answers, Told, CommittedIsPublished
<1> QED
  BY <1>1, SpecIInv, PTL

\* RecoverCommit finds every commit that moved the ref, whatever its writer was
\* told.
THEOREM RecoveryFindsHolds == Spec => []RecoveryFinds
<1>1. ASSUME IInv, NEW a \in answers, a.moved PROVE RecoverCommit(a.commit) = "committed"
  <2>1. a.moved = TRUE
    BY <1>1 DEF IInv, Shape
  <2>2. a.commit \in History(Ref)
    BY <1>1, <2>1 DEF IInv, Answers, Told
  <2>3. Ref # 0
    BY <2>2 DEF History
  <2> QED
    BY <2>2, <2>3 DEF RecoverCommit
<1>2. IInv => RecoveryFinds
  BY <1>1 DEF RecoveryFinds
<1> QED
  BY <1>2, SpecIInv, PTL

\* Every published snapshot lists the data objects of all its tables, whether its
\* writer changed them, found them in the validation cache, or walked them.
THEOREM DataCompleteHolds == Spec => []DataComplete
<1>1. ASSUME IInv, NEW c \in History(Ref), NEW t \in Tables, TablesAt(c)[t] # Nil
      PROVE  DataObject(t, TablesAt(c)[t]) \in Inventory(c)
  <2>1. Ref \in Refs /\ Ref # 0 /\ c \in commits[Ref].anc /\ commits \in Seq(Commit)
    BY <1>1 DEF History, IInv, Refers, Shape
  <2>2. Ref \in DOMAIN commits /\ DOMAIN commits = 1..Len(commits) /\ Len(commits) \in Nat
    BY <2>1 DEF Refs
  <2>3. c \in 1..Ref
    BY <1>1, <2>1, <2>2 DEF IInv, Graph
  <2>4. c \in DOMAIN commits /\ c # 0
    BY <2>2, <2>3
  <2> QED
    BY <1>1, <2>4 DEF IInv, Graph, Listed, TablesAt, Inventory
<1>2. IInv => DataComplete
  BY <1>1 DEF DataComplete
<1> QED
  BY <1>2, SpecIInv, PTL

\* No publication drops another one: git update-ref compares with the head that the
\* commit was built on, so that the ref only ever moves to a descendant.
THEOREM NothingOverwrittenHolds == Spec => NothingOverwritten
<1>1. IInv /\ [Next]_vars => [History(Ref) \subseteq History(Ref)']_vars
  BY HistoryStep
<1> QED
  BY <1>1, SpecIInv, PTL DEF Spec, NothingOverwritten

\* What RecoverCommit says of a candidate, once its publication has ended and it can
\* say something, only a writer that makes the same commit the head can change.
THEOREM RecoverySettlesHolds == Spec => RecoverySettles
<1>1. ASSUME IInv, [Next]_vars, NEW a \in answers
      PROVE  \/ RecoverCommit(a.commit) \in {"unknown", RecoverCommit(a.commit)'}
             \/ Ref' = a.commit
  <2>1. CASE Ref = 0
    BY <2>1 DEF RecoverCommit
  <2>2. CASE Ref # 0 /\ Ref' # a.commit
    <3>1. a.commit \in History(Ref) <=> a.commit \in History(Ref)'
      BY <1>1, <2>2, HistoryStep
    <3>2. Ref' # 0
      <4>1. Ref \in History(Ref)'
        <5>1. Ref \in DOMAIN commits
          BY <1>1, <2>2 DEF IInv, Shape, Refers, Refs
        <5>2. Ref \in History(Ref)
          BY <1>1, <2>2, <5>1 DEF IInv, Graph, History
        <5> QED
          BY <1>1, <5>2, HistoryStep
      <4> QED
        BY <4>1 DEF History
    <3> QED
      BY <2>2, <3>1, <3>2 DEF RecoverCommit
  <2> QED
    BY <2>1, <2>2
<1>2. IInv /\ [Next]_vars =>
        [\A a \in answers :
           \/ RecoverCommit(a.commit) \in {"unknown", RecoverCommit(a.commit)'}
           \/ Ref' = a.commit]_vars
  BY <1>1
<1> QED
  BY <1>2, SpecIInv, PTL DEF Spec, RecoverySettles

=============================================================================
