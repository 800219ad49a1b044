---------------------------- MODULE Publication ----------------------------
(***************************************************************************)
(* Publication of data commits (common/repository/repository.go,            *)
(* refstamp.go) by the threads of one process, next to other processes and  *)
(* to plain Git: pinning a head through the head cache, the inventories     *)
(* that native-Git commits and checkpoints retain (engine/catalog.go,       *)
(* engine.go), the compare-and-swap of refs/repodb/data, its outcomes, and  *)
(* their recovery.                                                          *)
(*                                                                         *)
(* A step is one Git command, one stat, or one section under a mutex.       *)
(* working.lock and publish.lock are taken in this order by everyone, so    *)
(* that they are one lock here.  A commit's ID is its content: a commit     *)
(* made twice is one commit.  A table's version has a data object and an    *)
(* index object; its schema is part of the former.                          *)
(***************************************************************************)
EXTENDS Naturals, Sequences, FiniteSets

CONSTANTS
  Threads,   \* sessions and checkpoints of the process
  Tables,
  Versions,  \* what a table's content can be
  Nil,
  Kinds,     \* what threads publish: "native", "checkpoint"
  Faults,    \* "git", "interrupt", "resolve", "crash"
  MaxOps,    \* bound on publications attempted, elsewhere included
  MaxFaults, \* bound on faults; an outage of Git may make several commands fail
  Times      \* the seconds in which commits can be made

ASSUME PublicationAssumption ==
  /\ Kinds \subseteq {"native", "checkpoint"}
  /\ MaxOps \in Nat /\ MaxFaults \in Nat
  /\ Nil \notin Threads \cup Versions \cup Nat
  /\ Nil \notin [version : Nat, commit : Nat]

VARIABLES
  loose,      \* the loose ref file: version of the file and its commit, or Nil
  packed,     \* the packed-refs file, likewise; its commit may be 0
  commits,    \* the commit objects
  lock,       \* the thread that holds the publication locks, or Nil
  journal,    \* the table and version the journal holds unpublished, with the
              \* commit it is based on, or Nil
  cached,     \* Repository.head and headStamp, or Nil
  validated,  \* processValidation: the table versions found valid
  thread,     \* what each thread is at
  answers,    \* auxiliary: the outcomes told, each with what really happened
  ops, faults

vars == <<loose, packed, commits, lock, journal, cached, validated, thread,
          answers, ops, faults>>

-----------------------------------------------------------------------------
(* Commits and the ref's storage.                                           *)

\* refs/repodb/data: the loose file hides the packed one; 0 when missing.
Ref == IF loose # Nil THEN loose.commit ELSE packed.commit

\* The commit and its ancestors.
History(c) == IF c = 0 THEN {} ELSE commits[c].anc

NoTables == [t \in Tables |-> Nil]
TablesAt(c) == IF c = 0 THEN NoTables ELSE commits[c].tables
Inventory(c) == IF c = 0 THEN {} ELSE commits[c].objects

DataObject(t, v) == <<t, v, "data">>
IndexObject(t, v) == <<t, v, "index">>
TableObjects(t, v) == IF v = Nil THEN {} ELSE {DataObject(t, v), IndexObject(t, v)}

\* git commit-tree: the number of the commit with this content, which may be
\* a new one.
CommitTree(parent, tables, objects, time) ==
  LET content(n) == [parent |-> parent, tables |-> tables, objects |-> objects,
                     time |-> time, anc |-> History(parent) \cup {n}]
      same == {n \in DOMAIN commits : commits[n] = content(n)}
  IN IF same = {} THEN [id |-> Len(commits) + 1, all |-> Append(commits, content(Len(commits) + 1))]
                  ELSE [id |-> CHOOSE n \in same : TRUE, all |-> commits]

\* The ref's files, as Git replaces them: every write makes a new version.
NextVersion == 1 + (IF loose # Nil /\ loose.version > packed.version
                      THEN loose.version ELSE packed.version)
MovedTo(c) == [version |-> NextVersion, commit |-> c]

-----------------------------------------------------------------------------
(* Threads.                                                                 *)

HeadSteps == {"stat", "stat packed", "resolve", "store", "return"}

Idle == [pc |-> "idle", kind |-> Nil, for |-> Nil, stamp |-> Nil, value |-> Nil,
         seen |-> {}, expected |-> 0, tables |-> NoTables, objects |-> {}, commit |-> 0,
         moved |-> FALSE]

\* Every thread inside Head sees that the ref has now been c.
SeenBy(threads, c) ==
  [u \in Threads |-> IF threads[u].pc \in HeadSteps
                       THEN [threads[u] EXCEPT !.seen = @ \cup {c}] ELSE threads[u]]

\* Thread t goes on to a step; the ref stays.
Goto(t, record) == thread' = [thread EXCEPT ![t] = record]

\* Seeded fault: a conflict is answered without releasing the locks.
AnswerKeepsLock(t, outcome) ==
  /\ answers' = answers \cup {[commit |-> thread[t].commit, outcome |-> outcome,
                               moved |-> thread[t].moved]}
  /\ Goto(t, Idle)
  /\ lock' = IF outcome = "rejected" THEN lock ELSE Nil

\* A publication ends: its outcome is told and the locks are released.
Answer(t, outcome) ==
  /\ answers' = answers \cup {[commit |-> thread[t].commit, outcome |-> outcome,
                               moved |-> thread[t].moved]}
  /\ Goto(t, Idle)
  /\ lock' = IF lock = t THEN Nil ELSE lock

Fault(f) == f \in Faults /\ faults < MaxFaults /\ faults' = faults + 1

-----------------------------------------------------------------------------
(* Head and its cache (refstamp.go): the files are stamped before the ref   *)
(* is resolved.                                                             *)

CallHead(t, record, for) ==
  Goto(t, [record EXCEPT !.pc = "stat", !.for = for, !.seen = {Ref}])

HeadStatLoose(t) ==
  /\ thread[t].pc = "stat"
  /\ Goto(t, [thread[t] EXCEPT !.pc = "stat packed",
                !.stamp = IF loose = Nil THEN Nil ELSE loose.version])
  /\ UNCHANGED <<loose, packed, commits, lock, journal, cached, validated, answers, ops, faults>>

HeadStatPacked(t) ==
  /\ thread[t].pc = "stat packed"
  /\ LET stamp == <<thread[t].stamp, packed.version>>
         hit == cached # Nil /\ cached.stamp = stamp
     IN Goto(t, [thread[t] EXCEPT !.stamp = stamp,
                   !.pc = IF hit THEN "return" ELSE "resolve",
                   !.value = IF hit THEN cached.head ELSE Nil])
  /\ UNCHANGED <<loose, packed, commits, lock, journal, cached, validated, answers, ops, faults>>

HeadResolve(t) ==
  /\ thread[t].pc = "resolve"
  /\ Goto(t, [thread[t] EXCEPT !.pc = "store", !.value = Ref])
  /\ UNCHANGED <<loose, packed, commits, lock, journal, cached, validated, answers, ops, faults>>

\* Seeded fault: the files are stamped after the ref is resolved.
HeadStoreStampsLate(t) ==
  /\ thread[t].pc = "store"
  /\ cached' = [head |-> thread[t].value,
                stamp |-> <<IF loose = Nil THEN Nil ELSE loose.version, packed.version>>]
  /\ Goto(t, [thread[t] EXCEPT !.pc = "return"])
  /\ UNCHANGED <<loose, packed, commits, lock, journal, validated, answers, ops, faults>>

HeadStore(t) ==
  /\ thread[t].pc = "store"
  /\ cached' = [head |-> thread[t].value, stamp |-> thread[t].stamp]
  /\ Goto(t, [thread[t] EXCEPT !.pc = "return"])
  /\ UNCHANGED <<loose, packed, commits, lock, journal, validated, answers, ops, faults>>

\* The resolution fails: a session gets no snapshot, a publication leaves the
\* decision to the compare-and-swap.
HeadFails(t) ==
  /\ thread[t].pc = "resolve"
  /\ Fault("resolve")
  /\ Goto(t, IF thread[t].for = "begin" THEN Idle
             ELSE [thread[t] EXCEPT !.pc = "write", !.seen = {}, !.value = Nil, !.stamp = Nil])
  /\ UNCHANGED <<loose, packed, commits, lock, journal, cached, validated, answers, ops>>

-----------------------------------------------------------------------------
(* What a writer publishes.                                                 *)

\* validateTable: a version validated before counts only for a commit that
\* provides its objects; otherwise its trees are walked.
Vouched(c, t) ==
  <<t, TablesAt(c)[t]>> \in validated /\ TableObjects(t, TablesAt(c)[t]) \subseteq Inventory(c)

Valid(c) == \A t \in Tables : TableObjects(t, TablesAt(c)[t]) \subseteq Inventory(c)

\* Seeded fault: tables that are not there are remembered as valid.
ValidatedAll(tables) == validated \cup {<<t, tables[t]>> : t \in Tables}

Validated(tables) == validated \cup {<<t, tables[t]>> : t \in {u \in Tables : tables[u] # Nil}}

\* commitNativeGit: a table that the transaction did not change keeps its
\* objects, taken from the validation cache or found by a walk of its trees.
NativeObjects(c, changed, v) ==
  UNION {TableObjects(t, IF t = changed THEN v ELSE TablesAt(c)[t]) : t \in Tables}

\* Seeded fault: unchanged tables are retained only when they are cached.
CheckpointObjectsCachedOnly(c, changed, v) ==
  UNION {IF t = changed THEN TableObjects(t, v)
         ELSE IF Vouched(c, t) THEN TableObjects(t, TablesAt(c)[t]) ELSE {} : t \in Tables}

\* checkpointTypedEdits: the same, but the walk leaves the index trees out.
CheckpointObjects(c, changed, v) ==
  UNION {IF t = changed THEN TableObjects(t, v)
         ELSE IF Vouched(c, t) THEN TableObjects(t, TablesAt(c)[t])
         ELSE TableObjects(t, TablesAt(c)[t]) \ {IndexObject(t, TablesAt(c)[t])} : t \in Tables}

\* Init on a repository without the ref: an empty catalog, expecting no head.
StartInit(t) ==
  /\ thread[t].pc = "idle" /\ ops < MaxOps
  /\ Ref = 0
  /\ Goto(t, [Idle EXCEPT !.pc = "lock", !.kind = "native"])
  /\ ops' = ops + 1
  /\ UNCHANGED <<loose, packed, commits, lock, journal, cached, validated, answers, faults>>

\* A native-Git session: resolveSnapshot asks for the head first.
StartNative(t) ==
  /\ thread[t].pc = "idle" /\ ops < MaxOps /\ "native" \in Kinds
  /\ CallHead(t, [Idle EXCEPT !.kind = "native"], "begin")
  /\ ops' = ops + 1
  /\ UNCHANGED <<loose, packed, commits, lock, journal, cached, validated, answers, faults>>

\* The session pins the head, validates it, changes a table and commits:
\* the writer's inventory is complete before the locks are asked for.
BuildNative(t) ==
  /\ thread[t].pc = "return" /\ thread[t].for = "begin"
  /\ LET base == thread[t].value
     IN IF base = 0 \/ ~Valid(base)
          THEN Goto(t, Idle) /\ UNCHANGED validated
          ELSE \E table \in Tables, v \in Versions :
                 /\ TablesAt(base)[table] # v
                 /\ validated' = Validated(TablesAt(base))
                 /\ Goto(t, [Idle EXCEPT !.pc = "lock", !.kind = "native", !.expected = base,
                               !.tables = [TablesAt(base) EXCEPT ![table] = v],
                               !.objects = NativeObjects(base, table, v)])
  /\ UNCHANGED <<loose, packed, commits, lock, journal, cached, answers, ops, faults>>

\* Engine.Checkpoint: the working state is read, and the trees are built on the
\* commit the journal is based on, without the locks.  A journal whose base is no
\* longer the head cannot be read (reconcileHead).
StartCheckpoint(t) ==
  /\ thread[t].pc = "idle" /\ ops < MaxOps /\ "checkpoint" \in Kinds
  /\ journal # Nil /\ journal.base = Ref
  /\ Goto(t, [Idle EXCEPT !.pc = "lock", !.kind = "checkpoint", !.expected = Ref,
                !.tables = [TablesAt(Ref) EXCEPT ![journal.table] = journal.version],
                !.objects = CheckpointObjects(Ref, journal.table, journal.version)])
  /\ ops' = ops + 1
  /\ UNCHANGED <<loose, packed, commits, lock, journal, cached, validated, answers, faults>>

-----------------------------------------------------------------------------
(* Writer.CommitWithOutcomeMessage.                                         *)

\* The locks, and what is looked at first under them: a native-Git commit
\* refuses a dirty journal, a checkpoint has nothing to do on a clean one and
\* cannot read one whose base is no longer the head.
LockPublication(t) ==
  /\ thread[t].pc = "lock" /\ lock = Nil
  /\ IF journal # Nil /\ (thread[t].kind = "native" \/ journal.base # Ref)
       THEN Answer(t, "rejected")
     ELSE IF thread[t].kind = "checkpoint" /\ journal = Nil
       THEN Goto(t, Idle) /\ UNCHANGED <<lock, answers>>
     ELSE /\ lock' = t /\ UNCHANGED answers
          /\ IF thread[t].expected # 0 THEN CallHead(t, thread[t], "check")
                                       ELSE Goto(t, [thread[t] EXCEPT !.pc = "write"])
  /\ UNCHANGED <<loose, packed, commits, journal, cached, validated, ops, faults>>

\* A head that has moved on rejects the writer before it writes anything.
CheckHead(t) ==
  /\ thread[t].pc = "return" /\ thread[t].for = "check"
  /\ IF thread[t].value # thread[t].expected
       THEN Answer(t, "rejected")
       ELSE /\ Goto(t, [thread[t] EXCEPT !.pc = "write", !.seen = {}, !.value = Nil, !.stamp = Nil])
            /\ UNCHANGED <<lock, answers>>
  /\ UNCHANGED <<loose, packed, commits, journal, cached, validated, ops, faults>>

\* Objects, tree and commit are written; the ref is untouched.
WriteCommit(t) ==
  /\ thread[t].pc = "write"
  /\ \E time \in Times :
     LET made == CommitTree(thread[t].expected, thread[t].tables, thread[t].objects, time)
     IN commits' = made.all /\ Goto(t, [thread[t] EXCEPT !.pc = "update", !.commit = made.id])
  /\ UNCHANGED <<loose, packed, lock, journal, cached, validated, answers, ops, faults>>

WriteFails(t) ==
  /\ thread[t].pc = "write"
  /\ Fault("git")
  /\ Answer(t, "rejected")
  /\ UNCHANGED <<loose, packed, commits, journal, cached, validated, ops>>

\* Seeded fault: the expected value is not handed to git update-ref.
UpdateRefUnchecked(t) ==
  /\ thread[t].pc = "update"
  /\ loose' = MovedTo(thread[t].commit)
  /\ thread' = SeenBy([thread EXCEPT ![t].pc = "published", ![t].moved = TRUE], thread[t].commit)
  /\ UNCHANGED <<packed, commits, lock, journal, cached, validated, answers, ops, faults>>

\* git update-ref <new> <expected>, which compares and swaps.
UpdateRef(t) ==
  /\ thread[t].pc = "update"
  /\ IF Ref = thread[t].expected
       THEN /\ loose' = MovedTo(thread[t].commit)
            /\ thread' = SeenBy([thread EXCEPT ![t].pc = "published", ![t].moved = TRUE],
                                thread[t].commit)
       ELSE Goto(t, [thread[t] EXCEPT !.pc = "failed"]) /\ UNCHANGED loose
  /\ UNCHANGED <<packed, commits, lock, journal, cached, validated, answers, ops, faults>>

\* The command is killed (its context ends), before or after it moved the ref.
UpdateInterrupted(t) ==
  /\ thread[t].pc = "update" /\ Ref = thread[t].expected
  /\ Fault("interrupt")
  /\ \/ /\ loose' = MovedTo(thread[t].commit)
        /\ thread' = SeenBy([thread EXCEPT ![t].pc = "failed", ![t].moved = TRUE], thread[t].commit)
     \/ Goto(t, [thread[t] EXCEPT !.pc = "failed"]) /\ UNCHANGED loose
  /\ UNCHANGED <<packed, commits, lock, journal, cached, validated, answers, ops>>

\* The error's first look at the ref: another value is a conflict.
ResolveFailure(t) ==
  /\ thread[t].pc = "failed"
  /\ IF Ref # thread[t].expected
       THEN Answer(t, "rejected")
       ELSE Goto(t, [thread[t] EXCEPT !.pc = "resolve publication"]) /\ UNCHANGED <<lock, answers>>
  /\ UNCHANGED <<loose, packed, commits, journal, cached, validated, ops, faults>>

ResolveFailureFails(t) ==
  /\ thread[t].pc = "failed"
  /\ "resolve" \in Faults
  /\ Goto(t, [thread[t] EXCEPT !.pc = "resolve publication"])
  /\ UNCHANGED <<loose, packed, commits, lock, journal, cached, validated, answers, ops, faults>>

\* resolvePublication; a ref that does not exist yet cannot be resolved.
ResolvePublication(t) ==
  /\ thread[t].pc = "resolve publication"
  /\ CASE Ref = 0 -> Answer(t, "unknown")
       [] Ref = thread[t].commit ->
            Goto(t, [thread[t] EXCEPT !.pc = "published"]) /\ UNCHANGED <<lock, answers>>
       [] OTHER -> Answer(t, "rejected")
  /\ UNCHANGED <<loose, packed, commits, journal, cached, validated, ops, faults>>

\* Seeded fault: a failed resolution counts as a publication.
ResolvePublicationFailsCommits(t) ==
  /\ thread[t].pc = "resolve publication"
  /\ "resolve" \in Faults
  /\ Answer(t, "committed")
  /\ UNCHANGED <<loose, packed, commits, journal, cached, validated, ops, faults>>

ResolvePublicationFails(t) ==
  /\ thread[t].pc = "resolve publication"
  /\ "resolve" \in Faults
  /\ Answer(t, "unknown")
  /\ UNCHANGED <<loose, packed, commits, journal, cached, validated, ops, faults>>

\* The commit is verified, and a checkpoint marks the journal clean and
\* validates what it published.
Published(t) ==
  /\ thread[t].pc = "published"
  /\ Answer(t, "committed")
  /\ journal' = IF thread[t].kind = "checkpoint" THEN Nil ELSE journal
  /\ validated' = IF thread[t].kind = "checkpoint" /\ Valid(thread[t].commit)
                    THEN Validated(thread[t].tables) ELSE validated
  /\ UNCHANGED <<loose, packed, commits, cached, ops, faults>>

\* Seeded fault: only the head itself counts.
RecoverCommitHeadOnly(c) ==
  IF Ref = 0 THEN "unknown" ELSE IF c = Ref THEN "committed" ELSE "rejected"

\* RecoverCommit: is the candidate the head or an ancestor of it?
RecoverCommit(c) ==
  IF Ref = 0 THEN "unknown" ELSE IF c \in History(Ref) THEN "committed" ELSE "rejected"

-----------------------------------------------------------------------------
(* The process dies; other processes; plain Git.                            *)

Crash ==
  /\ Fault("crash")
  /\ thread' = [t \in Threads |-> Idle]
  /\ lock' = Nil /\ cached' = Nil /\ validated' = {}
  /\ UNCHANGED <<loose, packed, commits, journal, answers, ops>>

\* Another process commits to the journal.
JournalCommit ==
  /\ lock = Nil /\ journal = Nil /\ Ref # 0 /\ "checkpoint" \in Kinds
  /\ \E t \in Tables, v \in Versions :
       TablesAt(Ref)[t] # v /\ journal' = [table |-> t, version |-> v, base |-> Ref]
  /\ UNCHANGED <<loose, packed, commits, lock, cached, validated, thread, answers, ops, faults>>

\* Another process publishes: its own native-Git commit or fast-forward, or the
\* journal.
PublishElsewhere ==
  /\ lock = Nil /\ Ref # 0 /\ ops < MaxOps
  /\ \E t \in Tables, v \in Versions, time \in Times :
       /\ TablesAt(Ref)[t] # v
       /\ journal # Nil => t = journal.table /\ v = journal.version /\ Ref = journal.base
       /\ LET made == CommitTree(Ref, [TablesAt(Ref) EXCEPT ![t] = v], NativeObjects(Ref, t, v), time)
          IN /\ commits' = made.all
             /\ loose' = MovedTo(made.id)
             /\ thread' = SeenBy(thread, made.id)
  /\ journal' = Nil
  /\ ops' = ops + 1
  /\ UNCHANGED <<packed, lock, cached, validated, answers, faults>>

\* git pack-refs writes packed-refs, then removes the loose file unless it has
\* changed.
PackRefs ==
  /\ loose # Nil /\ packed.commit # loose.commit
  /\ packed' = MovedTo(loose.commit)
  /\ UNCHANGED <<loose, commits, lock, journal, cached, validated, thread, answers, ops, faults>>

PruneLoose ==
  /\ loose # Nil /\ packed.commit = loose.commit
  /\ loose' = Nil
  /\ UNCHANGED <<packed, commits, lock, journal, cached, validated, thread, answers, ops, faults>>

-----------------------------------------------------------------------------
Init ==
  /\ loose = Nil
  /\ packed = [version |-> 0, commit |-> 0]
  /\ commits = <<>>
  /\ lock = Nil /\ journal = Nil /\ cached = Nil
  /\ validated = {}
  /\ thread = [t \in Threads |-> Idle]
  /\ answers = {}
  /\ ops = 0 /\ faults = 0

Start(t) == StartInit(t) \/ StartNative(t) \/ StartCheckpoint(t)

\* What a thread does by itself once it has started.
Continue(t) ==
  \/ HeadStatLoose(t) \/ HeadStatPacked(t) \/ HeadResolve(t) \/ HeadStore(t)
  \/ BuildNative(t) \/ LockPublication(t) \/ CheckHead(t) \/ WriteCommit(t)
  \/ UpdateRef(t) \/ ResolveFailure(t) \/ ResolvePublication(t) \/ Published(t)

Fail(t) ==
  \/ HeadFails(t) \/ WriteFails(t) \/ UpdateInterrupted(t)
  \/ ResolveFailureFails(t) \/ ResolvePublicationFails(t)

Next ==
  \/ \E t \in Threads : Start(t) \/ Continue(t) \/ Fail(t)
  \/ Crash \/ JournalCommit \/ PublishElsewhere \/ PackRefs \/ PruneLoose

\* A thread that can go on does: the scheduler runs it, Git's commands end, and
\* flock is polled until it is granted.
Spec == Init /\ [][Next]_vars /\ \A t \in Threads : WF_vars(Continue(t))

-----------------------------------------------------------------------------
(* Properties.                                                              *)

Refs == 0..Len(commits)

\* The types of the ref's files, the caches, the commit objects and the threads'
\* local variables (Repository, Writer); a parent is an older commit.
TypeOK ==
  /\ loose = Nil \/ loose \in [version : Nat, commit : Refs]
  /\ packed \in [version : Nat, commit : Refs]
  /\ lock \in Threads \cup {Nil}
  /\ journal = Nil \/ journal \in [table : Tables, version : Versions, base : Refs]
  /\ cached = Nil \/ (cached.head \in Refs)
  /\ validated \subseteq Tables \X Versions
  /\ \A n \in DOMAIN commits :
       /\ commits[n].parent \in 0..(n - 1)
       /\ commits[n].anc \subseteq 1..Len(commits)
       /\ commits[n].tables \in [Tables -> Versions \cup {Nil}]
  /\ \A t \in Threads : thread[t].expected \in Refs /\ thread[t].commit \in Refs
  /\ \A a \in answers : a.commit \in Refs /\ a.outcome \in {"committed", "rejected", "unknown"}

\* Head without a Git process (refstamp.go, Repository.Head): the value it
\* returns was the ref's at some time since it was called, whatever other
\* threads store in the cache and whenever Git writes, packs or removes a file
\* between its two stats.
HeadFresh == \A t \in Threads : thread[t].pc = "return" => thread[t].value \in thread[t].seen

\* A commit answered "committed" is in the data history, and stays there
\* (CommitWithOutcomeMessage, resolvePublication), although commands are killed
\* and the look at the ref after them fails.
CommittedIsPublished == \A a \in answers : a.outcome = "committed" => a.commit \in History(Ref)

\* RecoverCommit finds every commit that moved the ref, whatever was answered
\* when it did, and although later commits hide it.
RecoveryFinds == \A a \in answers : a.moved => RecoverCommit(a.commit) = "committed"

\* What RecoverCommit says of a candidate whose publication has ended, once it
\* can say something, changes only if a writer makes that same commit (one
\* content, one second) the head.
RecoverySettles ==
  [][\A a \in answers :
       \/ RecoverCommit(a.commit) \in {"unknown", RecoverCommit(a.commit)'}
       \/ Ref' = a.commit]_vars

\* The data ref only ever moves to a descendant of what it was: no publication,
\* on whatever head it was built, drops another one.
NothingOverwritten == [][History(Ref) \subseteq History(Ref)']_vars

\* Every published snapshot lists the data objects of all its tables, whether
\* the tables were changed, vouched for by the validation cache, or walked.
DataComplete ==
  \A c \in History(Ref) : \A t \in Tables :
    TablesAt(c)[t] # Nil => DataObject(t, TablesAt(c)[t]) \in Inventory(c)

\* A publication that has the locks or waits for them ends, with an answer: no
\* path keeps the locks.
EveryCommitEnds == \A t \in Threads : thread[t].pc # "idle" ~> thread[t].pc = "idle"

\* docs/architecture.md: "rejected: nothing changed".
RejectedChangedNothing == \A a \in answers : a.outcome = "rejected" => ~a.moved

\* docs/architecture.md: the inventory of a data commit is complete, so every
\* index tree a published manifest names is in it.
InventoryComplete == \A c \in History(Ref) : Valid(c)
=============================================================================
