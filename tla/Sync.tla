-------------------------------- MODULE Sync --------------------------------
(***************************************************************************)
(* Synchronization of clones through remotes (integration/integration.go,   *)
(* conflicts.go): fetch, fast-forward, merge, push, persisted conflicts,    *)
(* retries, next to journal transactions and checkpoints in the clones.     *)
(*                                                                         *)
(* A step is one Git command or one section under the publication locks;    *)
(* what a process read before it may be stale at it.  Commits are numbered  *)
(* in the order of their creation; Git's object transfer is immediate.      *)
(***************************************************************************)
EXTENDS Merge, Naturals, Sequences, FiniteSetsExt

CONSTANTS
  Clones,
  Remotes,
  Procs,       \* processes that run repodb sync or repodb resolve
  EditKinds,   \* what transactions do: "put", "delete", "schema", "drop"
  IndexKeys,   \* unique-index keys of the rows they put, besides Null
  Options,     \* TRUE: SyncOptions.Checkpoint is set
  Nil,
  MaxEdits,    \* bound on journal transactions
  MaxFaults    \* bound on dying processes and lost answers of pushes

maxAttempts == 3

\* What a table of a snapshot can be, besides NoTable: the number of its schema
\* and of each row is the journal transaction that made it.
TableVersions ==
  [schema : Nat, rows : [Keys -> {Absent} \cup [by : Nat, key : IndexKeys \cup {Null}]]]

ASSUME SyncAssumption ==
  /\ EditKinds \subseteq {"put", "delete", "schema", "drop"}
  /\ Options \subseteq BOOLEAN
  /\ MaxEdits \in Nat /\ MaxFaults \in Nat
  /\ Null \notin IndexKeys
  /\ NoTable \notin TableVersions /\ Absent \notin TableVersions

VARIABLES
  commits,    \* every commit: parents, ancestors with itself, snapshot; for a
              \* merge the base and the decided conflicts
  local,      \* refs/repodb/data of each clone, 0 when missing
  remote,     \* refs/repodb/data of each remote, 0 when missing
  work,       \* the uncheckpointed journal of each clone, or Nil
  conflicts,  \* conflicts/<remote>.json of each clone, or Nil
  sync,       \* what each process is at, or Nil
  edits,      \* journal transactions so far
  faults

vars == <<commits, local, remote, work, conflicts, sync, edits, faults>>

-----------------------------------------------------------------------------
(* The commit graph.                                                        *)

Anc(c) == commits[c].anc
Tree(c) == commits[c].tree

NewCommit(parents, tree, base, decided) ==
  [parents |-> parents, tree |-> tree, base |-> base, decided |-> decided,
   anc |-> {Len(commits) + 1} \cup UNION {Anc(p) : p \in parents}]


\* git merge-base --all: the common ancestors that no other one descends from.
MergeBases(a, b) ==
  LET common == Anc(a) \cap Anc(b)
  IN {c \in common : \A d \in common : c \in Anc(d) => d = c}

\* The first of several, in an order that is the same in every clone.
Base(a, b) == Min(MergeBases(a, b))

-----------------------------------------------------------------------------
(* Journal transactions and checkpoints in a clone.                         *)

EmptyTable(schema) == [schema |-> schema, rows |-> [k \in Keys |-> Absent]]

\* A version after the n-th transaction; rows and schemas carry its number.
Edited(v, kind, k, key, n) ==
  CASE kind = "put" -> [v EXCEPT !.rows[k] = [by |-> n, key |-> key]]
    [] kind = "delete" -> [v EXCEPT !.rows[k] = Absent]
    [] kind = "schema" -> IF v = NoTable THEN EmptyTable(n) ELSE [v EXCEPT !.schema = n]
    [] kind = "drop" -> NoTable

\* A journal transaction, which sees and keeps unique keys in its clone.
JournalCommit(c) ==
  /\ local[c] # 0
  /\ edits < MaxEdits
  /\ \E t \in Tables, k \in Keys, key \in IndexKeys \cup {Null}, kind \in EditKinds :
       LET tree == IF work[c] = Nil THEN Tree(local[c]) ELSE work[c].tree
           v == Edited(tree[t], kind, k, key, edits + 1)
       IN /\ kind # "schema" => tree[t] # NoTable
          /\ kind = "delete" => tree[t].rows[k] # Absent
          /\ UniqueTable(v)
          /\ work' = [work EXCEPT ![c] =
               [base |-> IF work[c] = Nil THEN local[c] ELSE work[c].base,
                tree |-> [tree EXCEPT ![t] = v]]]
  /\ edits' = edits + 1
  /\ UNCHANGED <<commits, local, remote, conflicts, sync, faults>>

\* Publishes the journal (Engine.Checkpoint) when its base is the head.
Checkpointed(c) ==
  /\ work[c].base = local[c]
  /\ commits' = Append(commits, NewCommit({local[c]}, work[c].tree, local[c], {}))
  /\ local' = [local EXCEPT ![c] = Len(commits) + 1]
  /\ work' = [work EXCEPT ![c] = Nil]

Checkpoint(c) ==
  /\ work[c] # Nil
  /\ Checkpointed(c)
  /\ UNCHANGED <<remote, conflicts, sync, edits, faults>>

-----------------------------------------------------------------------------
(* Sync.                                                                    *)

At(p, pc) == sync[p] # Nil /\ sync[p].pc = pc

Goto(p, s, pc) == sync' = [sync EXCEPT ![p] = [s EXCEPT !.pc = pc]]

Return(p) == sync' = [sync EXCEPT ![p] = Nil]

\* A turn of the loop, which begins with nothing known.
Attempt(c, r, checkpoint, n) ==
  [pc |-> "attempt", clone |-> c, remote |-> r, checkpoint |-> checkpoint,
   attempt |-> n, local |-> 0, remoteHead |-> 0, base |-> 0,
   tree |-> Nil, decided |-> {}]

\* Seeded fault: the loop has no end.
RetryForever(p) ==
  LET s == sync[p]
  IN sync' = [sync EXCEPT ![p] =
       Attempt(s.clone, s.remote, s.checkpoint, s.attempt + 1)]

\* The next turn of the loop, or "retry-exhausted".
Retry(p) ==
  LET s == sync[p]
  IN sync' = [sync EXCEPT ![p] =
       IF s.attempt = maxAttempts THEN Nil
       ELSE Attempt(s.clone, s.remote, s.checkpoint, s.attempt + 1)]

\* A dirty journal ends a sync, or starts over one that may checkpoint.
Dirty(p) == IF sync[p].checkpoint THEN Retry(p) ELSE Return(p)

\* Seeded fault: a publication does not look at the journal again.
RequireCleanSkipped(c) == TRUE

\* requireCleanJournalLocked.
RequireClean(c) == work[c] = Nil

\* Seeded fault: a publication trusts the head that the attempt read.
UnmovedAssumed(s) == TRUE

\* The head, under the lock, is still the one that the attempt read.
Unmoved(s) == local[s.clone] = s.local

StartSync(p, c, r) ==
  /\ sync[p] = Nil
  /\ local[c] # 0
  /\ \E o \in Options :
       /\ work[c] # Nil => o
       /\ sync' = [sync EXCEPT ![p] = Attempt(c, r, o, 1)]
  /\ UNCHANGED <<commits, local, remote, work, conflicts, edits, faults>>

\* cleanWorkingState, then the local head.
BeginAttempt(p) ==
  LET s == sync[p]
      c == s.clone
  IN /\ At(p, "attempt")
     /\ \/ /\ work[c] = Nil
           /\ sync' = [sync EXCEPT ![p] = [s EXCEPT !.pc = "fetch", !.local = local[c]]]
           /\ UNCHANGED <<commits, local, work>>
        \/ /\ work[c] # Nil
           /\ s.checkpoint
           /\ Checkpointed(c)
           /\ sync' = [sync EXCEPT ![p] =
                [s EXCEPT !.pc = "fetch", !.local = Len(commits) + 1]]
        \/ /\ work[c] # Nil
           /\ ~s.checkpoint
           /\ Return(p)
           /\ UNCHANGED <<commits, local, work>>
     /\ UNCHANGED <<remote, conflicts, edits, faults>>

Fetch(p) ==
  /\ At(p, "fetch")
  /\ sync' = [sync EXCEPT ![p].pc = "compare",
                          ![p].remoteHead = remote[sync[p].remote]]
  /\ UNCHANGED <<commits, local, remote, work, conflicts, edits, faults>>


\* Which side is behind; "unrelated" histories have no common ancestor.
Relation(l, r) ==
  IF r = 0 THEN "ahead"
  ELSE IF l = r THEN "same"
  ELSE IF MergeBases(l, r) = {} THEN "unrelated"
  ELSE IF MergeBases(l, r) = {r} THEN "ahead"
  ELSE IF MergeBases(l, r) = {l} THEN "behind"
  ELSE "diverged"

\* The choices recorded for this very merge.
Resolutions(c, r, base, l, rh) ==
  LET set == conflicts[c][r]
  IN IF set # Nil /\ set.base = base /\ set.local = l /\ set.remote = rh
     THEN set.choices ELSE <<>>

\* Behind the fetch: a clean journal again, ancestry, and the merge of diverged
\* histories up to its publication.
Compare(p) ==
  LET s == sync[p]
      c == s.clone
      rel == Relation(s.local, s.remoteHead)
  IN /\ At(p, "compare")
     /\ \/ /\ work[c] # Nil
           /\ Dirty(p)
           /\ UNCHANGED conflicts
        \/ /\ work[c] = Nil
           /\ \/ rel = "same" /\ Goto(p, s, "clear") /\ UNCHANGED conflicts
              \/ rel = "unrelated" /\ Return(p) /\ UNCHANGED conflicts
              \/ rel = "ahead" /\ Goto(p, s, "check") /\ UNCHANGED conflicts
              \/ rel = "behind" /\ Goto(p, s, "forward") /\ UNCHANGED conflicts
              \/ /\ rel = "diverged"
                 /\ LET base == Base(s.local, s.remoteHead)
                        b == Tree(base)
                        l == Tree(s.local)
                        r == Tree(s.remoteHead)
                        choices == Resolutions(c, s.remote, base, s.local, s.remoteHead)
                        found == Conflicts(b, l, r)
                    IN \/ /\ Invalid(b, l, r, choices)
                          /\ Return(p)
                          /\ UNCHANGED conflicts
                       \/ /\ ~Invalid(b, l, r, choices)
                          /\ ~(found \subseteq DOMAIN choices)
                          /\ conflicts' = [conflicts EXCEPT ![c][s.remote] =
                               [base |-> base, local |-> s.local, remote |-> s.remoteHead,
                                found |-> found \ DOMAIN choices, choices |-> choices]]
                          /\ Return(p)
                       \/ /\ ~Invalid(b, l, r, choices)
                          /\ found \subseteq DOMAIN choices
                          /\ sync' = [sync EXCEPT ![p] =
                               [s EXCEPT !.pc = "publish", !.base = base,
                                         !.tree = MergedSnapshot(b, l, r, choices),
                                         !.decided = found]]
                          /\ UNCHANGED conflicts
     /\ UNCHANGED <<commits, local, remote, work, edits, faults>>

\* FastForwardSnapshot, under working.lock and publish.lock.
FastForward(p) ==
  LET s == sync[p]
      c == s.clone
  IN /\ At(p, "forward")
     /\ \/ ~RequireClean(c) /\ Dirty(p) /\ UNCHANGED local
        \/ RequireClean(c) /\ ~Unmoved(s) /\ Retry(p) /\ UNCHANGED local
        \/ /\ RequireClean(c)
           /\ Unmoved(s)
           /\ local' = [local EXCEPT ![c] = s.remoteHead]
           /\ Goto(p, s, "clear")
     /\ UNCHANGED <<commits, remote, work, conflicts, edits, faults>>

\* Writer.CommitWithOutcome of a merge, under the same locks.
PublishMerge(p) ==
  LET s == sync[p]
      c == s.clone
  IN /\ At(p, "publish")
     /\ \/ ~RequireClean(c) /\ Dirty(p) /\ UNCHANGED <<commits, local>>
        \/ RequireClean(c) /\ ~Unmoved(s) /\ Retry(p) /\ UNCHANGED <<commits, local>>
        \/ /\ RequireClean(c)
           /\ Unmoved(s)
           /\ commits' = Append(commits,
                NewCommit({s.local, s.remoteHead}, s.tree, s.base, s.decided))
           /\ local' = [local EXCEPT ![c] = Len(commits) + 1]
           /\ sync' = [sync EXCEPT ![p] =
                [Attempt(c, s.remote, s.checkpoint, s.attempt) EXCEPT
                   !.pc = "check", !.local = Len(commits) + 1]]
     /\ UNCHANGED <<remote, work, conflicts, edits, faults>>

\* pushExpected: the head is compared under the locks, the push runs without.
PushCheck(p) ==
  LET s == sync[p]
  IN /\ At(p, "check")
     /\ \/ Unmoved(s) /\ Goto(p, s, "push")
        \/ ~Unmoved(s) /\ Retry(p)
     /\ UNCHANGED <<commits, local, remote, work, conflicts, edits, faults>>

\* git push without force; its answer may be lost.
Push(p) ==
  LET s == sync[p]
      forward == remote[s.remote] = 0 \/ remote[s.remote] \in Anc(s.local)
  IN /\ At(p, "push")
     /\ \/ /\ forward
           /\ remote' = [remote EXCEPT ![s.remote] = s.local]
           /\ \/ Goto(p, s, "clear") /\ UNCHANGED faults
              \/ faults < MaxFaults /\ faults' = faults + 1 /\ Retry(p)
        \/ /\ ~forward
           /\ Retry(p)
           /\ UNCHANGED <<remote, faults>>
     /\ UNCHANGED <<commits, local, work, conflicts, edits>>

ClearConflictSet(p) ==
  LET s == sync[p]
  IN /\ At(p, "clear")
     /\ conflicts' = [conflicts EXCEPT ![s.clone][s.remote] = Nil]
     /\ Return(p)
     /\ UNCHANGED <<commits, local, remote, work, edits, faults>>

-----------------------------------------------------------------------------
(* Resolve and Enable.                                                      *)

\* Resolve reads the conflict file and writes it back with one more choice.
LoadConflictSet(p, c, r) ==
  /\ sync[p] = Nil
  /\ conflicts[c][r] # Nil
  /\ sync' = [sync EXCEPT ![p] =
       [pc |-> "resolve", clone |-> c, remote |-> r, set |-> conflicts[c][r]]]
  /\ UNCHANGED <<commits, local, remote, work, conflicts, edits, faults>>

Resolve(p) ==
  LET s == sync[p]
  IN /\ At(p, "resolve")
     /\ \E id \in s.set.found, choice \in Sides :
          LET choices == [i \in DOMAIN s.set.choices \cup {id} |->
                            IF i = id THEN choice ELSE s.set.choices[i]]
          IN /\ conflicts' = [conflicts EXCEPT ![s.clone][s.remote] =
                                [s.set EXCEPT !.choices = choices]]
             /\ sync' = [sync EXCEPT ![p] =
                  IF s.set.found \subseteq DOMAIN choices /\ work[s.clone] = Nil
                  THEN Attempt(s.clone, s.remote, FALSE, 1) ELSE Nil]
     /\ UNCHANGED <<commits, local, remote, work, edits, faults>>

\* A clone without data adopts the remote's, or starts a history of its own.
Enable(c) ==
  /\ local[c] = 0
  /\ \E r \in Remotes :
       \/ /\ remote[r] # 0
          /\ local' = [local EXCEPT ![c] = remote[r]]
          /\ UNCHANGED commits
       \/ /\ remote[r] = 0
          /\ commits' = Append(commits,
               NewCommit({}, [t \in Tables |-> NoTable], 0, {}))
          /\ local' = [local EXCEPT ![c] = Len(commits) + 1]
  /\ UNCHANGED <<remote, work, conflicts, sync, edits, faults>>

\* A process dies, or gives up because a Git command failed.
Abandon(p) ==
  /\ sync[p] # Nil
  /\ faults < MaxFaults
  /\ faults' = faults + 1
  /\ Return(p)
  /\ UNCHANGED <<commits, local, remote, work, conflicts, edits>>

Init ==
  /\ commits = <<[parents |-> {}, anc |-> {1}, base |-> 0, decided |-> {},
                  tree |-> [t \in Tables |-> EmptyTable(0)]]>>
  /\ local \in [Clones -> {0, 1}]
  /\ \E c \in Clones : local[c] = 1
  /\ remote \in [Remotes -> {0, 1}]
  /\ work = [c \in Clones |-> Nil]
  /\ conflicts = [c \in Clones |-> [r \in Remotes |-> Nil]]
  /\ sync = [p \in Procs |-> Nil]
  /\ edits = 0
  /\ faults = 0

SyncStep(p) ==
  \/ BeginAttempt(p) \/ Fetch(p) \/ Compare(p) \/ FastForward(p)
  \/ PublishMerge(p) \/ PushCheck(p) \/ Push(p) \/ ClearConflictSet(p)
  \/ Resolve(p)

Next ==
  \/ \E c \in Clones : JournalCommit(c) \/ Checkpoint(c) \/ Enable(c)
  \/ \E p \in Procs : \/ \E c \in Clones, r \in Remotes :
                            StartSync(p, c, r) \/ LoadConflictSet(p, c, r)
                      \/ SyncStep(p)
                      \/ Abandon(p)

\* Every started step is finished, journals are checkpointed, clones enabled,
\* every clone is synced with every remote again and again, and conflicts are
\* decided.  The first is the scheduling of processes; the others are what users
\* do until nothing is left to do.
Fairness ==
  /\ \A p \in Procs : WF_vars(SyncStep(p))
  /\ \A c \in Clones : WF_vars(Checkpoint(c)) /\ WF_vars(Enable(c))
  /\ \A c \in Clones, r \in Remotes :
       /\ SF_vars(\E p \in Procs : StartSync(p, c, r))
       /\ SF_vars(\E p \in Procs : LoadConflictSet(p, c, r))

Spec == Init /\ [][Next]_vars /\ Fairness

-----------------------------------------------------------------------------
(* Properties.                                                              *)

\* Heads are commits, a journal has a base, and a sync tries at most three times.
TypeOK ==
  /\ \A c \in Clones : local[c] \in 0..Len(commits)
  /\ \A r \in Remotes : remote[r] \in 0..Len(commits)
  /\ \A c \in Clones : work[c] # Nil => work[c].base \in DOMAIN commits
  /\ \A p \in Procs : sync[p] # Nil =>
       /\ sync[p].clone \in Clones /\ sync[p].remote \in Remotes
       /\ sync[p].pc # "resolve" => sync[p].attempt \in 1..maxAttempts
  /\ edits \in 0..MaxEdits /\ faults \in 0..MaxFaults

\* No publication moves the head under a journal with unpublished transactions
\* (lockForPublication, FastForwardSnapshot), whenever they commit between the
\* checks of a sync and its publication.
JournalBased ==
  \A c \in Clones : work[c] # Nil => work[c].base = local[c]

\* Local and remote heads only move to descendants, although ancestry is judged
\* on heads read earlier: no sync drops a commit another process published.
HeadsAdvance ==
  [][/\ \A c \in Clones : local[c] # 0 => local[c] \in commits'[local'[c]].anc
     /\ \A r \in Remotes : remote[r] # 0 => remote[r] \in commits'[remote'[r]].anc]_vars

\* Every published snapshot has unique index keys, although each clone checks
\* them only among its own rows (rebuildIndexesFromTree).
HistoryUnique ==
  \A c \in DOMAIN commits, t \in Tables : UniqueTable(Tree(c)[t])

Cells == {<<t>> : t \in Tables} \cup Tables \X Keys

\* The schema or the row of a cell in a commit.
Cell(c, x) ==
  LET v == Tree(c)[x[1]]
  IN IF v = NoTable THEN Absent
     ELSE IF Len(x) = 1 THEN v.schema ELSE v.rows[x[2]]

IsEdit(c) == commits[c].parents = {commits[c].base}

\* What a commit decided: an edit the cells it changed, a merge those of the
\* conflicts that the user resolved.
Settled(c) ==
  IF IsEdit(c) THEN {x \in Cells : Cell(c, x) # Cell(commits[c].base, x)}
  ELSE {x \in Cells : <<x[1]>> \in commits[c].decided \/ x \in commits[c].decided}

\* What a transaction of a clone wrote is in every commit that descends from
\* it, unless somebody who had it overwrote it or resolved a conflict about it.
NothingLost ==
  \A h \in DOMAIN commits : \A w \in Anc(h) : IsEdit(w) =>
    \A x \in Settled(w) : Cell(w, x) # Absent =>
      \/ Cell(h, x) = Cell(w, x)
      \/ \E s \in Anc(h) \ {w} : w \in Anc(s) /\ x \in Settled(s)


\* Histories that no sync can join: without a common root, or with unique keys
\* that collide.
Unmergeable(a, b) ==
  \/ MergeBases(a, b) = {}
  \/ LET base == Base(a, b)
     IN \E choices \in [Conflicts(Tree(base), Tree(a), Tree(b)) -> Sides] :
          Invalid(Tree(base), Tree(a), Tree(b), choices)

Heads == {local[c] : c \in Clones} \cup {remote[r] : r \in Remotes}

=============================================================================
