------------------------------ MODULE Journal ------------------------------
(***************************************************************************)
(* The journal file of a WorkingState: frames, replay, cached positions,    *)
(* torn writes, checkpoints, compaction and the recovery of transaction     *)
(* outcomes (working.go, journal_compact.go).                               *)
(*                                                                         *)
(* Every operation holds working.lock, so one operation is one step; its    *)
(* faults are the points where it may stop.  Each process keeps its own     *)
(* cached view of the file, which other processes append to, truncate and   *)
(* replace.  Which transactions conflict is module TypedCommit; here a      *)
(* transaction is its ID, and a data commit the set of those it contains.   *)
(***************************************************************************)
EXTENDS Integers, Sequences, SequencesExt

CONSTANTS
  Procs,
  Publishers,    \* those of them that also publish past the journal
  Kinds,         \* of transactions: "typed-prepare" (row edits), "prepare"
  PrepareSizes,  \* sizes of a prepare's frame; every other frame has size 2
  Inodes,        \* file identities, reused after compaction
  Faults,        \* what may fail: "append", "ref", "compaction", "power"
  Levels,        \* durability of the engines: "full" flushes, "off" does not
  Nil,
  MaxTx,         \* bound on transactions
  MaxCommit      \* bound on data commits

ASSUME JournalAssumption ==
  /\ Publishers \subseteq Procs
  /\ Kinds \subseteq {"typed-prepare", "prepare"}
  /\ PrepareSizes \subseteq Nat \ {0, 1}
  /\ Faults \subseteq {"append", "ref", "compaction", "power"}
  /\ Levels \subseteq {"full", "off"}
  /\ MaxTx \in Nat /\ MaxCommit \in Nat

VARIABLES
  journal,    \* the file: its inode (Nil when absent), its bytes, and how
              \* many of them are on stable storage
  contents,   \* the data commits, oldest first; the last one is the head
  issued,     \* the generation in each transaction ID handed out
  acked,      \* transactions whose commit returned success, and at which
              \* level; a power loss releases RepoDB from those of "off"
  cache,      \* WorkingState.cache of each process
  scan,       \* dirtyScan of each process's Repository.working
  ckpt,       \* what Engine.Checkpoint carries to working.lock
  overtaken   \* auxiliary: transactions a checkpoint dropped by publishing
              \* trees older than the journal (see TypedCommit)

vars == <<journal, contents, issued, acked, cache, scan, ckpt, overtaken>>

-----------------------------------------------------------------------------
(* Records and frames.  A byte knows the record it belongs to and its place  *)
(* in the frame; the first byte stands for the header.                       *)

\* journalRecord
Prepare(kind, tx, gen, base, size) ==
  [kind |-> kind, tx |-> tx, gen |-> gen, base |-> base, git |-> 0,
   ids |-> {}, from |-> 0, size |-> size]
Marker(tx, gen, base) ==
  [kind |-> "commit", tx |-> tx, gen |-> gen, base |-> base, git |-> 0,
   ids |-> {}, from |-> 0, size |-> 2]
CheckpointRecord(gen, base, git) ==
  [kind |-> "checkpoint", tx |-> 0, gen |-> gen, base |-> base, git |-> git,
   ids |-> {}, from |-> 0, size |-> 2]

Frame(r) == [i \in 1..r.size |-> [rec |-> r, part |-> i]]

Take(bytes, n) == SubSeq(bytes, 1, n)

\* Seeded fault: the header is not compared.
FirstIgnored(bytes) == Nil

\* The first frame's header, which identifies a journal file.
First(bytes) == IF bytes = <<>> THEN Nil ELSE bytes[1].rec

\* A frame begins at the offset o, and the file ends before it does.
Cut(bytes, o) ==
  /\ bytes[o + 1].part = 1
  /\ o + bytes[o + 1].rec.size > Len(bytes)

\* All of it is there.
Intact(bytes, o) ==
  /\ o + bytes[o + 1].rec.size <= Len(bytes)
  /\ \A i \in 1..bytes[o + 1].rec.size :
       bytes[o + i] = [rec |-> bytes[o + 1].rec, part |-> i]

\* The complete frames from an offset on.
FramesFrom(bytes, start) ==
  LET read[o \in 0..Len(bytes)] ==
        IF o = Len(bytes) \/ ~Intact(bytes, o) THEN <<>>
        ELSE <<[rec |-> bytes[o + 1].rec, end |-> o + bytes[o + 1].rec.size]>>
               \o read[o + bytes[o + 1].rec.size]
  IN read[start]

EndOf(frames, start) == IF frames = <<>> THEN start ELSE frames[Len(frames)].end

Readable(bytes, o) == o = Len(bytes) \/ Cut(bytes, o)

\* readJournalFrames: the frames, and whether it meets bytes that are neither a
\* frame nor the beginning of one (bad magic, bad checksum).  An incomplete
\* frame at the end is not an error.
FramesRead(bytes, start, frames) ==
  [frames |-> frames, bad |-> ~Readable(bytes, EndOf(frames, start))]

ReadFrames(bytes, start) == FramesRead(bytes, start, FramesFrom(bytes, start))

-----------------------------------------------------------------------------
(* Replay.                                                                  *)

DataHead == Len(contents)

\* workingView: log is writes.from, Nil for no write log.  A view with a log
\* has pending rows, so its manifest is no published one.
View(gen, base, dirty, content, log) ==
  [gen |-> gen, base |-> base, dirty |-> dirty, content |-> content, log |-> log]

Fail(s, e) == [s EXCEPT !.err = e]

ReplayPrepare(s, r) == [s EXCEPT !.prepared = @ \cup {r}]

\* A committed transaction on top of a view.  Row edits add to the write log or
\* start one; a whole manifest, or another base, ends it.
CommittedView(v, p) ==
  LET log == IF p.base = v.base THEN v.log ELSE Nil
      below == IF p.base = v.base THEN v.content ELSE contents[p.base]
  IN View(p.gen, p.base, TRUE, below \cup {p.tx},
          IF p.kind = "prepare" THEN Nil
          ELSE IF log = Nil THEN p.gen - 1 ELSE log)

\* Seeded fault: the safe offset stays behind.
ReplayCommitKeepsOffset(s, r, end) ==
  LET matched == {p \in s.prepared : p.tx = r.tx /\ p.gen = r.gen}
      p == CHOOSE p \in matched : TRUE
  IN IF matched = {} THEN Fail(s, "unmatched")
     ELSE IF p.gen # s.view.gen + 1 THEN Fail(s, "generation")
     ELSE IF p.base # s.view.base /\ s.view.dirty THEN Fail(s, "base")
     ELSE [s EXCEPT !.view = CommittedView(@, p), !.prepared = @ \ matched]

\* A commit marker ends its prepare; what follows it is safe to append to.
ReplayCommit(s, r, end) ==
  LET matched == {p \in s.prepared : p.tx = r.tx /\ p.gen = r.gen}
      p == CHOOSE p \in matched : TRUE
  IN IF matched = {} THEN Fail(s, "unmatched")
     ELSE IF p.gen # s.view.gen + 1 THEN Fail(s, "generation")
     ELSE IF p.base # s.view.base /\ s.view.dirty THEN Fail(s, "base")
     ELSE [s EXCEPT !.view = CommittedView(@, p), !.prepared = @ \ matched,
                    !.safe = end]

ReplayCheckpoint(s, r, end) ==
  IF s.prepared # {} THEN Fail(s, "incomplete")
  ELSE IF r.gen # s.view.gen THEN Fail(s, "checkpoint")
  ELSE [s EXCEPT !.view = View(r.gen, r.git, FALSE, contents[r.git], Nil),
                 !.safe = end]

ReplayFrame(s, f) ==
  CASE s.err # "" -> s
    [] s.err = "" /\ f.rec.kind \in {"prepare", "typed-prepare"} ->
         ReplayPrepare(s, f.rec)
    [] s.err = "" /\ f.rec.kind = "commit" -> ReplayCommit(s, f.rec, f.end)
    [] s.err = "" /\ f.rec.kind = "checkpoint" ->
         ReplayCheckpoint(s, f.rec, f.end)

FirstBase(frames) ==
  LET prepares == SelectSeq(frames, LAMBDA f :
                    f.rec.kind \in {"prepare", "typed-prepare"})
  IN IF prepares = <<>> THEN DataHead ELSE prepares[1].rec.base

Anchored(frames) == frames # <<>> /\ frames[1].rec.kind = "checkpoint"

\* Seeded fault: replay always starts at generation 0.
InitialViewIgnoresAnchor(frames) ==
  View(0, FirstBase(frames), FALSE, contents[FirstBase(frames)], Nil)

\* The view a full replay starts from: the base of the first prepare, or the
\* head; an anchor continues from its generation.
InitialView(frames) ==
  View(IF Anchored(frames) THEN frames[1].rec.gen ELSE 0,
       FirstBase(frames), FALSE, contents[FirstBase(frames)], Nil)

Replay(frames, start, v) ==
  FoldLeft(ReplayFrame,
           [view |-> v, prepared |-> {}, safe |-> start, err |-> ""], frames)

\* reconcileHead
ManifestEqual(v) == v.log = Nil /\ v.content = contents[DataHead]

HeadChanged(v) == v.base # DataHead /\ v.dirty /\ ~ManifestEqual(v)

ReconcileHead(v) ==
  IF v.base = DataHead THEN v ELSE View(v.gen, DataHead, FALSE, contents[DataHead], Nil)

\* The cached offset still lies in the file it was taken from.
Usable(c) ==
  /\ c # Nil
  /\ c.inode = journal.inode
  /\ Len(journal.bytes) >= c.offset
  /\ c.offset > 0 => c.first = First(journal.bytes)

\* The view that a replay from the cache starts from.
CachedView(c, frames) ==
  IF c.offset = 0 /\ Anchored(frames)
  THEN [c.view EXCEPT !.gen = frames[1].rec.gen]
  ELSE c.view

\* The replayed state s becomes the cache.  A dirty view replayed from the cache
\* is not compared with the head.
Replayed(c, usable, frames, s) ==
  IF s.err # "" THEN [err |-> s.err, cache |-> c]
  ELSE IF ~(usable /\ s.view.dirty) /\ HeadChanged(s.view)
       THEN [err |-> "head", cache |-> c]
  ELSE [err |-> "",
        cache |-> [view |-> IF usable /\ s.view.dirty THEN s.view
                            ELSE ReconcileHead(s.view),
                   inode |-> journal.inode, offset |-> s.safe,
                   first |-> IF usable /\ frames = <<>> THEN c.first
                             ELSE First(journal.bytes)]]

Loaded(c, usable, start, read) ==
  IF read.bad THEN [err |-> "frame", cache |-> c]
  ELSE Replayed(c, usable, read.frames,
         Replay(read.frames, start,
                IF usable THEN CachedView(c, read.frames) ELSE InitialView(read.frames)))

LoadFrom(c, usable, start) ==
  Loaded(c, usable, start, ReadFrames(journal.bytes, start))

\* WorkingState.load with a cache: the new cache, or an error and the cache
\* left as it was.  Nil asks for a full replay.
Load(c) == LoadFrom(c, Usable(c), IF Usable(c) THEN c.offset ELSE 0)

\* The lock-free path of Current: the file is the cached one if its inode and
\* its size are.
Unchanged(c) ==
  c # Nil /\ c.inode = journal.inode /\ Len(journal.bytes) = c.offset

\* WorkingState.Current.
Current(c) ==
  IF Unchanged(c)
  THEN [err |-> "", cache |-> IF c.view.dirty THEN c
                              ELSE [c EXCEPT !.view = ReconcileHead(@)]]
  ELSE Load(c)

-----------------------------------------------------------------------------
Absent == [inode |-> Nil, bytes |-> <<>>, synced |-> 0]

\* An initialized repository: one data commit and no journal.
Init ==
  /\ journal = Absent
  /\ contents = <<{}>>
  /\ issued = <<>>
  /\ acked = {}
  /\ cache = [p \in Procs |-> Nil]
  /\ scan = [p \in Procs |-> Nil]
  /\ ckpt = [p \in Procs |-> Nil]
  /\ overtaken = {}

\* Status, Diff, a commit refused before it writes, and the slow path of
\* Current.
LoadWorking(p) ==
  \E l \in {Load(cache[p])} :
     /\ l.err = ""
     /\ cache' = [cache EXCEPT ![p] = l.cache]
     /\ UNCHANGED <<journal, contents, issued, acked, scan, ckpt, overtaken>>

ReadCurrent(p) ==
  /\ Unchanged(cache[p])
  /\ cache' = [cache EXCEPT ![p] = Current(cache[p]).cache]
  /\ UNCHANGED <<journal, contents, issued, acked, scan, ckpt, overtaken>>

\* The inode of the file once it is opened with O_CREATE.
Opened == IF journal.inode = Nil THEN Inodes ELSE {journal.inode}

SmallerOf(m, n) == IF m < n THEN m ELSE n

\* CommitTypedEdits and Commit, once accepted: cut the file after the last
\* complete transaction, append the prepare and its marker, flush.  n bytes
\* reach the file; ok says that the append and the flush succeeded.
AppendTransaction(p, l, kind, size, n, ok, level) ==
  LET v == l.cache.view
      tx == Len(issued) + 1
      kept == Take(journal.bytes, l.cache.offset)
      frames == Frame(Prepare(kind, tx, v.gen + 1, v.base, size))
                  \o Frame(Marker(tx, v.gen + 1, v.base))
      bytes == kept \o Take(frames, n)
      log == IF kind = "prepare" THEN Nil
             ELSE IF v.log = Nil THEN v.gen ELSE v.log
  IN /\ Len(issued) < MaxTx
     /\ l.err = ""
     /\ ok => n = Len(frames)
     /\ n <= Len(frames)
     /\ \E i \in Opened :
          /\ journal' = [inode |-> i, bytes |-> bytes,
                         synced |-> IF ok /\ level = "full" THEN Len(bytes)
                                    ELSE SmallerOf(journal.synced, Len(kept))]
          /\ cache' = [cache EXCEPT ![p] =
               IF ~ok THEN l.cache
               ELSE [view |-> View(v.gen + 1, v.base, TRUE, v.content \cup {tx}, log),
                     inode |-> i, offset |-> Len(bytes),
                     first |-> IF l.cache.first # Nil THEN l.cache.first
                               ELSE First(bytes)]]
     /\ issued' = Append(issued, v.gen + 1)
     /\ acked' = IF ok THEN acked \cup {[tx |-> tx, level |-> level]} ELSE acked
     /\ UNCHANGED <<contents, scan, ckpt, overtaken>>

Commit(p) ==
  \E kind \in Kinds, size \in PrepareSizes, level \in Levels :
    AppendTransaction(p, Load(cache[p]), kind, size, size + 2, TRUE, level)

\* An error, or the death of the process, after n bytes: the outcome is
\* unknown to the caller.
CommitFails(p) ==
  /\ "append" \in Faults
  /\ \E kind \in Kinds, size \in PrepareSizes :
       \E n \in 0..(size + 2) :
         AppendTransaction(p, Load(cache[p]), kind, size, n, FALSE, "off")

-----------------------------------------------------------------------------
(* Checkpoints.                                                             *)

\* Engine.Checkpoint reads the current snapshot before it takes the lock.
CheckpointCapture(p) ==
  \E l \in {Current(cache[p])} :
     /\ ckpt[p] = Nil
     /\ l.err = ""
     /\ cache' = [cache EXCEPT ![p] = l.cache]
     /\ ckpt' = [ckpt EXCEPT ![p] =
          [base |-> l.cache.view.base, content |-> l.cache.view.content,
           typed |-> l.cache.view.log # Nil]]
     /\ UNCHANGED <<journal, contents, issued, acked, scan, overtaken>>

TxsOf(frames, kinds) ==
  {frames[i].rec.tx : i \in {j \in DOMAIN frames : frames[j].rec.kind \in kinds}}

\* Seeded fault: the anchor claims to know every older generation.
AnchorWithoutFrom(rec, bytes) ==
  [rec EXCEPT !.ids = TxsOf(ReadFrames(bytes, 0).frames, {"commit"})]

\* compactLocked's anchor for a checkpoint record: the transactions it drops,
\* and the generation above which it knows them all.
Anchor(rec, bytes) ==
  LET frames == ReadFrames(bytes, 0).frames
  IN [rec EXCEPT !.ids = TxsOf(frames, {"commit"}),
                 !.from = IF Anchored(frames) THEN frames[1].rec.gen ELSE @]

\* Seeded fault: no flush before the publication.
RecordedUnflushed(rec, n, flushed) ==
  [journal EXCEPT !.bytes = @ \o Take(Frame(rec), n)]

\* The journal after n bytes of its checkpoint record; all that came before
\* was flushed before the publication (flushJournalFully).
Recorded(rec, n, flushed) ==
  [journal EXCEPT !.bytes = @ \o Take(Frame(rec), n),
                  !.synced = Len(journal.bytes) + (IF flushed THEN n ELSE 0)]

\* Seeded fault: the renamed file was not synced.
CompactedUnsynced(rec, i) ==
  [journal EXCEPT !.inode = i,
                  !.bytes = Frame(Anchor(rec, Recorded(rec, rec.size, FALSE).bytes))]

\* The file compactLocked writes, syncs and renames over the journal.
Compacted(rec, i) ==
  [inode |-> i, bytes |-> Frame(Anchor(rec, Recorded(rec, rec.size, FALSE).bytes)),
   synced |-> rec.size]

Compactable(rec) == ~ReadFrames(Recorded(rec, rec.size, FALSE).bytes, 0).bad

\* The rest of a checkpoint, from the publication of its commit on: the ref,
\* the checkpoint record, compaction.  l is the view loaded under the lock.
Publish(p, l, content) ==
  LET v == l.cache.view
      git == DataHead + 1
      rec == CheckpointRecord(v.gen, v.base, git)
      clean(j) == [view |-> View(v.gen, git, FALSE, content, Nil),
                   inode |-> j.inode, offset |-> Len(j.bytes),
                   first |-> First(j.bytes)]
  IN /\ DataHead < MaxCommit
     /\ contents' = Append(contents, content)
     /\ overtaken' = overtaken \cup (v.content \ content)
     /\ \/ \* AfterCheckpointRef: the record is never appended
           /\ "ref" \in Faults
           /\ journal' = Recorded(rec, 0, FALSE)
           /\ cache' = [cache EXCEPT ![p] = l.cache]
        \/ \* appending or flushing the record fails
           /\ "ref" \in Faults
           /\ \E n \in 0..rec.size : journal' = Recorded(rec, n, FALSE)
           /\ cache' = [cache EXCEPT ![p] = Nil]
        \/ \* compaction fails before the rename, or is not tried because the
           \* published snapshot cannot be loaded
           /\ "compaction" \in Faults \/ ~Compactable(rec)
           /\ \E level \in Levels :
                journal' = Recorded(rec, rec.size, level = "full")
           /\ \E c \in {Nil, l.cache} : cache' = [cache EXCEPT ![p] = c]
        \/ \* compaction fails after the rename
           /\ "compaction" \in Faults
           /\ Compactable(rec)
           /\ \E i \in Inodes \ {journal.inode} : journal' = Compacted(rec, i)
           /\ cache' = [cache EXCEPT ![p] = Nil]
        \/ /\ Compactable(rec)
           /\ \E i \in Inodes \ {journal.inode} : journal' = Compacted(rec, i)
           /\ cache' = [cache EXCEPT ![p] = clean(journal')]

\* A checkpoint that publishes nothing: the load fails, the journal is clean
\* or (after the journal was flushed) Git refuses or fails.
NotPublished(p, l, flushed) ==
  /\ cache' = [cache EXCEPT ![p] = l.cache]
  /\ journal' = IF flushed THEN [journal EXCEPT !.synced = Len(journal.bytes)]
                ELSE journal
  /\ UNCHANGED <<contents, overtaken>>

\* WorkingState.CheckpointPrepared, with the trees of the captured snapshot.
CheckpointPrepared(p) ==
  \E l \in {Load(cache[p])} : \E ready \in {l.err = "" /\ l.cache.view.dirty} :
     /\ ckpt[p] # Nil
     /\ ckpt[p].typed
     /\ \/ /\ ready /\ ckpt[p].base = DataHead
           /\ Publish(p, l, ckpt[p].content)
        \/ NotPublished(p, l, ready)
     /\ ckpt' = [ckpt EXCEPT ![p] = Nil]
     /\ UNCHANGED <<issued, acked, scan>>

\* WorkingState.Checkpoint publishes the view it loads, and refuses one with
\* pending rows.
Checkpoint(p) ==
  \E l \in {Load(cache[p])} :
  \E ready \in {l.err = "" /\ l.cache.view.dirty /\ l.cache.view.log = Nil} :
     /\ ckpt[p] # Nil
     /\ ~ckpt[p].typed
     /\ \/ /\ ready /\ l.cache.view.base = DataHead
           /\ Publish(p, l, l.cache.view.content)
        \/ NotPublished(p, l, ready)
     /\ ckpt' = [ckpt EXCEPT ![p] = Nil]
     /\ UNCHANGED <<issued, acked, scan>>

-----------------------------------------------------------------------------
(* Other publications: native-Git commits, fast-forwards, merges.           *)

\* journalDirtyLocked: the new scan, or bad when the bytes it reads are not
\* frames.  Unlike load it keeps its place after an unfinished transaction.
Kept(s) ==
  /\ s # Nil
  /\ s.inode = journal.inode
  /\ Len(journal.bytes) >= s.offset
  /\ s.offset > 0 => s.first = First(journal.bytes)

\* The last commit or checkpoint record decides; without one the scan stands.
DirtyAfter(frames, before) ==
  LET known == SelectSeq(frames, LAMBDA f : f.rec.kind \in {"commit", "checkpoint"})
  IN IF known = <<>> THEN before ELSE known[Len(known)].rec.kind = "commit"

Scanned(s, before, start, read) ==
  IF read.bad THEN [bad |-> TRUE, scan |-> s]
  ELSE [bad |-> FALSE,
        scan |-> [inode |-> journal.inode, first |-> First(journal.bytes),
                  offset |-> EndOf(read.frames, start),
                  dirty |-> DirtyAfter(read.frames, before)]]

ScanFrom(s, before, start) ==
  Scanned(s, before, start, ReadFrames(journal.bytes, start))

ScanJournal(s) ==
  IF journal.inode = Nil THEN [bad |-> FALSE, scan |-> Nil]
  ELSE IF s # Nil /\ s.inode = journal.inode /\ Len(journal.bytes) = s.offset
       THEN [bad |-> FALSE, scan |-> s]
  ELSE ScanFrom(s, Kept(s) /\ s.dirty, IF Kept(s) THEN s.offset ELSE 0)

\* A native-Git commit, a fast-forward or a merge refuses a dirty journal
\* (requireCleanJournalLocked), and may still fail behind that check.  Its own
\* change is -c in commit c.
NativePublish(p) ==
  \E s \in {ScanJournal(scan[p])} :
     /\ p \in Publishers
     /\ ~s.bad
     /\ scan' = [scan EXCEPT ![p] = s.scan]
     /\ \/ /\ DataHead < MaxCommit
           /\ s.scan # Nil => ~s.scan.dirty
           /\ contents' = Append(contents, contents[DataHead] \cup {-(DataHead + 1)})
        \/ UNCHANGED contents
     /\ UNCHANGED <<journal, issued, acked, cache, ckpt, overtaken>>

-----------------------------------------------------------------------------
(* Crashes.  A process that dies inside an operation is one that stops at a   *)
(* fault of it and is restarted.                                            *)

Crash(p) ==
  /\ cache' = [cache EXCEPT ![p] = Nil]
  /\ scan' = [scan EXCEPT ![p] = Nil]
  /\ ckpt' = [ckpt EXCEPT ![p] = Nil]
  /\ UNCHANGED <<journal, contents, issued, acked, overtaken>>

\* Bytes reach the disk in order: what was not flushed may be cut off.
PowerLoss ==
  /\ "power" \in Faults
  /\ \E n \in journal.synced..Len(journal.bytes) :
       journal' = [journal EXCEPT !.bytes = Take(@, n), !.synced = n]
  /\ cache' = [p \in Procs |-> Nil]
  /\ scan' = [p \in Procs |-> Nil]
  /\ ckpt' = [p \in Procs |-> Nil]
  /\ acked' = {a \in acked : a.level = "full"}
  /\ UNCHANGED <<contents, issued, overtaken>>

Next ==
  \/ \E p \in Procs : \/ LoadWorking(p)
                      \/ ReadCurrent(p)
                      \/ Commit(p)
                      \/ CommitFails(p)
                      \/ CheckpointCapture(p)
                      \/ CheckpointPrepared(p)
                      \/ Checkpoint(p)
                      \/ NativePublish(p)
                      \/ Crash(p)
  \/ PowerLoss

Spec == Init /\ [][Next]_vars

-----------------------------------------------------------------------------
(* Recovery of outcomes.                                                    *)

\* WorkingState.RecoverTransaction and recoverFromAnchor, for one transaction.
OutcomeOf(tx, read, committed, prepared) ==
  IF read.bad THEN "error"
  ELSE IF tx \in committed THEN "committed"
  ELSE IF tx \in prepared \/ ~Anchored(read.frames) THEN "rejected"
  ELSE IF tx \in read.frames[1].rec.ids THEN "committed"
  ELSE IF issued[tx] <= read.frames[1].rec.from THEN "unknown"
  ELSE "rejected"

Outcomes(read) ==
  [tx \in DOMAIN issued |->
     OutcomeOf(tx, read, TxsOf(read.frames, {"commit"}),
               TxsOf(read.frames, {"prepare", "typed-prepare"}))]

\* For every transaction ID handed out.
RecoverTransaction == Outcomes(ReadFrames(journal.bytes, 0))

-----------------------------------------------------------------------------
(* Properties.                                                              *)

Transactions == DOMAIN issued
Promised == {a.tx : a \in acked}
JournalTxs == TxsOf(ReadFrames(journal.bytes, 0).frames, {"commit"})

CacheOK(c) ==
  /\ c.inode \in Inodes \cup {Nil}
  /\ c.offset \in Nat
  /\ c.view.gen \in Nat /\ c.view.base \in 1..DataHead /\ c.view.dirty \in BOOLEAN
  /\ c.view.content \subseteq Transactions \cup {-k : k \in 1..DataHead}

TypeOK ==
  /\ journal.inode \in Inodes \cup {Nil}
  /\ journal.synced \in 0..Len(journal.bytes)
  /\ Promised \cup overtaken \subseteq Transactions
  /\ \A p \in Procs : cache[p] # Nil => CacheOK(cache[p])
  /\ \A p \in Procs : ckpt[p] # Nil => ckpt[p].base \in 1..DataHead

\* Whatever a process cached before other processes appended to the file, cut
\* its tail or replaced it by one that got the same inode, its next load gives
\* the view that a replay of the whole file gives, and fails when that does.
\* The exception is a moved head, which only a full replay looks for.
ReplayAgrees ==
  \A whole \in {Load(Nil)}, p \in Procs : cache[p] # Nil /\ whole.err # "head" =>
    \A l \in {Load(cache[p])} :
      /\ l.err = whole.err
      /\ whole.err = "" => l.cache.view = whole.cache.view

\* A transaction whose commit returned success is in the journal or in the
\* head, unless a checkpoint overtook it; torn appends, failed checkpoints and
\* compactions, restarts and (of flushed commits) power losses lose none.
AckedSurvives ==
  Promised \subseteq JournalTxs \cup contents[DataHead] \cup overtaken

\* RecoverTransaction never answers wrongly: "never a wrong rejected" once
\* compaction dropped the records, and committed only for what the journal or
\* the head holds.
RecoveryTruthful ==
  LET held == contents[DataHead]
      kept == JournalTxs
  IN \A outcome \in {RecoverTransaction}, tx \in Transactions :
       /\ outcome[tx] = "rejected" => tx \notin held \cup Promised
       /\ outcome[tx] = "committed" => tx \in kept \cup held \cup overtaken

\* An answer stays: what was rejected is not committed later, and what was
\* committed is not rejected later ("resolves the durable outcome").
OutcomesStay(before, after) ==
  \A tx \in DOMAIN before :
    /\ before[tx] = "rejected" => after[tx] # "committed"
    /\ before[tx] = "committed" => after[tx] # "rejected"


\* The only damage a journal of row edits ever takes is a checkpoint record
\* behind an unfinished transaction: markers match their prepares, generations
\* follow each other and no base changes under a dirty view.
RecordsInOrder ==
  Load(Nil).err \notin {"unmatched", "generation", "base", "checkpoint"}

\* Every journal the operations leave behind can be replayed (durability.go:
\* "a crash can only lose a suffix of it, never corrupt it").
JournalReplays == Load(Nil).err \in {"", "head"}

\* The data head is the base of the unpublished transactions, or equal to
\* them: no load fails with ErrWorkingBaseChanged (docs/architecture.md: "the
\* next open sees that the published snapshot equals the working state").
NeverStranded == Load(Nil).err # "head"

\* What a full replay would find unpublished.
Unpublished ==
  LET whole == Load(Nil)
  IN IF whole.err = "" /\ whole.cache.view.dirty
     THEN whole.cache.view.content \ contents[DataHead] ELSE {}

\* The head moves only together with what the journal holds ("Only a
\* checkpoint may publish while the journal is dirty").
PublicationCarriesJournal ==
  [][Len(contents') > Len(contents) =>
       Unpublished \subseteq contents'[Len(contents')] \cup overtaken']_vars
=============================================================================
