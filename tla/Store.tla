------------------------------- MODULE Store -------------------------------
(***************************************************************************)
(* The durable store: an append-only framed log, a snapshot and the audit  *)
(* chain (crates/hypellm-store/src/lib.rs, log.rs, frame.rs, audit.rs).    *)
(*                                                                         *)
(* Every operation runs under the log mutex, so at most one is under way;  *)
(* it is cut into the steps between which the process may die or the disk  *)
(* may fail.  A file has a content the process sees and a set of contents  *)
(* a power loss may leave; an fsync that succeeds makes the two agree.     *)
(* Bytes are abstracted to cells: a whole frame, the torn beginning of     *)
(* one, or zeros.  Checksums and MACs always detect a cell that is not a   *)
(* frame, and hashes are collision free, so a link is the events it        *)
(* commits to.                                                             *)
(***************************************************************************)
EXTENDS Naturals, Sequences, FiniteSets, FiniteSetsExt

CONSTANTS
  MaxAppends,          \* bound on the appends begun, restarts included
  checkpoint_interval, \* audit records between two checkpoints, 0 for never
  Faults               \* the failures the disk may show: see FaultKinds

FaultKinds == {"oversize", "write", "sync", "cut", "rename", "reset"}

ASSUME BoundAssumption == MaxAppends \in Nat /\ checkpoint_interval \in Nat
ASSUME FaultAssumption == Faults \subseteq FaultKinds

VARIABLES
  log,        \* the cells of log.bin as a reader sees them
  logImages,  \* the contents of log.bin a power loss may leave
  snap,       \* snapshot.bin as a reader sees it
  snapImages, \* the contents of snapshot.bin a power loss may leave
  op,         \* what the process is doing under the log mutex
  inflight,   \* the frame being appended
  sequence, len, poisoned, head, snapshot_sequence, since,  \* the Store and its Log
  applied,    \* the records the running process has in effect, in order
  issued,     \* the number of appends ever begun, which names the records
  failed,     \* the records whose append was reported as failed
  phantom     \* those of them that could not be cut off again

disk == <<log, logImages, snap, snapImages>>
memory == <<sequence, len, poisoned, head, snapshot_sequence, since, applied>>
ghosts == <<issued, failed, phantom>>
storeVars == <<disk, memory, ghosts, op, inflight>>

Kinds == {"plain", "audit", "checkpoint"}
Frame(seq, kind, id, link) == [seq |-> seq, kind |-> kind, id |-> id, link |-> link]
Torn == Frame(0, "torn", 0, <<>>)
Zero == Frame(0, "zero", 0, <<>>)
NoFrame == Frame(0, "none", 0, <<>>)

\* A snapshot covers the records up to its sequence; the payload the caller
\* passes to compact represents all of them.
Snapshot(seq, link, covers) == [seq |-> seq, head |-> link, covers |-> covers]
NoSnapshot == Snapshot(0, <<>>, <<>>)

IsFrame(cell) == cell.kind \in Kinds
link_of(frame) == Append(frame.link, frame.id)

-----------------------------------------------------------------------------
(* Replay and recovery, as functions of what is on disk *)

\* The cells that do not decode or do not follow their predecessor.
Flaws(cells) ==
  {i \in DOMAIN cells :
     \/ ~IsFrame(cells[i])
     \/ i > 1 /\ IsFrame(cells[i - 1]) /\ cells[i].seq <= cells[i - 1].seq}
FirstBad(cells) ==
  IF Flaws(cells) = {} THEN Len(cells) + 1 ELSE Min(Flaws(cells))

\* Log::replay: which of its outcomes a content has.
ReplayOutcome(cells) ==
  LET b    == FirstBad(cells)
      last == IF b > 1 THEN cells[b - 1].seq ELSE 0
  IN CASE b > Len(cells)                 -> "ok"
       [] b <= Len(cells) /\ IsFrame(cells[b])            -> "NonMonotonicSequence"
       [] b = 1 /\ b <= Len(cells) /\ cells[b] = Zero     -> "UnknownFormat"
       [] OTHER -> IF \E i \in b + 1 .. Len(cells) : IsFrame(cells[i]) /\ cells[i].seq > last
                   THEN "MidFileDamage" ELSE "torn"

Startable(cells) == ReplayOutcome(cells) \in {"ok", "torn"}
ValidPrefix(cells) == SubSeq(cells, 1, FirstBad(cells) - 1)

\* The frames past sequence q: sequences ascend, so they are the last ones.
FirstPast(q, frames) ==
  CHOOSE k \in 1 .. Len(frames) + 1 : \A i \in DOMAIN frames : frames[i].seq > q <=> i >= k
Later(q, frames) == SubSeq(frames, FirstPast(q, frames), Len(frames))

\* Mutant: frames at or below the snapshot's sequence are applied again.
RecoveredFrames_All(s, cells) == ValidPrefix(cells)

\* Store::open skips the frames the snapshot already covers.
RecoveredFrames(s, cells) == Later(s.seq, ValidPrefix(cells))

Ids(frames) == [i \in 1 .. Len(frames) |-> frames[i].id]

\* The records in effect after a start from these files.
Recovered(s, cells) == s.covers \o Ids(RecoveredFrames(s, cells))

\* The head of the audit chain, which began at link, after the first n frames.
ChainHead(link, frames, n) ==
  LET audits == {i \in 1 .. n : frames[i].kind = "audit"}
  IN IF audits = {} THEN link ELSE link_of(frames[Max(audits)])

\* The chain head rebuilt by a start from these files.
RecoveredHead(s, cells) ==
  LET frames == RecoveredFrames(s, cells) IN ChainHead(s.head, frames, Len(frames))

\* Recovery::audit_chain_broken_at is Some.
ChainBroken(s, cells) ==
  LET frames == RecoveredFrames(s, cells)
  IN \E i \in DOMAIN frames :
       frames[i].kind = "audit" /\ frames[i].link # ChainHead(s.head, frames, i - 1)

\* Recovery::max_sequence.
MaxRecovered(s, cells) ==
  LET frames == RecoveredFrames(s, cells)
  IN IF frames = <<>> THEN s.seq ELSE frames[Len(frames)].seq

-----------------------------------------------------------------------------
(* The disk *)

\* set_len pads with zeros when the file is shorter than asked.
Resized(cells, n) == [i \in 1 .. n |-> IF i <= Len(cells) THEN cells[i] ELSE Zero]

LogWritten(cell) ==
  /\ log' = Append(log, cell)
  /\ logImages' = logImages \cup {Append(log, cell), Append(log, Torn)}

LogSynced(cells) == log' = cells /\ logImages' = {cells}

\* The length changed and nothing made the change durable.
LogCut(cells) == log' = cells /\ logImages' = logImages \cup {cells}

LogUnchanged == UNCHANGED <<log, logImages>>
SnapUnchanged == UNCHANGED <<snap, snapImages>>

-----------------------------------------------------------------------------
StoreInit ==
  /\ log = <<>> /\ logImages = {<<>>}
  /\ snap = NoSnapshot /\ snapImages = {NoSnapshot}
  /\ op = "down" /\ inflight = NoFrame
  /\ sequence = 0 /\ len = 0 /\ poisoned = FALSE /\ head = <<>>
  /\ snapshot_sequence = 0 /\ since = 0 /\ applied = <<>>
  /\ issued = 0 /\ failed = {} /\ phantom = {}

\* Store::open, a torn tail cut off included.
Open ==
  /\ op = "down"
  /\ IF Startable(log) /\ ~ChainBroken(snap, log)
     THEN /\ op' = "idle"
          /\ LogSynced(ValidPrefix(log))
          /\ len' = Len(ValidPrefix(log))
          /\ sequence' = MaxRecovered(snap, log)
          /\ head' = RecoveredHead(snap, log)
          /\ snapshot_sequence' = snap.seq
          /\ applied' = Recovered(snap, log)
     ELSE /\ op' = "refused"
          /\ LogUnchanged /\ UNCHANGED <<len, sequence, head, snapshot_sequence, applied>>
  /\ poisoned' = FALSE /\ since' = 0
  /\ SnapUnchanged /\ UNCHANGED <<ghosts, inflight>>

-----------------------------------------------------------------------------
(* Store::append, append_audit and checkpoint_audit over Log::append *)

\* append_locked: a sequence number is consumed whatever happens next.
Allocate ==
  /\ issued < MaxAppends
  /\ sequence' = sequence + 1
  /\ issued' = issued + 1

NewFrame(kind) == Frame(sequence + 1, kind, issued + 1, IF kind = "plain" THEN <<>> ELSE head)

\* A poisoned log and an oversize payload are refused before any byte is written.
AppendRefused(kind) ==
  /\ op = "idle"
  /\ poisoned \/ "oversize" \in Faults
  /\ Allocate
  /\ failed' = failed \cup {issued + 1}
  /\ UNCHANGED <<disk, op, inflight, len, poisoned, head, snapshot_sequence, since,
                 applied, phantom>>

\* write_frame: the bytes go to the end of the file, all of them or some.
AppendWrite(kind) ==
  /\ op \in (IF kind = "checkpoint" THEN {"idle", "checkpoint"} ELSE {"idle"})
  /\ ~poisoned
  /\ Allocate
  /\ inflight' = NewFrame(kind)
  /\ \/ LogWritten(NewFrame(kind)) /\ op' = "sync"
     \/ "write" \in Faults /\ LogWritten(Torn) /\ op' = "cut"
  /\ SnapUnchanged
  /\ UNCHANGED <<len, poisoned, head, snapshot_sequence, since, applied, failed,
                 phantom>>

(***************************************************************************)
(* The fsync.  An audit record that makes the checkpoint due is followed   *)
(* by one before the mutex is released.                                    *)
(***************************************************************************)
AppendSync ==
  /\ op = "sync"
  /\ LogSynced(log)
  /\ len' = len + 1
  /\ applied' = Append(applied, inflight.id)
  /\ head' = IF inflight.kind = "audit" THEN link_of(inflight) ELSE head
  /\ since' = CASE inflight.kind = "audit"      -> since + 1
               [] inflight.kind = "checkpoint" -> 0
               [] OTHER                        -> since
  /\ op' = IF /\ inflight.kind = "audit" /\ checkpoint_interval > 0
              /\ since + 1 >= checkpoint_interval
           THEN "checkpoint" ELSE "idle"
  /\ inflight' = NoFrame
  /\ SnapUnchanged
  /\ UNCHANGED <<sequence, poisoned, snapshot_sequence, ghosts>>

SyncFails ==
  /\ op = "sync" /\ "sync" \in Faults
  /\ op' = "cut"
  /\ UNCHANGED <<disk, memory, ghosts, inflight>>

\* Mutant: a failed append is reported and its bytes are left where they are.
RollBack_LeavesBytes ==
  /\ op = "cut"
  /\ op' = "idle"
  /\ inflight' = NoFrame
  /\ failed' = failed \cup {inflight.id}
  /\ LogUnchanged /\ SnapUnchanged
  /\ UNCHANGED <<memory, issued, phantom>>

\* Mutant: the chain keeps the head of the record that was cut off.
RollBack_KeepsHead ==
  /\ op = "cut"
  /\ op' = "idle"
  /\ inflight' = NoFrame
  /\ failed' = failed \cup {inflight.id}
  /\ LogSynced(Resized(log, len))
  /\ head' = IF inflight.kind = "audit" THEN link_of(inflight) ELSE head
  /\ SnapUnchanged
  /\ UNCHANGED <<sequence, len, poisoned, snapshot_sequence, since, applied, issued, phantom>>

(***************************************************************************)
(* roll_back: the file is cut to its last known length and synced, or the  *)
(* log refuses every later append.                                         *)
(***************************************************************************)
RollBack ==
  /\ op = "cut"
  /\ op' = "idle"
  /\ inflight' = NoFrame
  /\ failed' = failed \cup {inflight.id}
  /\ \/ LogSynced(Resized(log, len)) /\ UNCHANGED <<poisoned, phantom>>
     \/ /\ "cut" \in Faults
        /\ LogUnchanged \/ LogCut(Resized(log, len))
        /\ poisoned' = TRUE
        /\ phantom' = phantom \cup {inflight.id}
  /\ SnapUnchanged
  /\ UNCHANGED <<sequence, len, head, snapshot_sequence, since, applied, issued>>

-----------------------------------------------------------------------------
(* Store::compact and backup_to *)

\* Mutant: the log is reset although the rename was never made durable.
CompactWrite_NoDirSync ==
  LET new == Snapshot(sequence, head, applied) IN
  /\ op = "idle"
  /\ snap' = new /\ snapImages' = snapImages \cup {new}
  /\ snapshot_sequence' = sequence
  /\ op' = "reset"
  /\ LogUnchanged
  /\ UNCHANGED <<sequence, len, poisoned, head, since, applied, ghosts, inflight>>

\* write_atomic: a temporary file, one rename, one directory fsync.
CompactWrite ==
  LET new == Snapshot(sequence, head, applied) IN
  /\ op = "idle"
  /\ \/ /\ snap' = new /\ snapImages' = {new}
        /\ snapshot_sequence' = sequence
        /\ op' = "reset"
     \/ /\ "rename" \in Faults
        /\ snap' = new /\ snapImages' = snapImages \cup {new}
        /\ UNCHANGED <<snapshot_sequence, op>>
  /\ LogUnchanged
  /\ UNCHANGED <<sequence, len, poisoned, head, since, applied, ghosts, inflight>>

\* Log::reset; len and poisoned change only when both of its calls succeed.
CompactReset ==
  /\ op = "reset"
  /\ op' = "idle"
  /\ \/ LogSynced(<<>>) /\ len' = 0 /\ poisoned' = FALSE
     \/ /\ "reset" \in Faults
        /\ LogUnchanged \/ LogCut(<<>>)
        /\ UNCHANGED <<len, poisoned>>
  /\ SnapUnchanged
  /\ UNCHANGED <<sequence, head, snapshot_sequence, since, applied, ghosts, inflight>>

\* backup_to changes nothing here: this is the log it copies beside the
\* snapshot, up to the recorded boundary.
BackupLog == SubSeq(log, 1, IF len < Len(log) THEN len ELSE Len(log))

\* What records_of_kinds, audit_records and checkpoints read back live.
ReadBack == Ids(Later(snapshot_sequence, ValidPrefix(log)))

\* The process dies or the machine loses power.
PowerLoss ==
  /\ op \notin {"down", "refused"}
  /\ op' = "down"
  /\ inflight' = NoFrame
  /\ \E cells \in logImages : LogSynced(cells)
  /\ \E s \in snapImages : snap' = s /\ snapImages' = {s}
  /\ UNCHANGED <<memory, ghosts>>

StoreNext ==
  \/ Open \/ AppendSync \/ SyncFails \/ RollBack
  \/ CompactWrite \/ CompactReset \/ PowerLoss
  \/ \E kind \in Kinds : AppendWrite(kind) \/ AppendRefused(kind)

StoreSpec == StoreInit /\ [][StoreNext]_storeVars

-----------------------------------------------------------------------------
(* Properties *)

\* Whenever the power fails, the next start finds a log it can replay and an
\* audit chain without a break (Store::open never refuses its own leftovers).
AlwaysStartable ==
  \A cells \in logImages, s \in snapImages : Startable(cells) /\ ~ChainBroken(s, cells)

\* Whenever the power fails, every record in effect is recovered, in order and
\* once, followed at most by the record that was being appended or could not
\* be cut off.
NothingLostOrTwice ==
  op \notin {"down", "refused"} =>
    \A cells \in logImages, s \in snapImages :
      LET found == Recovered(s, cells) IN
        \/ found = applied
        \/ \E id \in phantom \cup {inflight.id} : found = Append(applied, id)

\* The live audit head is the one a restart rebuilds, and every checkpoint in
\* the log carries the head of the chain at its place: a full disk never
\* looks like tampering.
ChainFollowsDisk ==
  op = "idle" /\ ~poisoned =>
    /\ head = RecoveredHead(snap, log)
    /\ \A i \in DOMAIN log :
         log[i].kind = "checkpoint" /\ log[i].seq > snap.seq =>
           log[i].link = RecoveredHead(snap, SubSeq(log, 1, i))

\* What leaves the store is what is in effect: a backup taken now restores to
\* exactly the state of this moment, a failed compaction or a poisoned log
\* notwithstanding, and what is read back from the live log is the newest part
\* of it, never a record whose append failed.
CopiesAreInEffect ==
  op = "idle" =>
    /\ Startable(BackupLog) /\ ~ChainBroken(snap, BackupLog)
    /\ Recovered(snap, BackupLog) = applied
    /\ ~poisoned => \E k \in 0 .. Len(applied) : ReadBack = SubSeq(applied, k + 1, Len(applied))

\* The three ways out of the store agree with what is in effect: the audit
\* chain a restart rebuilds, the backup, and what is read back.
WhatLeavesIsTrue == ChainFollowsDisk /\ CopiesAreInEffect

-----------------------------------------------------------------------------
(* The store implements DurableLog *)

\* What a restart may find: the shortest of the histories, and what others
\* add to it.
FoundIn(images, snaps) ==
  {s.covers \o Ids(Later(s.seq, frames)) : s \in snaps, frames \in {ValidPrefix(cells) : cells \in images}}
Found == FoundIn(logImages, snapImages)
Shortest(all) == CHOOSE h \in all : \A g \in all : Len(h) <= Len(g)
Beyond(all) == UNION {{h[i] : i \in Len(Shortest(all)) + 1 .. Len(h)} : h \in all}

Sure == Shortest(Found)
Maybe == Beyond(Found)

Abstract == INSTANCE DurableLog WITH Records <- 1 .. MaxAppends, history <- Sure, doubt <- Maybe

\* Seen through what a restart finds, the store is a history that only grows,
\* with at most one record in doubt.
ImplementsDurableLog == Abstract!Spec
=============================================================================
