----------------------------- MODULE CacheWriter -----------------------------
(***************************************************************************)
(* The desktop application's writer of the cache (CacheWriter) over the      *)
(* store: an attachment enqueues events without waiting, a worker persists   *)
(* them in order.  What does not fit or cannot be saved ends                 *)
(* an epoch: everything else of it is thrown away, the record is marked      *)
(* incomplete, and a checkpoint is asked for that begins the next epoch.     *)
(*                                                                         *)
(* The events come from a server that keeps the newest Limit rows.           *)
(***************************************************************************)
EXTENDS SessionCache

CONSTANTS
    Slots,          \* of the channel
    Permits,        \* of the semaphore: MAX_QUEUED_BYTES
    Seed,           \* rows that come with a checkpoint: MAX_RECENT_HISTORY_LINES
    MaxSequence,    \* bytes of output
    MaxSnapshots,   \* checkpoints whose history is transferred
    MaxTranscript,  \* rows of a legacy transcript
    ClearAt         \* bytes that may clear the history

ASSUME CacheWriterAssumption ==
    /\ Slots \in Nat \ {0} /\ Permits \in Nat \ {0, 1} /\ Seed \in Nat
    /\ {MaxSequence, MaxSnapshots, MaxTranscript} \subseteq Nat
    /\ ClearAt \subseteq Nat

VARIABLES
    sent,       \* output that was given to the writer, as a sequence number
    cleared,    \* the byte that clears the history, if one does
    snapshot,   \* the server's pinned history, until it is transferred
    snapshots,  \* checkpoints so far
    attachment, \* "checkpoint": the first event is one; "open"; "closed"
    queue,      \* writes in the channel
    write,      \* the write that the worker has received
    permit,     \* and it still has its permit
    recovery,   \* Recovery
    asked,      \* a checkpoint has been requested
    worker,     \* where run_writer is
    written,    \* written_epoch
    marked,     \* marked_epoch
    failed      \* the last gap could not be marked, for the properties

streamVars == <<sent, cleared, snapshot, snapshots>>
progress == <<write, permit, worker, written, marked, failed>>
writerVars == <<queue, recovery, asked, progress>>
cacheVars == <<storeVars, streamVars, attachment, writerVars>>

(***************************************************************************)
(* The recovery, under its mutex                                            *)
(***************************************************************************)
Invalidate(r) == [r EXCEPT !.epoch = IF r.waiting THEN @ ELSE @ + 1, !.waiting = TRUE]

\* Recovery::request asks for a checkpoint, once.
Asks(r) == r.waiting /\ ~r.requested
Request(r) == [r EXCEPT !.requested = @ \/ r.waiting]

(***************************************************************************)
(* enqueue                                                                  *)
(***************************************************************************)
\* event_bytes
Size(e) == IF e.kind \in {"checkpoint", "synced"} THEN 2 ELSE 1

Held(writes) == FoldSeq(LAMBDA w, total : total + Size(w.event), 0, writes)

Fits(e) ==
    /\ Len(queue) < Slots
    /\ Held(queue) + (IF permit THEN Size(write.event) ELSE 0) + Size(e) <= Permits

\* Mutant: a checkpoint that does not fit leaves its request open.
RefuseKeepsRequest(checkpoint) ==
    LET r == Invalidate(recovery) IN
    /\ recovery' = Request(r)
    /\ asked' = (Asks(r) \/ (asked /\ ~checkpoint))

\* The event does not fit.  A checkpoint that was waited for is asked for again
\* by the worker, when it has made room.
Refuse(checkpoint) ==
    LET r == Invalidate(recovery) IN
    IF checkpoint /\ recovery.waiting
    THEN recovery' = [r EXCEPT !.requested = FALSE] /\ asked' = FALSE
    ELSE recovery' = Request(r) /\ asked' = (Asks(r) \/ (asked /\ ~checkpoint))

\* enqueue; a checkpoint answers what was asked.
Enqueue(e) ==
    LET checkpoint == e.kind = "checkpoint" IN
    /\ \/ /\ recovery.waiting /\ ~checkpoint
          /\ UNCHANGED <<queue, recovery, asked>>
       \/ /\ recovery.waiting => checkpoint
          /\ Fits(e)
          /\ queue' = Append(queue, [event |-> e, epoch |-> recovery.epoch])
          /\ recovery' = IF checkpoint THEN [recovery EXCEPT !.waiting = FALSE, !.requested = FALSE]
                         ELSE recovery
          /\ asked' = (asked /\ ~checkpoint)
       \/ /\ recovery.waiting => checkpoint
          /\ ~Fits(e)
          /\ Refuse(checkpoint)
          /\ UNCHANGED queue
    /\ UNCHANGED <<disk, progress>>

(***************************************************************************)
(* The events of an attachment                                              *)
(***************************************************************************)
\* What the server's history at sequence s begins with, and would begin with
\* if its capacity were unlimited.
Base(s) == IF cleared # None /\ s > cleared THEN cleared + 1 ELSE 0
Later(m, n) == IF m > n THEN m ELSE n
Retained(s) == IF s > Limit THEN Later(Base(s), s - Limit) ELSE Base(s)

\* A checkpoint at s, whose history is transferred later or complete.
CheckpointEvent(s, transfer) ==
    [kind |-> "checkpoint", seq |-> s,
     first |-> IF transfer /\ s > Seed THEN Later(Retained(s), s - Seed) ELSE Retained(s),
     id |-> IF transfer THEN snapshots + 1 ELSE None, gap |-> Retained(s) > Base(s)]

Checkpoint(transfer) ==
    \E s \in sent .. MaxSequence :
        /\ s <= sent + 1
        /\ transfer => snapshots < MaxSnapshots
        /\ Enqueue(CheckpointEvent(s, transfer))
        /\ attachment' = "open"
        /\ sent' = s
        /\ snapshots' = IF transfer THEN snapshots + 1 ELSE snapshots
        /\ snapshot' = IF transfer THEN [id |-> snapshots + 1, seq |-> s] ELSE None
        /\ UNCHANGED <<incidents, cleared>>

\* The server sends a checkpoint because the attachment is new, because it was
\* asked to, or because the client was too slow for its output.
InitialCheckpoint == attachment = "checkpoint" /\ \E transfer \in BOOLEAN : Checkpoint(transfer)
AnswerCheckpoint == attachment = "open" /\ asked /\ \E transfer \in BOOLEAN : Checkpoint(transfer)
SendCheckpoint == attachment = "open" /\ Checkpoint(TRUE)

SendOutput ==
    \E to \in sent + 1 .. MaxSequence :
        /\ attachment = "open" /\ to <= sent + 2
        /\ cleared \in sent .. to - 1 => to = sent + 1
        /\ Enqueue([kind |-> "output", from |-> sent, to |-> to, clear |-> cleared = sent])
        /\ sent' = to
        /\ UNCHANGED <<incidents, cleared, snapshot, snapshots, attachment>>

SendResize ==
    /\ attachment = "open"
    /\ Incident
    /\ Enqueue([kind |-> "resize", seq |-> sent])
    /\ UNCHANGED <<sent, cleared, snapshot, snapshots, attachment>>

\* The transfer of the history that was pinned at a checkpoint is complete.
SendHistory ==
    /\ attachment = "open" /\ snapshot # None
    /\ Enqueue([kind |-> "synced", id |-> snapshot.id, from |-> Retained(snapshot.seq),
                gap |-> Retained(snapshot.seq) > Base(snapshot.seq)])
    /\ snapshot' = None
    /\ UNCHANGED <<incidents, sent, cleared, snapshots, attachment>>

(***************************************************************************)
(* run_writer                                                               *)
(***************************************************************************)
\* A write is received; one of an epoch that is over is not persisted.
Receive ==
    /\ worker = "idle" /\ queue # <<>>
    /\ queue' = Tail(queue)
    /\ write' = Head(queue) /\ permit' = TRUE
    /\ worker' = IF Head(queue).epoch = recovery.epoch THEN "persist" ELSE "release"
    /\ UNCHANGED <<storeVars, streamVars, attachment, recovery, asked, written, marked, failed>>

\* The result of persist, for an event of the epoch that is being written.
Persisted(ok) ==
    LET checkpoint == ok /\ write.event.kind = "checkpoint" IN
    /\ written' = IF checkpoint THEN write.epoch ELSE written
    /\ failed' = (failed /\ ~checkpoint)
    /\ recovery' = IF ok THEN recovery ELSE Invalidate(recovery)

\* The event is applied, or the store fails.
Persist ==
    /\ worker = "persist"
    /\ \E applied \in {Apply(disk, write.event)} :
       \/ /\ Perform(applied.steps)
          /\ Persisted(applied.ok)
          /\ UNCHANGED incidents
       \/ /\ Incident
          /\ Interrupt(applied.steps)
          /\ Persisted(FALSE)
    /\ worker' = "release"
    /\ UNCHANGED <<streamVars, attachment, queue, asked, write, permit, marked>>

Release ==
    /\ worker = "release"
    /\ permit' = FALSE /\ write' = None
    /\ worker' = "settle"
    /\ UNCHANGED <<storeVars, streamVars, attachment, queue, recovery, asked, written, marked, failed>>

\* The record must be marked as incomplete: the epoch has no checkpoint on disk.
Unmarked == written # recovery.epoch /\ marked # recovery.epoch

\* Mutant: a gap is marked once in the life of a writer.
SettleMarked ==
    /\ worker = "settle"
    /\ recovery' = Request(recovery)
    /\ asked' = (asked \/ Asks(recovery))
    /\ marked' = IF marked = None /\ Unmarked THEN recovery.epoch ELSE marked
    /\ worker' = IF marked = None /\ Unmarked THEN "mark" ELSE "idle"
    /\ UNCHANGED <<storeVars, streamVars, attachment, queue, write, permit, written, failed>>

\* The worker looks at the recovery when it has made room.
Settle ==
    /\ worker = "settle"
    /\ recovery' = Request(recovery)
    /\ asked' = (asked \/ Asks(recovery))
    /\ marked' = IF Unmarked THEN recovery.epoch ELSE marked
    /\ worker' = IF Unmarked THEN "mark" ELSE "idle"
    /\ UNCHANGED <<storeVars, streamVars, attachment, queue, write, permit, written, failed>>

\* mark_history_gap, which fails if there is no record.
Mark ==
    /\ worker \in {"mark", "last"}
    /\ \/ Found(disk.live) /\ disk' = MarkHistoryGap(disk) /\ failed' = FALSE /\ UNCHANGED incidents
       \/ ~Found(disk.live) /\ failed' = TRUE /\ UNCHANGED storeVars
       \/ Incident /\ failed' = TRUE /\ UNCHANGED disk
    /\ worker' = IF worker = "mark" THEN "idle" ELSE "ended"
    /\ UNCHANGED <<streamVars, attachment, queue, recovery, asked, write, permit, written, marked>>

\* The channel is closed and empty.
End ==
    /\ worker = "idle" /\ queue = <<>> /\ attachment = "closed"
    /\ worker' = IF Unmarked THEN "last" ELSE "ended"
    /\ UNCHANGED <<storeVars, streamVars, attachment, queue, recovery, asked, write, permit, written, marked,
                   failed>>

Places == {"idle", "persist", "release", "settle", "mark", "last", "ended"}

(***************************************************************************)
(* Attachments                                                              *)
(***************************************************************************)
NewWriter ==
    /\ queue' = <<>> /\ write' = None /\ permit' = FALSE
    /\ recovery' = [epoch |-> 0, waiting |-> FALSE, requested |-> FALSE]
    /\ asked' = FALSE
    /\ worker' = "idle" /\ written' = 0 /\ marked' = None

\* The attachment ends: finish closes the channel and awaits the worker.
Close ==
    /\ attachment = "open"
    /\ Incident
    /\ attachment' = "closed" /\ asked' = FALSE
    /\ UNCHANGED <<disk, streamVars, queue, recovery, progress>>

\* A new attachment starts with a checkpoint, or from where the renderer was.  The
\* bridge of the one before has awaited its writer (finish); a bridge that was
\* aborted after its deadline has not, and is left out.
Reattach ==
    /\ attachment = "closed" /\ worker = "ended"
    /\ \/ attachment' = "checkpoint" /\ UNCHANGED sent
       \/ attachment' = "open" /\ sent' \in {s \in 0 .. sent : s >= sent - 1}
    /\ snapshot' = None
    /\ NewWriter
    /\ UNCHANGED <<storeVars, cleared, snapshots, failed>>

\* The application is killed, perhaps while it saves an event, and started again.
Kill ==
    /\ Incident
    /\ \/ worker # "persist" /\ UNCHANGED disk
       \/ worker = "persist" /\ Interrupt(Apply(disk, write.event).steps)
    /\ attachment' = "checkpoint"
    /\ snapshot' = None
    /\ NewWriter
    /\ failed' = FALSE
    /\ UNCHANGED <<sent, cleared, snapshots>>

StoreNext == StoreStep /\ UNCHANGED <<streamVars, attachment, writerVars>>

\* A directory with a record of the rows that were sent, as an earlier version
\* wrote it, or as an archive of this one.
LegacyDirectory(n) ==
    [exists |-> TRUE, files |-> WriteFile(<<>>, LegacyFile, Rows(0, n)),
     current |-> [NewCurrent EXCEPT !.version = 1, !.seq = n, !.file = LegacyFile, !.end = n]]
ArchivedDirectory(n) ==
    [exists |-> TRUE, files |-> WriteFile(<<>>, 1, Rows(0, n)),
     current |-> [NewCurrent EXCEPT !.seq = n, !.file = 1, !.end = n, !.synced = TRUE]]

Init ==
    /\ \E d \in {EmptyDisk,
                 [EmptyDisk EXCEPT !.live = LegacyDirectory(MaxTranscript),
                                   !.saved = View(LegacyDirectory(MaxTranscript)),
                                   !.transcript = Rows(0, MaxTranscript)],
                 [EmptyDisk EXCEPT !.archived = ArchivedDirectory(MaxTranscript),
                                   !.saved = View(ArchivedDirectory(MaxTranscript))]} :
         /\ disk = d
         /\ sent = IF d.saved = None THEN 0 ELSE MaxTranscript
    /\ incidents = 0
    /\ cleared \in {None} \cup ClearAt
    /\ cleared # None => sent <= cleared
    /\ snapshot = None /\ snapshots = 0
    /\ attachment = "checkpoint"
    /\ queue = <<>> /\ write = None /\ permit = FALSE
    /\ recovery = [epoch |-> 0, waiting |-> FALSE, requested |-> FALSE]
    /\ asked = FALSE /\ worker = "idle" /\ written = 0 /\ marked = None /\ failed = FALSE

Next ==
    \/ InitialCheckpoint \/ AnswerCheckpoint \/ SendCheckpoint \/ SendOutput \/ SendResize \/ SendHistory
    \/ Receive \/ Persist \/ Release \/ Settle \/ Mark \/ End
    \/ Close \/ Reattach \/ Kill \/ StoreNext

\* Where the worker can go on from: every step of it changes where it is.
Ready ==
    \/ worker \in {"persist", "release", "settle", "mark", "last"}
    \/ worker = "idle" /\ (queue # <<>> \/ attachment = "closed")

\* The worker goes on while it can, and a server that was asked for a checkpoint
\* sends one.  Nothing is assumed of the user or of other events.
Fairness ==
    /\ WF_worker(Ready /\ worker' \in Places \ {worker})
    /\ WF_cacheVars(AnswerCheckpoint)

Spec == Init /\ [][Next]_cacheVars /\ Fairness

(***************************************************************************)
(* Properties                                                               *)
(***************************************************************************)
\* "Data commits precede the atomic current manifest, so interrupted tails
\* remain invisible": whatever was killed or failed, and wherever the live
\* directory and its archive are being moved, a reader finds the record that
\* was committed last, with its whole history; and a legacy transcript is
\* either still the record or preserved beside it.
Durable ==
    /\ disk.saved # None => View(Visible) = disk.saved
    /\ disk.transcript # <<>> =>
         \/ disk.preserved = disk.transcript
         \/ Visible.current.version = 1 /\ History(Visible) = disk.transcript

\* Cached history is never stitched together wrongly: what can be read is a
\* run of rows without hole or repetition that ends at the record's sequence,
\* and that lacks nothing unless it says so.
HistoryExact ==
    \A d \in {disk.live, disk.archived, disk.previous} : Found(d) /\ Intact(d) =>
        LET c == d.current
            first == c.seq - Len(History(d)) IN
        /\ History(d) = Rows(first, c.seq)
        /\ first >= Base(c.seq) /\ (first > Base(c.seq) => ShownGap(c))

\* Output that was dropped does not go unnoticed: when the writer has nothing
\* more to do and the record is behind, the record says so, unless saying so
\* failed as well.
GapShown ==
    /\ worker \in {"idle", "ended"} /\ queue = <<>> /\ attachment # "checkpoint"
    /\ Found(disk.live) /\ disk.live.current.seq < sent /\ ~failed
    => ShownGap(disk.live.current)

\* A writer that waits for a checkpoint gets one into its queue, though the
\* queue is full, the disk slow or the checkpoint lost on the way.
WriterRecovers == recovery.waiting ~> (~recovery.waiting \/ attachment # "open")
=============================================================================
