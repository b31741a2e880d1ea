--------------------------- MODULE TerminalStream ---------------------------
(***************************************************************************)
(* The output side of one terminal: TerminalState's journal window, its     *)
(* checkpoint, and the fence that the last replacing transition (a resize,  *)
(* a history clear, a deferred reflow) left behind.  Every operation runs   *)
(* under the state mutex, and publication of output and of resizes shares   *)
(* one gate, so each is one step.                                           *)
(*                                                                         *)
(* A byte of output is its sequence number.  The journal retains the bytes  *)
(* earliest .. next - 1 (module OutputJournal shows that its chunks         *)
(* implement this window).  A checkpoint is the boundary it was captured at *)
(* and the geometry revision it represents; what it shows is never looked   *)
(* at.  Option<u64> is a number or None.                                    *)
(***************************************************************************)
EXTENDS Integers, Sequences

CONSTANTS
    Capacity,      \* journal_capacity_bytes
    Interval,      \* checkpoint_interval_bytes
    MaxSequence,   \* bound on the output produced
    MaxRevision    \* bound on the replacing transitions

ASSUME StreamAssumption ==
    /\ Capacity \in Nat \ {0} /\ Interval \in Nat \ {0}
    /\ MaxSequence \in Nat /\ MaxRevision \in Nat

VARIABLES
    next,        \* journal.next_sequence()
    earliest,    \* journal.earliest_sequence()
    boundaries,  \* boundaries[r] is the sequence at which revision r began
    checkpoint,  \* checkpoint.sequence and checkpoint_geometry_revision
    fence,       \* last_geometry_checkpoint; its seq is also
                 \* last_geometry_change_sequence
    ended        \* SessionLifecycle::Ended

streamVars == <<next, earliest, boundaries, checkpoint, fence, ended>>

None == -1
NoCheckpoint == [seq |-> None, rev |-> None]

\* geometry_revision
Revision == Len(boundaries)

Checkpoint == [seq : Nat, rev : Nat]

StreamTypeOK ==
    /\ next \in Nat /\ earliest \in Nat
    /\ boundaries \in Seq(Nat)
    /\ checkpoint \in Checkpoint
    /\ fence \in Checkpoint \cup {NoCheckpoint}
    /\ ended \in BOOLEAN

StreamInit ==
    /\ next = 0 /\ earliest = 0
    /\ boundaries = <<>>
    /\ checkpoint = [seq |-> 0, rev |-> 0]
    /\ fence = NoCheckpoint
    /\ ended = FALSE

Larger(a, b) == IF a > b THEN a ELSE b

\* append_output of n bytes, with refresh_checkpoint_after_output.  The bytes
\* clear the history or complete a deferred reflow when replaced is TRUE.
AppendOutput(n, replaced) ==
    /\ ~ended
    /\ next + n <= MaxSequence
    /\ replaced => Revision < MaxRevision
    /\ next' = next + n
    /\ earliest' = Larger(earliest, next + n - Capacity)
    /\ boundaries' = IF replaced THEN Append(boundaries, next + n) ELSE boundaries
    /\ LET stale == earliest' > checkpoint.seq
           due == next + n - checkpoint.seq >= Interval
       IN checkpoint' = IF stale \/ due \/ replaced
                        THEN [seq |-> next + n, rev |-> Len(boundaries')]
                        ELSE checkpoint
    /\ fence' = IF replaced THEN checkpoint' ELSE fence
    /\ UNCHANGED ended

\* resize_pty to a different size.
ResizePty ==
    /\ Revision < MaxRevision
    /\ boundaries' = Append(boundaries, next)
    /\ checkpoint' = [seq |-> next, rev |-> Revision + 1]
    /\ fence' = checkpoint'
    /\ UNCHANGED <<next, earliest, ended>>

\* publish_ended, after the reader thread has drained the PTY.
PublishEnded ==
    /\ ~ended
    /\ ended' = TRUE
    /\ UNCHANGED <<next, earliest, boundaries, checkpoint, fence>>

\* refresh_checkpoint, the first critical section of fresh_snapshot.
RefreshCheckpoint ==
    /\ checkpoint' = [seq |-> next, rev |-> Revision]
    /\ UNCHANGED <<next, earliest, boundaries, fence, ended>>

\* Mutants: the last replacing transition serves every request that needs a
\* checkpoint, and a client exactly at the fence is not sent it.
SnapshotPrefersFence(requested, revision) ==
    LET journalRequired == requested = None \/ requested < earliest
        geometryRequired == revision < Revision /\ requested <= fence.seq
    IN  IF ~journalRequired /\ ~geometryRequired THEN NoCheckpoint
        ELSE IF fence # NoCheckpoint /\ fence.seq >= earliest THEN fence ELSE checkpoint

SnapshotBeforeFence(requested, revision) ==
    IF requested = None \/ requested < earliest THEN checkpoint
    ELSE IF ~(revision < Revision /\ requested < fence.seq) THEN NoCheckpoint
    ELSE IF fence.seq >= earliest THEN fence ELSE checkpoint

\* snapshot_for_delivery: the checkpoint that must replace the client's screen
\* before it can be sent the bytes from requested on, or NoCheckpoint.
Snapshot(requested, revision) ==
    LET journalRequired == requested = None \/ requested < earliest
        geometryRequired == revision < Revision /\ requested <= fence.seq
    IN  IF journalRequired THEN checkpoint
        ELSE IF ~geometryRequired THEN NoCheckpoint
        ELSE IF fence.seq >= earliest THEN fence ELSE checkpoint
=============================================================================
