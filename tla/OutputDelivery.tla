--------------------------- MODULE OutputDelivery ---------------------------
(***************************************************************************)
(* Delivery of one terminal's output to one attachment, on the daemon's     *)
(* side: the connection task of drive_attachment with its presentation      *)
(* window, the terminal's event broadcast, and the transport.  The client   *)
(* is module AttachmentController, which also has the specification.        *)
(*                                                                         *)
(* The task awaits between any two frames it writes, so the terminal may    *)
(* produce output, resize or end there.  Delivery does not depend on other  *)
(* attachments, so one is enough.                                           *)
(***************************************************************************)
EXTENDS TerminalStream, SequencesExt

CONSTANTS
    Window,          \* presentation_window_bytes
    FrameLimit,      \* MAX_OUTPUT_FRAME_BYTES
    MinCharge,       \* MIN_OUTPUT_FRAME_CHARGE_BYTES
    EventCapacity    \* capacity of the broadcast channel

ASSUME DeliveryAssumption ==
    /\ Window \in Nat \ {0} /\ FrameLimit \in Nat \ {0} /\ MinCharge \in Nat
    /\ EventCapacity \in Nat \ {0}

VARIABLES
    events,             \* the attachment's receiver of SessionEvents
    lagged,             \* the receiver lost its oldest events
    pc,                 \* where the connection task is
    requested,          \* resume_from of this connection
    sent,               \* sent_sequence
    revision,           \* checkpoint_geometry_revision, or None
    applied,            \* applied_sequence, or None while a checkpoint is pending
    inFlight,           \* in_flight_output
    charge,             \* in_flight_charge_bytes
    pendingCheckpoint,  \* request_checkpoint received and not yet served
    pendingEnd,         \* final_sequence of the pending session end, or None
    pinned,             \* a pinned history transfer is neither complete nor expired
    toClient,           \* frames on the transport
    toServer            \* client messages: presentation_applied, by its sequence,
                        \* and request_checkpoint, by None

driverVars == <<requested, sent, revision, applied, inFlight, charge,
                pendingCheckpoint, pendingEnd, pinned>>
transport == <<toClient, toServer>>
deliveryVars == <<streamVars, events, lagged, pc, driverVars, transport>>

\* The task: detached (there is none), preparing its initial snapshot, in its
\* select, at one of the points of send_available_output, or returned.
Phases == {"detached", "subscribed", "refreshed", "idle", "enter", "fresh", "loop", "closed"}

\* Frames the daemon writes.  An attached reply says where replay starts and
\* may carry a checkpoint.
Output(from, to) == [kind |-> "output", from |-> from, to |-> to, rev |-> None]
Replace(cp) == [kind |-> "checkpoint", from |-> None, to |-> cp.seq, rev |-> cp.rev]
Attached(from, cp) == [kind |-> "attached", from |-> from, to |-> cp.seq, rev |-> cp.rev]
Ended == [kind |-> "ended", from |-> None, to |-> None, rev |-> None]

Frame == [kind : {"output", "checkpoint", "attached", "ended"},
          from : Nat \cup {None}, to : Nat \cup {None}, rev : Nat \cup {None}]

Event == [kind : {"output", "geometry", "ended"},
          seq : Nat \cup {None}, rev : Nat \cup {None}]

DeliveryTypeOK ==
    /\ StreamTypeOK
    /\ events \in Seq(Event) /\ lagged \in BOOLEAN
    /\ pc \in Phases
    /\ requested \in Nat \cup {None}
    /\ sent \in Nat
    /\ revision \in Nat \cup {None} /\ applied \in Nat \cup {None}
    /\ inFlight \in Seq([end : Nat, charge : Nat]) /\ charge \in Nat
    /\ pendingCheckpoint \in BOOLEAN /\ pinned \in BOOLEAN
    /\ pendingEnd \in Nat \cup {None}
    /\ toClient \in Seq(Frame)
    /\ toServer \in Seq(Nat \cup {None})

(***************************************************************************)
(* The terminal and its broadcast.                                          *)
(***************************************************************************)
Listening == pc \notin {"detached", "closed"}

\* broadcast::Sender::send, as the attachment's receiver sees it: the oldest
\* event makes room, and the receiver is told that it lagged.
Broadcast(e) ==
    IF ~Listening THEN UNCHANGED <<events, lagged>>
    ELSE IF Len(events) = EventCapacity
         THEN events' = Append(Tail(events), e) /\ lagged' = TRUE
         ELSE events' = Append(events, e) /\ UNCHANGED lagged

ReadPty(n, replaced) ==
    /\ AppendOutput(n, replaced)
    /\ Broadcast([kind |-> "output", seq |-> None, rev |-> None])
    /\ UNCHANGED <<pc, driverVars, transport>>

Resize ==
    /\ ResizePty
    /\ Broadcast([kind |-> "geometry", seq |-> next, rev |-> Revision + 1])
    /\ UNCHANGED <<pc, driverVars, transport>>

End ==
    /\ PublishEnded
    /\ Broadcast([kind |-> "ended", seq |-> None, rev |-> None])
    /\ UNCHANGED <<pc, driverVars, transport>>

(***************************************************************************)
(* Connecting.                                                              *)
(***************************************************************************)
\* prepare_attachment or prepare_resumed_attachment: subscribes to the events
\* before any state is read, and is refused once the terminal has ended.
Attach(from) ==
    /\ pc = "detached" /\ ~ended
    /\ requested' = from
    /\ events' = <<>> /\ lagged' = FALSE
    /\ pc' = "subscribed"
    /\ UNCHANGED <<streamVars, sent, revision, applied, inFlight, charge, pendingCheckpoint,
                   pendingEnd, pinned, transport>>

\* handle_attach once it has its snapshot, with the checkpoint in it: the
\* attached reply, and the state drive_attachment starts with.
Start(cp, incomplete) ==
    /\ sent' = IF cp = NoCheckpoint THEN requested ELSE cp.seq
    /\ revision' = cp.rev
    /\ applied' = IF cp = NoCheckpoint THEN requested ELSE None
    /\ inFlight' = <<>> /\ charge' = 0
    /\ pendingCheckpoint' = FALSE /\ pendingEnd' = None
    /\ pinned' = (cp # NoCheckpoint /\ incomplete)
    /\ toClient' = <<Attached(sent', cp)>>
    /\ toServer' = <<>>
    /\ pc' = "enter"
    /\ UNCHANGED <<events, lagged, requested>>

\* take_initial_snapshot of a resumed stream: one critical section.
TakeInitialSnapshot(incomplete) ==
    /\ pc = "subscribed" /\ requested # None
    /\ Start(Snapshot(requested, None), incomplete)
    /\ UNCHANGED streamVars

\* take_initial_snapshot of a fresh stream: fresh_snapshot refreshes the
\* checkpoint in one critical section ...
RefreshInitial ==
    /\ pc = "subscribed" /\ requested = None
    /\ RefreshCheckpoint
    /\ pc' = "refreshed"
    /\ UNCHANGED <<events, lagged, driverVars, transport>>

\* ... and reads it in another.
TakeFreshInitialSnapshot(incomplete) ==
    /\ pc = "refreshed"
    /\ Start(Snapshot(None, None), incomplete)
    /\ UNCHANGED streamVars

\* The connection task and its LiveAttachment are gone.
ForgetDriver ==
    /\ requested' = None /\ sent' = 0 /\ revision' = None /\ applied' = None
    /\ inFlight' = <<>> /\ charge' = 0
    /\ pendingCheckpoint' = FALSE /\ pendingEnd' = None /\ pinned' = FALSE

\* The transport fails, or the liveness deadline passes.  Whatever was under
\* way in either direction is lost.
Disconnect ==
    /\ pc # "detached"
    /\ pc' = "detached"
    /\ toClient' = <<>> /\ toServer' = <<>>
    /\ events' = <<>> /\ lagged' = FALSE
    /\ ForgetDriver
    /\ UNCHANGED streamVars

(***************************************************************************)
(* The select of drive_attachment.                                          *)
(***************************************************************************)
\* process_session_event, Lagged: delivery only needs the current state.
RecoverFromLag ==
    /\ pc = "idle" /\ lagged
    /\ lagged' = FALSE
    /\ pc' = "enter"
    /\ UNCHANGED <<streamVars, events, driverVars, transport>>

\* geometry_event_is_stale
Stale(e) == e.rev <= revision \/ e.seq < sent

\* process_session_event
ProcessEvent ==
    LET e == Head(events) IN
    /\ pc = "idle" /\ ~lagged /\ events # <<>>
    /\ events' = Tail(events)
    /\ pc' = IF e.kind = "geometry" /\ Stale(e) THEN "idle" ELSE "enter"
    /\ pendingEnd' = IF e.kind = "ended" THEN next ELSE pendingEnd
    /\ UNCHANGED <<streamVars, lagged, requested, sent, revision, applied, inFlight, charge,
                   pendingCheckpoint, pinned, transport>>

\* Mutant: the end is sent while output is waiting for credit.
DrainedEarly == pendingEnd # None /\ ~pinned

\* send_session_end_if_drained runs before a client message is looked at.
Drained == pendingEnd # None /\ sent >= pendingEnd /\ ~pinned

\* The conditions of accept_presentation_progress.
Acceptable(n) ==
    /\ n <= sent
    /\ IF applied = None
       THEN n = sent /\ inFlight = <<>>
       ELSE n = applied \/ (n > applied /\ \E i \in DOMAIN inFlight : inFlight[i].end = n)

SumCharges(deliveries) == SumFunction([i \in 1..Len(deliveries) |-> deliveries[i].charge])

\* How many deliveries the loop that pops the front of in_flight_output releases.
Released(n) ==
    CHOOSE k \in 0..Len(inFlight) :
        /\ \A i \in 1..k : inFlight[i].end <= n
        /\ k < Len(inFlight) => inFlight[k + 1].end > n

\* Mutant: credit comes back, and nobody uses it.
AcknowledgeOnly ==
    LET n == Head(toServer) IN
    /\ pc = "idle" /\ ~Drained
    /\ toServer # <<>> /\ n # None
    /\ toServer' = Tail(toServer)
    /\ applied' = n
    /\ inFlight' = SubSeq(inFlight, Released(n) + 1, Len(inFlight))
    /\ charge' = SumCharges(inFlight')
    /\ UNCHANGED <<streamVars, events, lagged, pc, requested, sent, revision, pendingCheckpoint,
                   pendingEnd, pinned, toClient>>

\* PresentationApplied.  A rejected acknowledgement changes nothing.
ProcessAcknowledgement ==
    LET n == Head(toServer) IN
    /\ pc = "idle" /\ ~Drained
    /\ toServer # <<>> /\ n # None
    /\ toServer' = Tail(toServer)
    /\ IF Acceptable(n)
       THEN /\ applied' = n
            /\ inFlight' = SubSeq(inFlight, Released(n) + 1, Len(inFlight))
            /\ charge' = Larger(0, charge - SumCharges(SubSeq(inFlight, 1, Released(n))))
            /\ pc' = "enter"
       ELSE UNCHANGED <<applied, inFlight, charge, pc>>
    /\ UNCHANGED <<streamVars, events, lagged, requested, sent, revision, pendingCheckpoint,
                   pendingEnd, pinned, toClient>>

\* RequestCheckpoint.
ProcessRequestCheckpoint ==
    /\ pc = "idle" /\ ~Drained
    /\ toServer # <<>> /\ Head(toServer) = None
    /\ toServer' = Tail(toServer)
    /\ pendingCheckpoint' = TRUE
    /\ pc' = "enter"
    /\ UNCHANGED <<streamVars, events, lagged, requested, sent, revision, applied, inFlight,
                   charge, pendingEnd, pinned, toClient>>

\* Mutant: an ended session waits for its history however long it is idle.
HistoryKeptAtEnd ==
    /\ pc = "idle" /\ pinned /\ pendingEnd = None
    /\ pinned' = FALSE
    /\ UNCHANGED <<streamVars, events, lagged, pc, requested, sent, revision, applied, inFlight,
                   charge, pendingCheckpoint, pendingEnd, transport>>

\* The last page of the pinned history is served, or its idle time is over.
FinishHistory ==
    /\ pc = "idle" /\ pinned
    /\ pinned' = FALSE
    /\ UNCHANGED <<streamVars, events, lagged, pc, requested, sent, revision, applied, inFlight,
                   charge, pendingCheckpoint, pendingEnd, transport>>

\* send_session_end_if_drained
SendSessionEnd ==
    /\ pc = "idle" /\ Drained
    /\ toClient' = Append(toClient, Ended)
    /\ pc' = "closed"
    /\ UNCHANGED <<streamVars, events, lagged, driverVars, toServer>>

(***************************************************************************)
(* send_available_output.                                                   *)
(***************************************************************************)
\* Its first two conditions.  A requested checkpoint waits for the frames in
\* flight; serving it refreshes the checkpoint first.
EnterSend ==
    LET fresh == pendingCheckpoint /\ inFlight = <<>> IN
    /\ pc = "enter"
    /\ pc' = IF applied = None THEN "idle" ELSE IF fresh THEN "fresh" ELSE "loop"
    /\ IF applied # None /\ fresh THEN RefreshCheckpoint ELSE UNCHANGED streamVars
    /\ UNCHANGED <<events, lagged, driverVars, transport>>

\* send_checkpoint
SendCheckpoint(cp, incomplete) ==
    /\ toClient' = Append(toClient, Replace(cp))
    /\ pinned' = incomplete
    /\ sent' = cp.seq
    /\ applied' = None
    /\ revision' = cp.rev
    /\ pc' = "idle"
    /\ UNCHANGED <<streamVars, events, lagged, requested, inFlight, charge, pendingEnd,
                   toServer>>

SendFresh(incomplete) ==
    /\ pc = "fresh"
    /\ pendingCheckpoint' = FALSE
    /\ SendCheckpoint(Snapshot(None, None), incomplete)

\* Mutant: the window bounds a frame, not what is in flight.
WholeWindow == Window

\* One turn of the loop: the window is full, ...
Available == Larger(0, Window - charge)

ReturnToSelect ==
    /\ pc' = "idle"
    /\ UNCHANGED <<streamVars, events, lagged, driverVars, transport>>

\* ... or the client's screen must be replaced first, which waits for the
\* frames in flight ...
SendReplacement(incomplete) ==
    /\ pc = "loop" /\ Available > 0
    /\ inFlight = <<>>
    /\ UNCHANGED pendingCheckpoint
    /\ Snapshot(sent, revision) # NoCheckpoint
    /\ SendCheckpoint(Snapshot(sent, revision), incomplete)

\* ... or a frame of output fits: coalesce_output_chunks and output_frame_charge.
FrameCharge(bytes) == Larger(bytes, IF Window < MinCharge THEN Window ELSE MinCharge)

FrameEnd(to) ==
    LET limit == IF Available < FrameLimit THEN Available ELSE FrameLimit IN
    to = IF sent + limit < next THEN sent + limit ELSE next

SendOutput ==
    /\ pc = "loop" /\ Available > 0
    /\ Snapshot(sent, revision) = NoCheckpoint
    /\ \E to \in (sent + 1)..next :
         /\ FrameEnd(to)
         /\ FrameCharge(to - sent) <= Available
         /\ toClient' = Append(toClient, Output(sent, to))
         /\ sent' = to
         /\ charge' = charge + FrameCharge(to - sent)
         /\ inFlight' = Append(inFlight, [end |-> to, charge |-> FrameCharge(to - sent)])
    /\ UNCHANGED <<streamVars, events, lagged, pc, requested, revision, applied,
                   pendingCheckpoint, pendingEnd, pinned, toServer>>

\* ... or there is nothing to send now.
StopSending ==
    /\ pc = "loop"
    /\ \/ Available = 0
       \/ Snapshot(sent, revision) # NoCheckpoint /\ inFlight # <<>>
       \/ /\ Snapshot(sent, revision) = NoCheckpoint
          /\ \A to \in (sent + 1)..next : FrameEnd(to) => FrameCharge(to - sent) > Available
    /\ ReturnToSelect

=============================================================================
