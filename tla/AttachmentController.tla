------------------------ MODULE AttachmentController ------------------------
(***************************************************************************)
(* The client end of an attachment: ctmux_client's AttachmentController     *)
(* with its presentation ledger, resume cursor and writer task, and the     *)
(* renderer that applies what the controller queues for it.                 *)
(*                                                                         *)
(* Two renderers are modelled.  attach_interactive (Interactive = TRUE)     *)
(* writes to the local terminal, resumes from the controller's cursor, may  *)
(* find its grid incompatible with a checkpoint, and is dropped as soon as  *)
(* the controller returns.  The desktop's xterm renderer (Interactive =     *)
(* FALSE) keeps the cursor of what it has applied itself and goes on        *)
(* applying queued events after the controller has returned because the     *)
(* session ended.                                                           *)
(*                                                                         *)
(* The transport may be lost at any point.  The client then attaches again  *)
(* from its cursor, or from nothing.                                        *)
(***************************************************************************)
EXTENDS OutputDelivery

CONSTANTS
    Interactive,     \* which renderer
    QueueCapacity,   \* event_queue_capacity
    MaxConnections,  \* bound on the transports used
    MaxRequests      \* bound on request_checkpoint messages

ASSUME ControllerAssumption ==
    /\ Interactive \in BOOLEAN
    /\ QueueCapacity \in Nat \ {0}
    /\ MaxConnections \in Nat /\ MaxRequests \in Nat

VARIABLES
    running,          \* AttachmentController::run has not returned
    received,         \* received_sequence
    resume,           \* resume_sequence
    needsCheckpoint,  \* renderer_requires_checkpoint
    ledger,           \* pending_presentations
    presented,        \* the renderer has applied the head of the ledger and
                      \* its acknowledgement is on the way
    progress,         \* the presentation_progress watch
    progressDue,      \* ... has changed since the writer looked
    screen,           \* boundary and revision the renderer shows, or Unknown
    ending,           \* session_ended is queued for the renderer
    told,             \* the user was told that the session ended
    connections,      \* transports used
    requests          \* checkpoints requested

controllerVars == <<running, received, resume, needsCheckpoint, ledger, presented,
                    progress, progressDue>>
userVars == <<screen, ending, told, connections, requests>>
clientVars == <<controllerVars, userVars>>
vars == <<deliveryVars, clientVars>>

\* A screen that shows no state the terminal was in.
Unknown == [pos |-> None, rev |-> None]

TypeOK ==
    /\ DeliveryTypeOK
    /\ running \in BOOLEAN /\ needsCheckpoint \in BOOLEAN
    /\ presented \in BOOLEAN /\ progressDue \in BOOLEAN
    /\ received \in Nat
    /\ resume \in Nat \cup {None} /\ progress \in Nat \cup {None}
    /\ ledger \in Seq(Frame) /\ Len(ledger) <= QueueCapacity
    /\ presented => ledger # <<>>
    /\ screen \in [pos : Nat, rev : Nat] \cup {Unknown}
    /\ ending \in BOOLEAN /\ told \in BOOLEAN
    /\ connections \in 0..MaxConnections /\ requests \in 0..MaxRequests

(***************************************************************************)
(* Connecting and losing the connection.                                    *)
(***************************************************************************)
\* Mutant: the client resumes from what it received.
CursorReceived == IF connections = 0 THEN None ELSE received

\* What the client may pass as resume_from: AttachExit.next_sequence, or the
\* sequence the renderer recorded with its last complete presentation.
Cursor == IF Interactive THEN resume ELSE screen.pos

Connect(from) ==
    /\ ~told /\ ~ending
    /\ connections < MaxConnections
    /\ Attach(from)
    /\ connections' = connections + 1
    /\ UNCHANGED <<controllerVars, screen, ending, told, requests>>

\* The controller returns ConnectionClosed.  Its resume cursor survives; what
\* it had queued for the renderer does not.
LoseConnection ==
    /\ Disconnect
    /\ running' = FALSE
    /\ ledger' = IF ending THEN ledger ELSE <<>>
    /\ presented' = FALSE /\ progressDue' = FALSE
    /\ UNCHANGED <<received, resume, needsCheckpoint, progress, userVars>>

\* AttachmentState::from_attached, AttachmentController::new, and the initial
\* checkpoint queued by drive.  An interactive terminal may have another grid.
ReceiveAttached(compatible) ==
    LET f == Head(toClient)
        restored == f.to # None IN
    /\ pc # "detached" /\ ~running
    /\ toClient # <<>> /\ f.kind = "attached"
    /\ toClient' = Tail(toClient)
    /\ running' = TRUE
    /\ received' = f.from
    /\ needsCheckpoint' = (restored \/ ~compatible)
    /\ resume' = IF needsCheckpoint' THEN None ELSE f.from
    /\ ledger' = IF restored THEN <<Replace([seq |-> f.to, rev |-> f.rev])>> ELSE <<>>
    /\ presented' = FALSE /\ progress' = None /\ progressDue' = FALSE
    /\ screen' = IF compatible THEN screen ELSE Unknown
    /\ UNCHANGED <<streamVars, events, lagged, pc, driverVars, toServer,
                   ending, told, connections, requests>>

(***************************************************************************)
(* The controller.  It takes a frame only while the ledger has room.        *)
(***************************************************************************)
TakesFrame(kind) ==
    /\ running
    /\ Len(ledger) < QueueCapacity
    /\ toClient # <<>> /\ Head(toClient).kind = kind

\* The conditions of accept_output and accept_checkpoint.  FramesAccepted below
\* is why no action ends the controller with the error they return otherwise.
Accepted(f) ==
    CASE f.kind = "output" -> f.from = received
      [] f.kind = "checkpoint" -> f.to >= received
      [] OTHER -> TRUE

ProcessOutput ==
    LET f == Head(toClient) IN
    /\ TakesFrame("output") /\ Accepted(f)
    /\ toClient' = Tail(toClient)
    /\ received' = f.to
    /\ ledger' = Append(ledger, f)
    /\ UNCHANGED <<streamVars, events, lagged, pc, driverVars, toServer, running, resume,
                   needsCheckpoint, presented, progress, progressDue, userVars>>

ProcessCheckpoint ==
    LET f == Head(toClient) IN
    /\ TakesFrame("checkpoint") /\ Accepted(f)
    /\ toClient' = Tail(toClient)
    /\ received' = f.to
    /\ resume' = None
    /\ needsCheckpoint' = TRUE
    /\ ledger' = Append(ledger, f)
    /\ UNCHANGED <<streamVars, events, lagged, pc, driverVars, toServer, running, presented,
                   progress, progressDue, userVars>>

\* What is queued for the renderer.
Queued == IF presented THEN Tail(ledger) ELSE ledger

\* Mutant: what is queued for the renderer is dropped at the end.
EndDropsQueue ==
    /\ TakesFrame("ended")
    /\ toClient' = Tail(toClient)
    /\ running' = FALSE
    /\ ledger' = <<>>
    /\ presented' = FALSE /\ progressDue' = FALSE
    /\ ending' = TRUE
    /\ UNCHANGED <<streamVars, events, lagged, pc, driverVars, toServer, received, resume,
                   needsCheckpoint, progress, screen, told, connections, requests>>

\* process_session_ended: the controller returns.  With it goes the interactive
\* renderer, and all that is queued for it.
ProcessSessionEnded ==
    /\ TakesFrame("ended")
    /\ toClient' = Tail(toClient)
    /\ running' = FALSE
    /\ ledger' = IF Interactive THEN <<>> ELSE Queued
    /\ presented' = FALSE /\ progressDue' = FALSE
    /\ ending' = ~Interactive
    /\ told' = Interactive
    /\ UNCHANGED <<streamVars, events, lagged, pc, driverVars, toServer, received, resume,
                   needsCheckpoint, progress, screen, connections, requests>>

\* Mutant: any acknowledgement sets the cursor.
AcceptAsCursor ==
    LET f == Head(ledger) IN
    /\ running /\ presented
    /\ ledger' = Tail(ledger)
    /\ presented' = FALSE
    /\ resume' = f.to
    /\ progress' = f.to /\ progressDue' = TRUE
    /\ UNCHANGED <<deliveryVars, running, received, needsCheckpoint, userVars>>

\* accept_presentation_acknowledgement of the head of the ledger.  An
\* incompatible checkpoint replenishes delivery credit all the same.
AcceptAcknowledgement ==
    LET f == Head(ledger)
        needs == IF f.kind = "checkpoint" THEN screen = Unknown ELSE needsCheckpoint
        pending == \E i \in 2..Len(ledger) : ledger[i].kind = "checkpoint" IN
    /\ running /\ presented
    /\ ledger' = Tail(ledger)
    /\ presented' = FALSE
    /\ needsCheckpoint' = needs
    /\ resume' = IF needs \/ pending THEN None ELSE f.to
    /\ progress' = f.to /\ progressDue' = TRUE
    /\ UNCHANGED <<deliveryVars, running, received, userVars>>

\* drive_attachment_writer: the watch coalesces acknowledgements.
SendProgress ==
    /\ running /\ progressDue
    /\ toServer' = Append(toServer, progress)
    /\ progressDue' = FALSE
    /\ UNCHANGED <<streamVars, events, lagged, pc, driverVars, toClient, running, received,
                   resume, needsCheckpoint, ledger, presented, progress, userVars>>

\* After an expired history transfer, or on demand.
RequestCheckpoint ==
    /\ running
    /\ requests < MaxRequests
    /\ requests' = requests + 1
    /\ toServer' = Append(toServer, None)
    /\ UNCHANGED <<streamVars, events, lagged, pc, driverVars, toClient, controllerVars, screen,
                   ending, told, connections>>

(***************************************************************************)
(* The renderer.                                                            *)
(***************************************************************************)
Applied(f, compatible) ==
    IF f.kind = "checkpoint"
    THEN IF compatible THEN [pos |-> f.to, rev |-> f.rev] ELSE Unknown
    ELSE IF screen = Unknown THEN Unknown ELSE [screen EXCEPT !.pos = f.to]

\* Applies the next event.  While the controller runs, an acknowledgement
\* follows; the event is then already on the screen.
Present(compatible) ==
    /\ ledger # <<>> /\ ~presented
    /\ screen' = Applied(Head(ledger), compatible)
    /\ presented' = running
    /\ ledger' = IF running THEN ledger ELSE Tail(ledger)
    /\ UNCHANGED <<deliveryVars, running, received, resume, needsCheckpoint, progress,
                   progressDue, ending, told, connections, requests>>

\* The session_ended event is behind everything else in the queue.
PresentEnd ==
    /\ ending /\ ledger = <<>>
    /\ ending' = FALSE /\ told' = TRUE
    /\ UNCHANGED <<deliveryVars, controllerVars, screen, connections, requests>>

(***************************************************************************)
(* The specification.                                                       *)
(***************************************************************************)
Init ==
    /\ StreamInit
    /\ events = <<>> /\ lagged = FALSE /\ pc = "detached"
    /\ requested = None /\ sent = 0 /\ revision = None /\ applied = None
    /\ inFlight = <<>> /\ charge = 0
    /\ pendingCheckpoint = FALSE /\ pendingEnd = None /\ pinned = FALSE
    /\ toClient = <<>> /\ toServer = <<>>
    /\ running = FALSE /\ received = 0 /\ resume = None /\ needsCheckpoint = TRUE
    /\ ledger = <<>> /\ presented = FALSE /\ progress = None /\ progressDue = FALSE
    /\ screen = Unknown /\ ending = FALSE /\ told = FALSE
    /\ connections = 0 /\ requests = 0

\* The process in the terminal, and whoever resizes it.
Terminal ==
    \/ \E n \in 1..MaxSequence, replaced \in BOOLEAN : ReadPty(n, replaced)
    \/ Resize
    \/ End

\* The connection task.
Driver ==
    \/ \E incomplete \in BOOLEAN :
         \/ TakeInitialSnapshot(incomplete)
         \/ TakeFreshInitialSnapshot(incomplete)
         \/ SendFresh(incomplete)
         \/ SendReplacement(incomplete)
    \/ RefreshInitial
    \/ RecoverFromLag
    \/ ProcessEvent
    \/ ProcessAcknowledgement
    \/ ProcessRequestCheckpoint
    \/ FinishHistory
    \/ SendSessionEnd
    \/ EnterSend
    \/ SendOutput
    \/ StopSending

\* The controller's and the renderer's tasks.
Client ==
    \/ \E compatible \in BOOLEAN :
         /\ Interactive \/ compatible
         /\ ReceiveAttached(compatible) \/ Present(compatible)
    \/ ProcessOutput
    \/ ProcessCheckpoint
    \/ ProcessSessionEnded
    \/ AcceptAcknowledgement
    \/ SendProgress
    \/ PresentEnd

Next ==
    \/ (Terminal \/ Driver) /\ UNCHANGED clientVars
    \/ Client
    \/ \E from \in {None, Cursor} : Connect(from)
    \/ LoseConnection
    \/ RequestCheckpoint

\* Tasks that can run are scheduled, and a pinned history that is not fetched
\* expires.  Nothing is assumed of the terminal, the network or the user.
Fairness ==
    /\ WF_vars(Driver /\ UNCHANGED clientVars)
    /\ WF_vars(Client)

Spec == Init /\ [][Next]_vars /\ Fairness

(***************************************************************************)
(* Properties.                                                              *)
(***************************************************************************)
\* The client accepts every frame the daemon sends: output starts where the
\* last frame ended and no checkpoint goes back, across windows, evictions,
\* resizes, requested checkpoints and reconnects (InvalidOutputSequence and
\* StaleCheckpoint are never raised).
FramesAccepted ==
    running /\ toClient # <<>> => Accepted(Head(toClient))

\* Output of the frames, in bytes.
Bytes(frames) ==
    SumFunction([i \in 1..Len(frames) |->
                   IF frames[i].kind = "output" THEN frames[i].to - frames[i].from ELSE 0])

\* What the connection task looks at next is an acknowledgement it accepts.
AcknowledgementAccepted ==
    pc = "idle" /\ toServer # <<>> /\ Head(toServer) # None => Acceptable(Head(toServer))

\* Flow control agrees at both ends: the daemon accepts every acknowledgement of
\* a client that acknowledges what it applied, though they coalesce and cross
\* checkpoints on the way; its account of the credit is that of the frames in
\* flight; and output on the transport or queued for the renderer never exceeds
\* the presentation window the client asked for.
FlowControl ==
    /\ AcknowledgementAccepted
    /\ Bytes(toClient) + (IF running THEN Bytes(Queued) ELSE 0) <= Window
    /\ charge = SumCharges(inFlight)

\* The renderer never shows output produced after a resize, a history clear or
\* a reflow on a screen that predates it.
ScreenFaithful ==
    screen # Unknown =>
        /\ screen.pos <= next
        /\ \A r \in DOMAIN boundaries : boundaries[r] < screen.pos => r <= screen.rev

\* "Reconnect from the last applied sequence loses or duplicates no raw
\* output": output is applied to a screen that shows exactly what precedes it.
ReplayExact ==
    ledger # <<>> /\ ~presented /\ Head(ledger).kind = "output" /\ screen # Unknown
        => Head(ledger).from = screen.pos

\* The controller's cursor never skips output: it is set only when the screen
\* represents the terminal, and never beyond what the screen shows.
CursorSafe ==
    resume # None => screen # Unknown /\ resume <= screen.pos

\* "Once every final byte is represented by queued output or a checkpoint, the
\* peer can drain those frames": a user who is told that the session ended has
\* been shown all of its output, on any screen that could show it.
EndComplete == told /\ screen # Unknown => screen.pos = next

\* The promise to the user that all of this implements.
View == INSTANCE TerminalView WITH
    produced <- next,
    shown <- IF screen = Unknown THEN 0 ELSE screen.pos,
    closed <- ended,
    finished <- told

ViewSpec == View!ViewSpec

\* An attached client is told of the end, unless its connection is lost: the
\* end is never stuck behind flow control, a full event queue or a pinned
\* history.
EndDelivered == (ended /\ pc # "detached") ~> (told \/ pc = "detached")

\* An attached client catches up with the output, unless its connection is
\* lost or it is told of the end: what was produced is applied and acknowledged.
\* No wake-up is missed although events may lag, frames wait for credit and
\* checkpoints wait for frames.
CatchesUp ==
    \A n \in 1..MaxSequence :
        (next = n /\ pc # "detached")
            ~> (pc = "detached" \/ told \/ (running /\ received >= n /\ ledger = <<>>))
=============================================================================
