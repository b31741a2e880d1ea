---------------------------- MODULE Attachments ----------------------------
(***************************************************************************)
(* Logical attachments of the ctmux daemon: the records a terminal keeps    *)
(* for its attachments (token, generation, connected), the connection       *)
(* tasks that drive them, the reconnect grace timers, and the two exclusive *)
(* leases: input (one per terminal) and layout (one per session's view).    *)
(*                                                                         *)
(* The attachment map, the input lease and the registry holding the layout  *)
(* lease are three separate mutexes.  Registering and closing an attachment *)
(* visits them one after another, so each visit is a step of its own here,  *)
(* and steps of other connections, of the pane moves and of exiting         *)
(* processes may come in between.                                           *)
(*                                                                         *)
(* Driver <<a, g>> is the connection task that serves generation g of       *)
(* attachment a, followed, once the transport is lost, by its grace timer.  *)
(***************************************************************************)
EXTENDS LeaseRegistry, Naturals

CONSTANTS
    Terminal,       \* panes, all of them running at first
    Session,        \* session identifiers, each used once
    MaxGeneration   \* bound on the reconnects of one attachment

ASSUME MaxGenerationAssumption == MaxGeneration \in Nat

Generation == 0..MaxGeneration
Driver == Attachment \X Generation

\* Life of a terminal: its child runs; publish_ended ran; it left the registry.
Life == {"running", "ended", "removed"}

\* A client message that a driver has read and not yet acted on.
LeaseMessage == {"acquireInput", "releaseInput", "acquireLayout", "releaseLayout"}

\* Where a driver is in the code.
Phase == LeaseMessage \cup
    { "none",       \* no such connection yet
      "input",      \* create_attachment: record inserted, input lease next
      "layout",     \* create_attachment: layout lease next
      "rejoin",     \* resume_attachment: record rebound, lease status next
      "subscribe",  \* prepared_attachment: watches not yet subscribed
      "start",      \* handle_attach: initial resize, snapshot and reply
      "live",       \* drive_attachment: waiting in its select
      "notify",     \* send_layout_lease_update: watch marked seen, status next
      "detaching",  \* Detach read, acknowledgement being written
      "grace",      \* transport lost, grace timer running
      "freeInput",  \* record removed, input lease not yet released
      "freeLayout", \* input lease released, layout lease not yet
      "done" }

VARIABLES
    registered,   \* attachments with a record in their terminal's map
    pane,         \* the terminal an attachment was created on
    generation,   \* AttachmentRecord.generation
    connected,    \* AttachmentRecord.connected
    inputOwner,   \* the input lease of every terminal
    layoutOwner,  \* the layout lease of every session's view
    owner,        \* Terminal.owner.session_id
    life,         \* the life of every terminal
    used,         \* session identifiers in use, now or earlier
    pc,           \* the phase of every driver
    seen,         \* AttachmentDriver.layout_lease_status
    dirty         \* drivers whose layout_lease_updates watch has changed

records == <<registered, pane, generation, connected>>
topology == <<owner, life, used>>
watches == <<seen, dirty>>
vars == <<registered, pane, generation, connected, inputOwner, layoutOwner,
          owner, life, used, pc, seen, dirty>>

Status == [held : BOOLEAN, owned : BOOLEAN]
NoStatus == [held |-> FALSE, owned |-> FALSE]   \* LeaseStatus::default()

TypeOK ==
    /\ registered \subseteq Attachment
    /\ pane \in [Attachment -> Terminal]
    /\ generation \in [Attachment -> Generation]
    /\ connected \in [Attachment -> BOOLEAN]
    /\ inputOwner \in [Terminal -> Lease]
    /\ layoutOwner \in [Session -> Lease]
    /\ owner \in [Terminal -> Session]
    /\ life \in [Terminal -> Life]
    /\ used \subseteq Session
    /\ pc \in [Driver -> Phase]
    /\ seen \in [Driver -> Status]
    /\ dirty \subseteq Driver

(***************************************************************************)
(* The topology as attachments see it.  A session is in the registry while  *)
(* its layout has a pane; a removed terminal keeps its last owner.          *)
(***************************************************************************)
Panes(s) == {t \in Terminal : owner[t] = s /\ life[t] # "removed"}

SessionExists(s) == Panes(s) # {}

\* with_view_leases on the layout lease; the default when the view is gone.
LayoutStatus(t, a) ==
    IF SessionExists(owner[t])
    THEN LeaseStatus(layoutOwner[owner[t]], a)
    ELSE NoStatus

\* Drivers that hold a receiver of their terminal's layout-lease watch.
Subscribed(d) ==
    pc[d] \in LeaseMessage \cup {"start", "live", "notify", "detaching"}

\* publish_layout_leases for the panes ts: marks every receiver changed.
Publish(ts) == dirty \cup {d \in Driver : pane[d[1]] \in ts /\ Subscribed(d)}

\* change_view_leases through terminal t: a no-op when its view is gone.
ChangeViewLeases(t, newOwner) ==
    LET s == owner[t] IN
    IF SessionExists(s)
    THEN /\ layoutOwner' = [layoutOwner EXCEPT ![s] = newOwner]
         /\ dirty' = Publish(Panes(s))
    ELSE UNCHANGED <<layoutOwner, dirty>>

SetPhase(d, p) == pc' = [pc EXCEPT ![d] = p]

(***************************************************************************)
(* Admission.  run_while_accepting holds the restart mutex while an         *)
(* attachment is created or resumed, so one is prepared at a time.          *)
(***************************************************************************)
Preparing(d) == pc[d] \in {"input", "layout", "rejoin", "subscribe"}

AdmissionFree == \A d \in Driver : ~Preparing(d)

\* prepare_attachment: subscribe_events refuses an ended terminal; then
\* create_attachment inserts the record.
CreateAttachment(a, t) ==
    /\ AdmissionFree
    /\ pc[<<a, 0>>] = "none"
    /\ life[t] = "running"
    /\ registered' = registered \cup {a}
    /\ pane' = [pane EXCEPT ![a] = t]
    /\ generation' = [generation EXCEPT ![a] = 0]
    /\ connected' = [connected EXCEPT ![a] = TRUE]
    /\ SetPhase(<<a, 0>>, "input")
    /\ UNCHANGED <<inputOwner, layoutOwner, topology, watches>>

\* create_attachment, second critical section.
RequestInitialInput(d, wanted) ==
    LET t == pane[d[1]] IN
    /\ pc[d] = "input"
    /\ inputOwner' = [inputOwner EXCEPT ![t] = RequestInitial(@, d[1], wanted)]
    /\ SetPhase(d, "layout")
    /\ UNCHANGED <<records, layoutOwner, topology, watches>>

\* create_attachment, third critical section; its result is the status the
\* initial reply reports.
RequestInitialLayout(d, wanted) ==
    LET t == pane[d[1]]
        new == RequestInitial(layoutOwner[owner[t]], d[1], wanted) IN
    /\ pc[d] = "layout"
    /\ ChangeViewLeases(t, new)
    /\ seen' = [seen EXCEPT ![d] =
                  IF SessionExists(owner[t]) THEN LeaseStatus(new, d[1])
                  ELSE NoStatus]
    /\ SetPhase(d, "subscribe")
    /\ UNCHANGED <<records, inputOwner, topology>>

\* prepare_resumed_attachment: resume_attachment rebinds the record and
\* invalidates the previous generation.
ResumeAttachment(a) ==
    LET g == generation[a] + 1 IN
    /\ AdmissionFree
    /\ a \in registered
    /\ life[pane[a]] = "running"
    /\ g \in Generation
    /\ generation' = [generation EXCEPT ![a] = g]
    /\ connected' = [connected EXCEPT ![a] = TRUE]
    /\ SetPhase(<<a, g>>, "rejoin")
    /\ UNCHANGED <<registered, pane, inputOwner, layoutOwner, topology, watches>>

\* resume_attachment reads the lease status after the record is unlocked.
ReadResumedLeases(d) ==
    /\ pc[d] = "rejoin"
    /\ seen' = [seen EXCEPT ![d] = LayoutStatus(pane[d[1]], d[1])]
    /\ SetPhase(d, "subscribe")
    /\ UNCHANGED <<records, inputOwner, layoutOwner, topology, dirty>>

\* Mutant: the watch is subscribed without being marked changed.
PreparedUnmarked(d) ==
    /\ pc[d] = "subscribe"
    /\ SetPhase(d, "start")
    /\ UNCHANGED <<records, inputOwner, layoutOwner, topology, watches>>

\* prepared_attachment: subscribes, and marks the watch changed because the
\* leases may have changed since they were read.
PreparedAttachment(d) ==
    /\ pc[d] = "subscribe"
    /\ dirty' = dirty \cup {d}
    /\ SetPhase(d, "start")
    /\ UNCHANGED <<records, inputOwner, layoutOwner, topology, seen>>

(***************************************************************************)
(* The end of a connection: AttachmentGuard.                                *)
(***************************************************************************)
Current(d) == d[1] \in registered /\ generation[d[1]] = d[2]

\* close_attachment: removes the record of the current generation only.
CloseAttachment(d) ==
    /\ IF Current(d)
       THEN registered' = registered \ {d[1]} /\ SetPhase(d, "freeInput")
       ELSE UNCHANGED registered /\ SetPhase(d, "done")
    /\ UNCHANGED <<pane, generation, connected>>

\* Mutant: a late guard suspends whatever generation is current.
SuspendAnyGeneration(d) ==
    /\ IF d[1] \in registered /\ connected[d[1]]
       THEN connected' = [connected EXCEPT ![d[1]] = FALSE] /\ SetPhase(d, "grace")
       ELSE UNCHANGED connected /\ SetPhase(d, "done")
    /\ UNCHANGED <<registered, pane, generation>>

\* suspend_attachment: true, and a grace timer, for the current connected
\* generation only.
SuspendAttachment(d) ==
    /\ IF Current(d) /\ connected[d[1]]
       THEN connected' = [connected EXCEPT ![d[1]] = FALSE] /\ SetPhase(d, "grace")
       ELSE UNCHANGED connected /\ SetPhase(d, "done")
    /\ UNCHANGED <<registered, pane, generation>>

\* The connection task returns: its receiver and its last status go with it.
ForgetWatch(d) ==
    /\ seen' = [seen EXCEPT ![d] = NoStatus]
    /\ dirty' = dirty \ {d}

\* handle_attach returns before the initial reply is out.  A fresh attachment
\* is closed, a resumed one keeps its grace (preserve_on_drop = resumed).
FailStart(d) ==
    /\ pc[d] = "start"
    /\ IF d[2] = 0 THEN CloseAttachment(d) ELSE SuspendAttachment(d)
    /\ ForgetWatch(d)
    /\ UNCHANGED <<inputOwner, layoutOwner, topology>>

\* The initial reply is sent: preserve_on_drop becomes true.
BecomeLive(d) ==
    /\ pc[d] = "start"
    /\ SetPhase(d, "live")
    /\ UNCHANGED <<records, inputOwner, layoutOwner, topology, watches>>

\* Disconnected: end of stream, transport error, or missed liveness deadline.
Disconnect(d) ==
    /\ pc[d] = "live"
    /\ SuspendAttachment(d)
    /\ ForgetWatch(d)
    /\ UNCHANGED <<inputOwner, layoutOwner, topology>>

\* Superseded: the watch of the record changed, or went away with it.
Supersede(d) ==
    /\ pc[d] = "live"
    /\ ~Current(d)
    /\ SuspendAttachment(d)
    /\ ForgetWatch(d)
    /\ UNCHANGED <<inputOwner, layoutOwner, topology>>

\* The acknowledgement of Detach is written or has failed: close_now.
CloseNow(d) ==
    /\ pc[d] = "detaching"
    /\ CloseAttachment(d)
    /\ ForgetWatch(d)
    /\ UNCHANGED <<inputOwner, layoutOwner, topology>>

\* Mutant: expiry looks for a record that is connected.
ExpireConnected(d) ==
    /\ pc[d] = "grace"
    /\ IF Current(d) /\ connected[d[1]]
       THEN registered' = registered \ {d[1]} /\ SetPhase(d, "freeInput")
       ELSE UNCHANGED registered /\ SetPhase(d, "done")
    /\ UNCHANGED <<pane, generation, connected, inputOwner, layoutOwner, topology, watches>>

\* expire_attachment when the grace timer fires.
ExpireAttachment(d) ==
    /\ pc[d] = "grace"
    /\ IF Current(d) /\ ~connected[d[1]]
       THEN registered' = registered \ {d[1]} /\ SetPhase(d, "freeInput")
       ELSE UNCHANGED registered /\ SetPhase(d, "done")
    /\ UNCHANGED <<pane, generation, connected, inputOwner, layoutOwner, topology, watches>>

\* Mutant: a closed attachment keeps its input lease.
KeepInput(d) ==
    /\ pc[d] = "freeInput"
    /\ SetPhase(d, "freeLayout")
    /\ UNCHANGED <<records, inputOwner, layoutOwner, topology, watches>>

\* close/expire_attachment, second critical section.
FreeInput(d) ==
    LET t == pane[d[1]] IN
    /\ pc[d] = "freeInput"
    /\ inputOwner' = [inputOwner EXCEPT ![t] = ReleaseLease(@, d[1])]
    /\ SetPhase(d, "freeLayout")
    /\ UNCHANGED <<records, layoutOwner, topology, watches>>

\* close/expire_attachment, third critical section, in the registry entry of
\* the session that owns the terminal by then.
FreeLayout(d) ==
    LET t == pane[d[1]] IN
    /\ pc[d] = "freeLayout"
    /\ ChangeViewLeases(t, ReleaseLease(layoutOwner[owner[t]], d[1]))
    /\ SetPhase(d, "done")
    /\ UNCHANGED <<records, inputOwner, topology, seen>>

(***************************************************************************)
(* A live connection.  The select is biased: a superseded driver does not   *)
(* read another message, but one it has read is carried out.                *)
(***************************************************************************)
ReadMessage(d, m) ==
    /\ pc[d] = "live"
    /\ Current(d)
    /\ SetPhase(d, m)
    /\ UNCHANGED <<records, inputOwner, layoutOwner, topology, watches>>

\* process_lease_change for the input lease.
AcquireInput(d) ==
    LET t == pane[d[1]] IN
    /\ pc[d] = "acquireInput"
    /\ inputOwner' = [inputOwner EXCEPT ![t] = AcquireLease(@, d[1])]
    /\ SetPhase(d, "live")
    /\ UNCHANGED <<records, layoutOwner, topology, watches>>

ReleaseInput(d) ==
    LET t == pane[d[1]] IN
    /\ pc[d] = "releaseInput"
    /\ inputOwner' = [inputOwner EXCEPT ![t] = ReleaseLease(@, d[1])]
    /\ SetPhase(d, "live")
    /\ UNCHANGED <<records, layoutOwner, topology, watches>>

\* process_lease_change for the layout lease: the direct reply also becomes
\* the status later notifications are compared with.
ChangeLayout(d, new) ==
    LET t == pane[d[1]] IN
    /\ ChangeViewLeases(t, new)
    /\ seen' = [seen EXCEPT ![d] =
                  IF SessionExists(owner[t]) THEN LeaseStatus(new, d[1])
                  ELSE NoStatus]
    /\ SetPhase(d, "live")
    /\ UNCHANGED <<records, inputOwner, topology>>

AcquireLayout(d) ==
    /\ pc[d] = "acquireLayout"
    /\ ChangeLayout(d, AcquireLease(layoutOwner[owner[pane[d[1]]]], d[1]))

ReleaseLayout(d) ==
    /\ pc[d] = "releaseLayout"
    /\ ChangeLayout(d, ReleaseLease(layoutOwner[owner[pane[d[1]]]], d[1]))

\* send_layout_lease_update marks the watch seen before it reads the status.
\* Metadata is not sent once the end of the terminal is pending.
BeginNotify(d) ==
    /\ pc[d] = "live"
    /\ d \in dirty
    /\ life[pane[d[1]]] = "running"
    /\ dirty' = dirty \ {d}
    /\ SetPhase(d, "notify")
    /\ UNCHANGED <<records, inputOwner, layoutOwner, topology, seen>>

SendNotify(d) ==
    /\ pc[d] = "notify"
    /\ seen' = [seen EXCEPT ![d] = LayoutStatus(pane[d[1]], d[1])]
    /\ SetPhase(d, "live")
    /\ UNCHANGED <<records, inputOwner, layoutOwner, topology, dirty>>

(***************************************************************************)
(* Panes that move or end, each under the registry mutex.                   *)
(***************************************************************************)
\* Releases the layout lease of session s for every attachment that has a
\* record on terminal t.
ReleasePaneAttachments(t, s) ==
    IF \E a \in registered : pane[a] = t /\ layoutOwner[s] = a
    THEN [layoutOwner EXCEPT ![s] = NoOwner]
    ELSE layoutOwner

\* break_pane and promote_terminal: t leaves a session with other panes for a
\* fresh session of its own.
MovePane(t, s) ==
    LET old == owner[t] IN
    /\ life[t] # "removed"
    /\ Panes(old) # {t}
    /\ s \notin used
    /\ used' = used \cup {s}
    /\ owner' = [owner EXCEPT ![t] = s]
    /\ layoutOwner' = ReleasePaneAttachments(t, old)
    /\ dirty' = Publish(Panes(old))
    /\ UNCHANGED <<records, inputOwner, life, pc, seen>>

\* merge_sessions: every pane of the source joins the destination's view; the
\* source and its layout lease disappear.
MergeSessions(source, destination) ==
    /\ source # destination
    /\ SessionExists(source) /\ SessionExists(destination)
    /\ owner' = [t \in Terminal |->
                   IF t \in Panes(source) THEN destination ELSE owner[t]]
    /\ layoutOwner' = [layoutOwner EXCEPT ![source] = NoOwner]
    /\ dirty' = Publish(Panes(source) \cup Panes(destination))
    /\ UNCHANGED <<records, inputOwner, life, used, pc, seen>>

\* publish_ended.
PublishEnded(t) ==
    /\ life[t] = "running"
    /\ life' = [life EXCEPT ![t] = "ended"]
    /\ UNCHANGED <<records, inputOwner, layoutOwner, owner, used, pc, watches>>

\* remove_terminal by the waiter thread: detach_terminal, then the map entry.
RemoveTerminal(t) ==
    LET s == owner[t] IN
    /\ life[t] = "ended"
    /\ life' = [life EXCEPT ![t] = "removed"]
    /\ layoutOwner' = IF Panes(s) = {t}
                      THEN [layoutOwner EXCEPT ![s] = NoOwner]
                      ELSE ReleasePaneAttachments(t, s)
    /\ dirty' = Publish(Panes(s) \ {t})
    /\ UNCHANGED <<records, inputOwner, owner, used, pc, seen>>

(***************************************************************************)
(* The specification.                                                       *)
(***************************************************************************)
Init ==
    /\ registered = {}
    /\ pane \in {[a \in Attachment |-> t] : t \in Terminal}
    /\ generation = [a \in Attachment |-> 0]
    /\ connected = [a \in Attachment |-> FALSE]
    /\ inputOwner = [t \in Terminal |-> NoOwner]
    /\ layoutOwner = [s \in Session |-> NoOwner]
    /\ owner \in {[t \in Terminal |-> s] : s \in Session}
    /\ life = [t \in Terminal |-> "running"]
    /\ used = {owner[t] : t \in Terminal}
    /\ pc = [d \in Driver |-> "none"]
    /\ seen = [d \in Driver |-> NoStatus]
    /\ dirty = {}

\* The steps of a connection that its client or the network decides.
Client(d) ==
    \/ FailStart(d)
    \/ Disconnect(d)
    \/ \E m \in LeaseMessage \cup {"detaching"} : ReadMessage(d, m)

\* The steps the daemon takes by itself once it can.
Daemon(d) ==
    \/ \E wanted \in BOOLEAN : RequestInitialInput(d, wanted)
    \/ \E wanted \in BOOLEAN : RequestInitialLayout(d, wanted)
    \/ ReadResumedLeases(d)
    \/ PreparedAttachment(d)
    \/ BecomeLive(d)
    \/ Supersede(d)
    \/ CloseNow(d)
    \/ ExpireAttachment(d)
    \/ FreeInput(d)
    \/ FreeLayout(d)
    \/ AcquireInput(d)
    \/ ReleaseInput(d)
    \/ AcquireLayout(d)
    \/ ReleaseLayout(d)
    \/ BeginNotify(d)
    \/ SendNotify(d)

Topology ==
    \/ \E t \in Terminal, s \in Session : MovePane(t, s)
    \/ \E s1, s2 \in Session : MergeSessions(s1, s2)
    \/ \E t \in Terminal : PublishEnded(t) \/ RemoveTerminal(t)

Next ==
    \/ \E a \in Attachment, t \in Terminal : CreateAttachment(a, t)
    \/ \E a \in Attachment : ResumeAttachment(a)
    \/ \E d \in Driver : Client(d) \/ Daemon(d)
    \/ Topology

\* A daemon task that can take a step is scheduled, a timer that runs fires,
\* and a write either completes or is cut off by its deadline (FailStart and
\* Disconnect also disable what they interrupt).  Nothing is assumed of the
\* clients, of the panes or of the processes in them.
Fairness == \A d \in Driver : WF_vars(Daemon(d))

Spec == Init /\ [][Next]_vars /\ Fairness

(***************************************************************************)
(* Properties.                                                              *)
(***************************************************************************)
\* A registered attachment is never orphaned: the connection task of its
\* current generation is still running, or its grace timer is.  A guard
\* dropped late by a superseded transport cannot suspend or expire the
\* generation that replaced it (the generation checks of suspend_attachment,
\* expire_attachment and close_attachment).
NoOrphan ==
    \A a \in registered :
        LET p == pc[<<a, generation[a]>>] IN
        IF connected[a]
        THEN p \notin {"none", "grace", "freeInput", "freeLayout", "done"}
        ELSE p = "grace"

\* A connection that has no layout notification to send has told its client
\* the truth: the status it last reported is the status of the lease in the
\* view the pane is in now, whoever acquired, released, moved, merged or
\* removed what in between (publish_layout_leases, mark_changed, and the
\* order in which send_layout_lease_update reads its watch).
LayoutNotified ==
    \A d \in Driver :
        /\ pc[d] = "live"
        /\ d \notin dirty
        /\ life[pane[d[1]]] = "running"
        => seen[d] = LayoutStatus(pane[d[1]], d[1])

\* What makes LayoutNotified inductive: it holds in every phase in which the
\* driver listens, and an attachment that was never created has no drivers.
NotifyInv ==
    /\ \A a \in Attachment : pc[<<a, 0>>] = "none" =>
          a \notin registered /\ \A g \in Generation : pc[<<a, g>>] = "none"
    /\ \A d \in Driver :
          /\ Subscribed(d)
          /\ pc[d] # "notify"
          /\ d \notin dirty
          /\ life[pane[d[1]]] = "running"
          => seen[d] = LayoutStatus(pane[d[1]], d[1])

\* A lease is never passed from one attachment to another: it becomes free
\* first.  The owner of an input lease loses it only by a step of one of its
\* own connections that releases it or has removed its record; the owner of a
\* layout lease also when panes move or end.
LeaseHandover ==
    /\ \A t \in Terminal : inputOwner[t] \notin {NoOwner, inputOwner'[t]} =>
          /\ inputOwner'[t] = NoOwner
          /\ \E g \in Generation :
               LET d == <<inputOwner[t], g>> IN
               pc[d] \in {"releaseInput", "freeInput"} /\ pc'[d] # pc[d]
    /\ \A s \in Session : layoutOwner[s] \notin {NoOwner, layoutOwner'[s]} =>
          /\ layoutOwner'[s] = NoOwner
          /\ \/ topology' # topology
             \/ \E g \in Generation :
                  LET d == <<layoutOwner[s], g>> IN
                  pc[d] \in {"releaseLayout", "freeLayout"} /\ pc'[d] # pc[d]

LeaseHandovers == [][LeaseHandover]_vars

\* The input lease of a terminal belongs to an attachment that is registered,
\* or whose close or expiry is about to release it.
InputReleased ==
    \A t \in Terminal : inputOwner[t] # NoOwner =>
        \/ inputOwner[t] \in registered
        \/ \E g \in Generation : pc[<<inputOwner[t], g>>] = "freeInput"

\* A superseded connection carries out an AcquireInput it had read: the record
\* is no longer its own, and may be gone.
StaleAcquire == \E d \in Driver : AcquireInput(d) /\ ~Current(d)

\* Closing, expiring, resuming and creating attachments in any order never leave
\* an input lease with an attachment that is gone: InputReleased is lost only
\* when a superseded connection carries out an AcquireInput it had read before
\* (process_lease_change does not look at the generation).
InputLostOnlyByStaleAcquire ==
    [][InputReleased => InputReleased' \/ StaleAcquire]_vars

\* The same of the layout lease of a view: no attachment that is gone keeps it.
LayoutReleased ==
    \A s \in Session : layoutOwner[s] # NoOwner =>
        \/ layoutOwner[s] \in registered
        \/ \E g \in Generation :
             pc[<<layoutOwner[s], g>>] \in {"freeInput", "freeLayout"}

\* An attachment that lost its transport is resumed or, at the end of its
\* grace, forgotten: expire_attachment is never lost.
GraceEnds ==
    \A a \in Attachment :
        (a \in registered /\ ~connected[a]) ~> (a \notin registered \/ connected[a])
=============================================================================
