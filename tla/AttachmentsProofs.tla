------------------------- MODULE AttachmentsProofs -------------------------
(***************************************************************************)
(* Proofs about Attachments, for every set of attachments, terminals and    *)
(* sessions and every bound on the generations.                             *)
(***************************************************************************)
EXTENDS Attachments, TLAPS

\* A driver is a pair of an attachment and a generation.
LEMMA DriverParts ==
    ASSUME NEW d \in Driver
    PROVE  d[1] \in Attachment /\ d[2] \in Generation /\ d = <<d[1], d[2]>>
BY DEF Driver

\* The operators of AttachmentLeaseRegistry return an owner or NoOwner.
LEMMA LeaseTypes ==
    ASSUME NEW o \in Lease, NEW a \in Attachment, NEW w \in BOOLEAN
    PROVE  /\ RequestInitial(o, a, w) \in Lease
           /\ AcquireLease(o, a) \in Lease
           /\ ReleaseLease(o, a) \in Lease
           /\ LeaseStatus(o, a) \in Status
           /\ NoStatus \in Status
BY DEF RequestInitial, AcquireLease, ReleaseLease, LeaseStatus, NoStatus, Status, Lease

\* change_view_leases keeps the layout leases and the watches well typed.
LEMMA ChangeViewLeasesType ==
    ASSUME TypeOK, NEW t \in Terminal, NEW o \in Lease, ChangeViewLeases(t, o)
    PROVE  layoutOwner' \in [Session -> Lease] /\ dirty' \subseteq Driver
BY DEF TypeOK, ChangeViewLeases, Publish

\* The status of the layout lease is one.
LEMMA LayoutStatusType ==
    ASSUME TypeOK, NEW t \in Terminal, NEW a \in Attachment
    PROVE  LayoutStatus(t, a) \in Status
BY LeaseTypes DEF TypeOK, LayoutStatus

\* Every state has the declared types: every handler of attachments, leases
\* and panes keeps the records, leases, phases and watches well formed.
THEOREM TypeCorrect == Spec => []TypeOK
<1>1. Init => TypeOK
  <2> SUFFICES ASSUME Init PROVE TypeOK
    OBVIOUS
  <2>1. 0 \in Generation
    BY MaxGenerationAssumption DEF Generation
  <2>2. registered \subseteq Attachment /\ dirty \subseteq Driver /\ used \subseteq Session
    BY DEF Init
  <2>3. /\ pane \in [Attachment -> Terminal]
        /\ owner \in [Terminal -> Session]
        /\ connected \in [Attachment -> BOOLEAN]
        /\ generation \in [Attachment -> Generation]
    BY <2>1 DEF Init
  <2>4. /\ inputOwner \in [Terminal -> Lease]
        /\ layoutOwner \in [Session -> Lease]
        /\ life \in [Terminal -> Life]
    BY DEF Init, Lease, Life
  <2>5. pc \in [Driver -> Phase] /\ seen \in [Driver -> Status]
    BY DEF Init, Phase, Status, NoStatus
  <2> QED BY <2>2, <2>3, <2>4, <2>5 DEF TypeOK
<1>2. TypeOK /\ [Next]_vars => TypeOK'
  <2> SUFFICES ASSUME TypeOK, [Next]_vars PROVE TypeOK'
    OBVIOUS
  <2> USE DEF TypeOK, records, topology, watches, SetPhase
  <2>1. ASSUME NEW a \in Attachment, NEW t \in Terminal, CreateAttachment(a, t)
        PROVE  TypeOK'
    <3>1. 0 \in Generation /\ "input" \in Phase /\ <<a, 0>> \in Driver
      BY MaxGenerationAssumption DEF Generation, Phase, Driver
    <3> QED BY <2>1, <3>1 DEF CreateAttachment
  <2>2. ASSUME NEW a \in Attachment, ResumeAttachment(a)
        PROVE  TypeOK'
    <3>1. "rejoin" \in Phase
      BY DEF Phase
    <3> QED BY <2>2, <3>1 DEF ResumeAttachment, Driver
  <2>3. ASSUME NEW d \in Driver, Client(d) \/ Daemon(d)
        PROVE  TypeOK'
    <3> d[1] \in Attachment /\ d[2] \in Generation
      BY DriverParts
    <3> pane[d[1]] \in Terminal /\ owner[pane[d[1]]] \in Session
      OBVIOUS
    <3> layoutOwner[owner[pane[d[1]]]] \in Lease /\ inputOwner[pane[d[1]]] \in Lease
      OBVIOUS
    <3>a. /\ LeaseMessage \subseteq Phase
          /\ {"layout", "subscribe", "start", "live", "notify", "detaching", "grace",
              "freeInput", "freeLayout", "done"} \subseteq Phase
      BY DEF Phase
    <3>b. ASSUME ForgetWatch(d)
          PROVE  seen' \in [Driver -> Status] /\ dirty' \subseteq Driver
      BY <3>b, LeaseTypes DEF ForgetWatch, Lease
    <3>c. ASSUME SuspendAttachment(d) \/ CloseAttachment(d)
          PROVE  /\ registered' \subseteq Attachment /\ pane' = pane /\ generation' = generation
                 /\ connected' \in [Attachment -> BOOLEAN] /\ pc' \in [Driver -> Phase]
      BY <3>a, <3>c DEF SuspendAttachment, CloseAttachment
    <3>1. CASE FailStart(d)
      BY <3>1, <3>b, <3>c DEF FailStart
    <3>2. CASE Disconnect(d)
      BY <3>2, <3>b, <3>c DEF Disconnect
    <3>3. ASSUME NEW m \in LeaseMessage \cup {"detaching"}, ReadMessage(d, m)
          PROVE  TypeOK'
      BY <3>3, <3>a DEF ReadMessage
    <3>4. ASSUME NEW w \in BOOLEAN, RequestInitialInput(d, w)
          PROVE  TypeOK'
      BY <3>4, <3>a, LeaseTypes DEF RequestInitialInput
    <3>5. ASSUME NEW w \in BOOLEAN, RequestInitialLayout(d, w)
          PROVE  TypeOK'
      BY <3>5, <3>a, LeaseTypes, ChangeViewLeasesType DEF RequestInitialLayout
    <3>6. CASE ReadResumedLeases(d)
      BY <3>6, <3>a, LayoutStatusType DEF ReadResumedLeases
    <3>7. CASE PreparedAttachment(d)
      BY <3>7, <3>a DEF PreparedAttachment
    <3>8. CASE BecomeLive(d)
      BY <3>8, <3>a DEF BecomeLive
    <3>9. CASE Supersede(d)
      BY <3>9, <3>b, <3>c DEF Supersede
    <3>10. CASE CloseNow(d)
      BY <3>10, <3>b, <3>c DEF CloseNow
    <3>11. CASE ExpireAttachment(d)
      BY <3>11, <3>a DEF ExpireAttachment
    <3>12. CASE FreeInput(d)
      BY <3>12, <3>a, LeaseTypes DEF FreeInput
    <3>13. CASE FreeLayout(d)
      BY <3>13, <3>a, LeaseTypes, ChangeViewLeasesType DEF FreeLayout
    <3>14. CASE AcquireInput(d)
      BY <3>14, <3>a, LeaseTypes DEF AcquireInput
    <3>15. CASE ReleaseInput(d)
      BY <3>15, <3>a, LeaseTypes DEF ReleaseInput
    <3>16. CASE AcquireLayout(d)
      BY <3>16, <3>a, LeaseTypes, ChangeViewLeasesType DEF AcquireLayout, ChangeLayout
    <3>17. CASE ReleaseLayout(d)
      BY <3>17, <3>a, LeaseTypes, ChangeViewLeasesType DEF ReleaseLayout, ChangeLayout
    <3>18. CASE BeginNotify(d)
      BY <3>18, <3>a DEF BeginNotify
    <3>19. CASE SendNotify(d)
      BY <3>19, <3>a, LayoutStatusType DEF SendNotify
    <3> QED
      BY <2>3, <3>1, <3>2, <3>3, <3>4, <3>5, <3>6, <3>7, <3>8, <3>9, <3>10, <3>11,
         <3>12, <3>13, <3>14, <3>15, <3>16, <3>17, <3>18, <3>19
      DEF Client, Daemon
  <2>4. CASE Topology
    <3>1. ASSUME NEW t \in Terminal, NEW s \in Session, MovePane(t, s)
          PROVE  TypeOK'
      BY <3>1 DEF MovePane, ReleasePaneAttachments, Publish, Lease
    <3>2. ASSUME NEW s1 \in Session, NEW s2 \in Session, MergeSessions(s1, s2)
          PROVE  TypeOK'
      BY <3>2 DEF MergeSessions, Publish, Lease
    <3>3. ASSUME NEW t \in Terminal, PublishEnded(t)
          PROVE  TypeOK'
      BY <3>3 DEF PublishEnded, Life
    <3>4. ASSUME NEW t \in Terminal, RemoveTerminal(t)
          PROVE  TypeOK'
      BY <3>4 DEF RemoveTerminal, ReleasePaneAttachments, Publish, Lease, Life
    <3> QED BY <2>4, <3>1, <3>2, <3>3, <3>4 DEF Topology
  <2>5. CASE UNCHANGED vars
    BY <2>5 DEF vars
  <2> QED BY <2>1, <2>2, <2>3, <2>4, <2>5 DEF Next
<1>3. QED BY <1>1, <1>2, PTL DEF Spec

(***************************************************************************)
(* No orphaned attachments.                                                 *)
(***************************************************************************)
Idle == {"none", "grace", "freeInput", "freeLayout", "done"}

\* A driver that moves from one phase of a running connection to another
\* leaves NoOrphan alone.
LEMMA BusyStep ==
    ASSUME TypeOK, NoOrphan, NEW d \in Driver, NEW p, p \notin Idle, pc[d] \notin Idle,
           SetPhase(d, p), UNCHANGED records
    PROVE  NoOrphan'
<1> SUFFICES ASSUME NEW a \in registered
             PROVE  IF connected[a] THEN pc'[<<a, generation[a]>>] \notin Idle
                                    ELSE pc'[<<a, generation[a]>>] = "grace"
  BY DEF NoOrphan, records, Idle
<1> DEFINE e == <<a, generation[a]>>
<1>1. e \in Driver
  BY DEF TypeOK, Driver
<1>2. IF connected[a] THEN pc[e] \notin Idle ELSE pc[e] = "grace"
  BY DEF NoOrphan, Idle
<1>3. pc'[e] = IF e = d THEN p ELSE pc[e]
  BY <1>1 DEF TypeOK, SetPhase
<1> QED BY <1>1, <1>2, <1>3 DEF Idle

\* A driver that is past its connection changes phase: only its own
\* attachment matters, and that is no longer registered under it.
LEMMA RestingStep ==
    ASSUME TypeOK, NoOrphan, NEW d \in Driver, NEW p, pc[d] \in {"freeInput", "freeLayout"},
           SetPhase(d, p), UNCHANGED records
    PROVE  NoOrphan'
<1> SUFFICES ASSUME NEW a \in registered
             PROVE  IF connected[a] THEN pc'[<<a, generation[a]>>] \notin Idle
                                    ELSE pc'[<<a, generation[a]>>] = "grace"
  BY DEF NoOrphan, records, Idle
<1> DEFINE e == <<a, generation[a]>>
<1>1. e \in Driver
  BY DEF TypeOK, Driver
<1>2. IF connected[a] THEN pc[e] \notin Idle ELSE pc[e] = "grace"
  BY DEF NoOrphan, Idle
<1>3. e # d
  BY <1>2 DEF Idle
<1> QED BY <1>1, <1>2, <1>3 DEF TypeOK, SetPhase

\* The guard of a connection: closing, suspending and expiring act on the
\* current generation only, whatever older guards are dropped late.
LEMMA GuardStep ==
    ASSUME TypeOK, NoOrphan, NEW d \in Driver,
           \/ pc[d] \notin Idle /\ (CloseAttachment(d) \/ SuspendAttachment(d))
           \/ ExpireAttachment(d)
    PROVE  NoOrphan'
<1> SUFFICES ASSUME NEW a \in registered'
             PROVE  IF connected'[a] THEN pc'[<<a, generation'[a]>>] \notin Idle
                                     ELSE pc'[<<a, generation'[a]>>] = "grace"
  BY DEF NoOrphan, Idle
<1> DEFINE e == <<a, generation[a]>>
<1>0. a \in registered /\ generation' = generation /\ d[1] \in Attachment
  BY DriverParts DEF CloseAttachment, SuspendAttachment, ExpireAttachment
<1>1. e \in Driver
  BY <1>0 DEF TypeOK, Driver
<1>2. IF connected[a] THEN pc[e] \notin Idle ELSE pc[e] = "grace"
  BY <1>0 DEF NoOrphan, Idle
<1>3. CASE e = d
  <2>1. Current(d) /\ d[1] = a
    BY <1>0, <1>3 DEF Current
  <2> QED
    BY <1>0, <1>2, <1>3, <2>1 DEF TypeOK, CloseAttachment, SuspendAttachment, ExpireAttachment,
       SetPhase, Idle
<1>4. CASE e # d
  <2>1. pc'[e] = pc[e]
    BY <1>1, <1>4 DEF TypeOK, CloseAttachment, SuspendAttachment, ExpireAttachment, SetPhase
  <2>2. connected'[a] = connected[a]
    <3>1. ASSUME d[1] = a, Current(d) PROVE FALSE
      BY <1>4, <3>1, DriverParts DEF Current
    <3> QED BY <1>0, <3>1 DEF TypeOK, CloseAttachment, SuspendAttachment, ExpireAttachment
  <2> QED BY <1>0, <1>2, <2>1, <2>2
<1> QED BY <1>3, <1>4

\* No step leaves an attachment behind.
LEMMA NoOrphanStep == TypeOK /\ NoOrphan /\ [Next]_vars => NoOrphan'
<1> SUFFICES ASSUME TypeOK, NoOrphan, [Next]_vars PROVE NoOrphan'
  OBVIOUS
<1>1. ASSUME NEW a \in Attachment, NEW t \in Terminal, CreateAttachment(a, t)
      PROVE  NoOrphan'
  <2>1. <<a, 0>> \in Driver
    BY MaxGenerationAssumption DEF Driver, Generation
  <2> QED BY <1>1, <2>1 DEF CreateAttachment, NoOrphan, TypeOK, SetPhase, Driver
<1>2. ASSUME NEW a \in Attachment, ResumeAttachment(a)
      PROVE  NoOrphan'
  BY <1>2 DEF ResumeAttachment, NoOrphan, TypeOK, SetPhase, Driver
<1>3. ASSUME NEW d \in Driver, Client(d) \/ Daemon(d)
      PROVE  NoOrphan'
  <2>1. CASE FailStart(d) \/ Disconnect(d) \/ Supersede(d) \/ CloseNow(d) \/ ExpireAttachment(d)
    BY <2>1, GuardStep DEF FailStart, Disconnect, Supersede, CloseNow, Idle
  <2>2. CASE FreeInput(d) \/ FreeLayout(d)
    BY <2>2, RestingStep DEF FreeInput, FreeLayout
  <2>3. ASSUME NEW m \in LeaseMessage \cup {"detaching"}, ReadMessage(d, m)
        PROVE  NoOrphan'
    BY <2>3, BusyStep DEF ReadMessage, LeaseMessage, Idle
  <2>4. ASSUME NEW w \in BOOLEAN, RequestInitialInput(d, w) \/ RequestInitialLayout(d, w)
        PROVE  NoOrphan'
    BY <2>4, BusyStep DEF RequestInitialInput, RequestInitialLayout, Idle
  <2>5. CASE ReadResumedLeases(d) \/ PreparedAttachment(d) \/ BecomeLive(d)
    BY <2>5, BusyStep DEF ReadResumedLeases, PreparedAttachment, BecomeLive, Idle
  <2>6. CASE AcquireInput(d) \/ ReleaseInput(d) \/ AcquireLayout(d) \/ ReleaseLayout(d)
    BY <2>6, BusyStep DEF AcquireInput, ReleaseInput, AcquireLayout, ReleaseLayout,
       ChangeLayout, Idle
  <2>7. CASE BeginNotify(d) \/ SendNotify(d)
    BY <2>7, BusyStep DEF BeginNotify, SendNotify, Idle
  <2> QED BY <1>3, <2>1, <2>2, <2>3, <2>4, <2>5, <2>6, <2>7 DEF Client, Daemon
<1>4. CASE Topology \/ UNCHANGED vars
  <2>1. UNCHANGED <<registered, pane, generation, connected, pc>>
    BY <1>4 DEF Topology, MovePane, MergeSessions, PublishEnded, RemoveTerminal, vars, records
  <2> QED BY <2>1 DEF NoOrphan
<1> QED BY <1>1, <1>2, <1>3, <1>4 DEF Next

\* A registered attachment always has the connection task of its current
\* generation or a running grace timer (AttachmentGuard::drop,
\* suspend/expire/close_attachment), for any number of attachments,
\* reconnects, panes and moves.
THEOREM NeverOrphaned == Spec => []NoOrphan
<1>1. Init => NoOrphan
  BY DEF Init, NoOrphan
<1>2. QED BY <1>1, NoOrphanStep, TypeCorrect, PTL DEF Spec

(***************************************************************************)
(* Leases change hands only through their owner.                            *)
(***************************************************************************)
\* What the registry operators do to a lease another attachment owns.
LEMMA RegistryKeepsOwner ==
    ASSUME NEW o \in Lease, NEW a \in Attachment, NEW w \in BOOLEAN, o # NoOwner
    PROVE  /\ RequestInitial(o, a, w) = o
           /\ AcquireLease(o, a) = o
           /\ ReleaseLease(o, a) = IF o = a THEN NoOwner ELSE o
BY DEF RequestInitial, AcquireLease, ReleaseLease, Lease

\* One registry operation on the input lease of a terminal.
LEMMA InputHandover ==
    ASSUME TypeOK, NEW d \in Driver, NEW o,
           inputOwner' = [inputOwner EXCEPT ![pane[d[1]]] = o],
           layoutOwner' = layoutOwner,
           LET old == inputOwner[pane[d[1]]] IN
             old # NoOwner => o = old \/ (/\ o = NoOwner /\ old = d[1]
                                         /\ pc[d] \in {"releaseInput", "freeInput"}
                                         /\ pc'[d] # pc[d])
    PROVE  LeaseHandover
<1> DEFINE t0 == pane[d[1]]
<1>1. d[1] \in Attachment /\ d[2] \in Generation /\ d = <<d[1], d[2]>> /\ t0 \in Terminal
  BY DriverParts DEF TypeOK
<1>2. ASSUME NEW t \in Terminal, inputOwner[t] \notin {NoOwner, inputOwner'[t]}
      PROVE  /\ inputOwner'[t] = NoOwner
             /\ \E g \in Generation :
                  LET e == <<inputOwner[t], g>> IN
                  pc[e] \in {"releaseInput", "freeInput"} /\ pc'[e] # pc[e]
  <2>1. t = t0
    BY <1>2 DEF TypeOK
  <2>2. inputOwner'[t] = o
    BY <1>1, <2>1 DEF TypeOK
  <2>3. o = NoOwner /\ inputOwner[t] = d[1]
        /\ pc[d] \in {"releaseInput", "freeInput"} /\ pc'[d] # pc[d]
    BY <1>2, <2>1, <2>2
  <2> QED BY <1>1, <2>2, <2>3
<1> QED BY <1>2 DEF LeaseHandover

\* One registry operation on the layout lease of a view.
LEMMA LayoutHandover ==
    ASSUME TypeOK, NEW d \in Driver, NEW o, ChangeViewLeases(pane[d[1]], o),
           inputOwner' = inputOwner,
           LET old == layoutOwner[owner[pane[d[1]]]] IN
             old # NoOwner => o = old \/ (/\ o = NoOwner /\ old = d[1]
                                         /\ pc[d] \in {"releaseLayout", "freeLayout"}
                                         /\ pc'[d] # pc[d])
    PROVE  LeaseHandover
<1> DEFINE s0 == owner[pane[d[1]]]
<1>1. d[1] \in Attachment /\ d[2] \in Generation /\ d = <<d[1], d[2]>> /\ s0 \in Session
  BY DriverParts DEF TypeOK
<1>2. ASSUME NEW s \in Session, layoutOwner[s] \notin {NoOwner, layoutOwner'[s]}
      PROVE  /\ layoutOwner'[s] = NoOwner
             /\ \E g \in Generation :
                  LET e == <<layoutOwner[s], g>> IN
                  pc[e] \in {"releaseLayout", "freeLayout"} /\ pc'[e] # pc[e]
  <2>1. layoutOwner' = [layoutOwner EXCEPT ![s0] = o]
    BY <1>2 DEF ChangeViewLeases
  <2>2. s = s0
    BY <1>2, <2>1 DEF TypeOK
  <2>3. layoutOwner'[s] = o
    BY <1>1, <2>1, <2>2 DEF TypeOK
  <2>4. o = NoOwner /\ layoutOwner[s] = d[1]
        /\ pc[d] \in {"releaseLayout", "freeLayout"} /\ pc'[d] # pc[d]
    BY <1>2, <2>2, <2>3
  <2> QED BY <1>1, <2>3, <2>4
<1> QED BY <1>2 DEF LeaseHandover

\* Every step hands a lease over in the way it may be.
LEMMA LeaseHandoverStep == TypeOK /\ [Next]_vars => LeaseHandover
<1> SUFFICES ASSUME TypeOK, [Next]_vars PROVE LeaseHandover
  OBVIOUS
<1>0. ASSUME UNCHANGED <<inputOwner, layoutOwner>> PROVE LeaseHandover
  BY <1>0 DEF LeaseHandover
<1>1. ASSUME NEW d \in Driver, Client(d) \/ Daemon(d)
      PROVE  LeaseHandover
  <2> d[1] \in Attachment /\ d[2] \in Generation
    BY DriverParts
  <2> pane[d[1]] \in Terminal /\ owner[pane[d[1]]] \in Session
    BY DEF TypeOK
  <2> layoutOwner[owner[pane[d[1]]]] \in Lease /\ inputOwner[pane[d[1]]] \in Lease
    BY DEF TypeOK
  <2>1. ASSUME NEW w \in BOOLEAN, RequestInitialInput(d, w)
        PROVE  LeaseHandover
    <3>1. /\ inputOwner' = [inputOwner EXCEPT ![pane[d[1]]] =
                              RequestInitial(inputOwner[pane[d[1]]], d[1], w)]
          /\ layoutOwner' = layoutOwner
      BY <2>1 DEF RequestInitialInput
    <3>2. inputOwner[pane[d[1]]] # NoOwner =>
            RequestInitial(inputOwner[pane[d[1]]], d[1], w) = inputOwner[pane[d[1]]]
      BY RegistryKeepsOwner
    <3> QED BY <3>1, <3>2, InputHandover
  <2>2. ASSUME NEW w \in BOOLEAN, RequestInitialLayout(d, w)
        PROVE  LeaseHandover
    BY <2>2, RegistryKeepsOwner, LayoutHandover DEF RequestInitialLayout
  <2>3. CASE AcquireInput(d)
    BY <2>3, RegistryKeepsOwner, InputHandover DEF AcquireInput
  <2>4. CASE ReleaseInput(d)
    <3>1. pc[d] = "releaseInput" /\ pc'[d] = "live"
      BY <2>4 DEF ReleaseInput, SetPhase, TypeOK
    <3>2. /\ inputOwner' = [inputOwner EXCEPT ![pane[d[1]]] =
                              ReleaseLease(inputOwner[pane[d[1]]], d[1])]
          /\ layoutOwner' = layoutOwner
      BY <2>4 DEF ReleaseInput
    <3>3. inputOwner[pane[d[1]]] # NoOwner =>
            \/ ReleaseLease(inputOwner[pane[d[1]]], d[1]) = inputOwner[pane[d[1]]]
            \/ /\ ReleaseLease(inputOwner[pane[d[1]]], d[1]) = NoOwner
               /\ inputOwner[pane[d[1]]] = d[1]
      BY RegistryKeepsOwner
    <3> QED BY <3>1, <3>2, <3>3, InputHandover
  <2>5. CASE FreeInput(d)
    <3>1. pc[d] = "freeInput" /\ pc'[d] = "freeLayout"
      BY <2>5 DEF FreeInput, SetPhase, TypeOK
    <3>2. /\ inputOwner' = [inputOwner EXCEPT ![pane[d[1]]] =
                              ReleaseLease(inputOwner[pane[d[1]]], d[1])]
          /\ layoutOwner' = layoutOwner
      BY <2>5 DEF FreeInput
    <3>3. inputOwner[pane[d[1]]] # NoOwner =>
            \/ ReleaseLease(inputOwner[pane[d[1]]], d[1]) = inputOwner[pane[d[1]]]
            \/ /\ ReleaseLease(inputOwner[pane[d[1]]], d[1]) = NoOwner
               /\ inputOwner[pane[d[1]]] = d[1]
      BY RegistryKeepsOwner
    <3> QED BY <3>1, <3>2, <3>3, InputHandover
  <2>6. CASE AcquireLayout(d)
    BY <2>6, RegistryKeepsOwner, LayoutHandover DEF AcquireLayout, ChangeLayout
  <2>7. CASE ReleaseLayout(d)
    <3>1. pc[d] = "releaseLayout" /\ pc'[d] = "live"
      BY <2>7 DEF ReleaseLayout, ChangeLayout, SetPhase, TypeOK
    <3> QED BY <2>7, <3>1, RegistryKeepsOwner, LayoutHandover DEF ReleaseLayout, ChangeLayout
  <2>8. CASE FreeLayout(d)
    <3>1. pc[d] = "freeLayout" /\ pc'[d] = "done"
      BY <2>8 DEF FreeLayout, SetPhase, TypeOK
    <3> QED BY <2>8, <3>1, RegistryKeepsOwner, LayoutHandover DEF FreeLayout
  <2>9. CASE Client(d) \/ ReadResumedLeases(d) \/ PreparedAttachment(d) \/ BecomeLive(d)
             \/ Supersede(d) \/ CloseNow(d) \/ ExpireAttachment(d) \/ BeginNotify(d)
             \/ SendNotify(d)
    BY <2>9, <1>0 DEF Client, FailStart, Disconnect, ReadMessage, ReadResumedLeases,
       PreparedAttachment, BecomeLive, Supersede, CloseNow, ExpireAttachment, BeginNotify,
       SendNotify
  <2> QED BY <1>1, <2>1, <2>2, <2>3, <2>4, <2>5, <2>6, <2>7, <2>8, <2>9 DEF Daemon
<1>2. CASE Topology
  <2>1. inputOwner' = inputOwner
    BY <1>2 DEF Topology, MovePane, MergeSessions, PublishEnded, RemoveTerminal
  <2>2. ASSUME NEW s \in Session, layoutOwner[s] \notin {NoOwner, layoutOwner'[s]}
        PROVE  layoutOwner'[s] = NoOwner /\ topology' # topology
    <3>1. ASSUME NEW t \in Terminal, NEW r \in Session, MovePane(t, r)
          PROVE  layoutOwner'[s] = NoOwner /\ topology' # topology
      BY <2>2, <3>1 DEF MovePane, ReleasePaneAttachments, TypeOK, topology
    <3>2. ASSUME NEW s1 \in Session, NEW s2 \in Session, MergeSessions(s1, s2)
          PROVE  layoutOwner'[s] = NoOwner /\ topology' # topology
      <4>1. PICK t \in Terminal : owner[t] = s1 /\ life[t] # "removed"
        BY <3>2 DEF MergeSessions, SessionExists, Panes
      <4>2. owner'[t] # owner[t]
        BY <3>2, <4>1 DEF MergeSessions, Panes
      <4> QED BY <2>2, <3>2, <4>2 DEF MergeSessions, TypeOK, topology
    <3>3. ASSUME NEW t \in Terminal, PublishEnded(t)
          PROVE  layoutOwner'[s] = NoOwner /\ topology' # topology
      BY <2>2, <3>3 DEF PublishEnded
    <3>4. ASSUME NEW t \in Terminal, RemoveTerminal(t)
          PROVE  layoutOwner'[s] = NoOwner /\ topology' # topology
      <4>1. life'[t] # life[t]
        BY <3>4 DEF RemoveTerminal, TypeOK
      <4> QED BY <2>2, <3>4, <4>1 DEF RemoveTerminal, ReleasePaneAttachments, TypeOK, topology
    <3> QED BY <1>2, <3>1, <3>2, <3>3, <3>4 DEF Topology
  <2> QED BY <2>1, <2>2 DEF LeaseHandover
<1>3. CASE \/ \E a \in Attachment, t \in Terminal : CreateAttachment(a, t)
           \/ \E a \in Attachment : ResumeAttachment(a)
           \/ UNCHANGED vars
  BY <1>0, <1>3 DEF CreateAttachment, ResumeAttachment, vars
<1> QED BY <1>1, <1>2, <1>3 DEF Next

\* Invariant 10 of docs/architecture.md for both leases: nothing takes a lease
\* from its owner (acquire, request_initial), and it becomes free only by a
\* step of its owner's own connections or, for the layout lease, when panes
\* move or end.
THEOREM LeasesNeverStolen == Spec => LeaseHandovers
BY LeaseHandoverStep, TypeCorrect, PTL DEF Spec, LeaseHandovers

(***************************************************************************)
(* Layout notifications.                                                    *)
(***************************************************************************)
\* What one driver owes its client: it has reported the current status of the
\* layout lease, or its watch is marked changed.
Informed(d) ==
    /\ Subscribed(d)
    /\ pc[d] # "notify"
    /\ d \notin dirty
    /\ life[pane[d[1]]] = "running"
    => seen[d] = LayoutStatus(pane[d[1]], d[1])

\* An attachment that was never created has no drivers.
Uncreated ==
    \A a \in Attachment : pc[<<a, 0>>] = "none" =>
        a \notin registered /\ \A g \in Generation : pc[<<a, g>>] = "none"

\* The invariant, connection by connection.
LEMMA NotifyInvParts == NotifyInv <=> Uncreated /\ \A d \in Driver : Informed(d)
BY DEF NotifyInv, Uncreated, Informed

\* A running pane is a pane of the session that owns it.
LEMMA RunningPane ==
    ASSUME TypeOK, NEW t \in Terminal, life[t] = "running"
    PROVE  t \in Panes(owner[t]) /\ SessionExists(owner[t])
BY DEF Panes, SessionExists

\* No step takes a driver back to "none"; Uncreated is kept by every step of
\* an existing driver.
LEMMA UncreatedStep ==
    ASSUME TypeOK, Uncreated, NEW d \in Driver, NEW p, p # "none", pc[d] # "none",
           SetPhase(d, p), registered' \subseteq registered
    PROVE  Uncreated'
<1> SUFFICES ASSUME NEW a \in Attachment, pc'[<<a, 0>>] = "none"
             PROVE  a \notin registered' /\ \A g \in Generation : pc'[<<a, g>>] = "none"
  BY DEF Uncreated
<1>1. 0 \in Generation /\ d = <<d[1], d[2]>> /\ d[2] \in Generation
  BY MaxGenerationAssumption, DriverParts DEF Generation
<1>2. pc[<<a, 0>>] = "none"
  BY <1>1 DEF SetPhase, TypeOK, Driver
<1>3. d[1] # a
  BY <1>1, <1>2 DEF Uncreated
<1> QED BY <1>1, <1>2, <1>3 DEF Uncreated, SetPhase, TypeOK, Driver

\* A step of driver d that leaves leases and panes alone.
LEMMA QuietStep ==
    ASSUME TypeOK, NEW d \in Driver, NEW p, SetPhase(d, p),
           \A e \in Driver : Informed(e),
           UNCHANGED <<pane, layoutOwner, owner, life>>,
           \A e \in Driver \ {d} : seen'[e] = seen[e] /\ (e \in dirty <=> e \in dirty'),
           Informed(d)'
    PROVE  (\A e \in Driver : Informed(e))'
<1> SUFFICES ASSUME NEW e \in Driver, e # d PROVE Informed(e)'
  OBVIOUS
<1>1. pc'[e] = pc[e]
  BY DEF SetPhase, TypeOK
<1>2. Informed(e)
  OBVIOUS
<1> QED
  BY <1>1, <1>2 DEF Informed, Subscribed, LayoutStatus, SessionExists, Panes, LeaseStatus

\* change_view_leases marks every listening driver of the view it changed.
LEMMA LeaseStep ==
    ASSUME TypeOK, NEW d \in Driver, NEW p, NEW o, SetPhase(d, p),
           ChangeViewLeases(pane[d[1]], o),
           \A e \in Driver : Informed(e),
           UNCHANGED <<pane, owner, life>>,
           \A e \in Driver \ {d} : seen'[e] = seen[e],
           p \in {"subscribe", "done"} \/ Subscribed(d)
    PROVE  (\A e \in Driver : Informed(e))'
<1> SUFFICES ASSUME NEW e \in Driver, Subscribed(e)', pc'[e] # "notify", e \notin dirty',
                    life[pane[e[1]]] = "running"
             PROVE  seen'[e] = LayoutStatus(pane[e[1]], e[1])'
  BY DEF Informed
<1> DEFINE s == owner[pane[d[1]]]
<1>1. e[1] \in Attachment /\ d[1] \in Attachment /\ pane[e[1]] \in Terminal
  BY DriverParts DEF TypeOK
<1>2. Subscribed(e)
  BY DEF SetPhase, Subscribed, TypeOK, LeaseMessage
<1>3. pane[e[1]] \in Panes(owner[pane[e[1]]]) /\ SessionExists(owner[pane[e[1]]])
  BY <1>1, RunningPane
<1>4. owner[pane[e[1]]] # s
  BY <1>2, <1>3 DEF ChangeViewLeases, Publish
<1>5. e # d
  BY <1>4
<1>6. pc'[e] = pc[e] /\ e \notin dirty
  BY <1>5 DEF SetPhase, TypeOK, ChangeViewLeases, Publish
<1>7. seen[e] = LayoutStatus(pane[e[1]], e[1])
  BY <1>2, <1>6 DEF Informed
<1>8. layoutOwner'[owner[pane[e[1]]]] = layoutOwner[owner[pane[e[1]]]]
  BY <1>1, <1>4 DEF ChangeViewLeases, TypeOK
<1> QED
  BY <1>5, <1>7, <1>8 DEF LayoutStatus, SessionExists, Panes, LeaseStatus

\* A pane that moves, joins another session or leaves: every driver of every
\* pane whose view changed is marked.
LEMMA TopologyStep ==
    ASSUME TypeOK, Topology, \A e \in Driver : Informed(e)
    PROVE  (\A e \in Driver : Informed(e))'
<1> SUFFICES ASSUME NEW e \in Driver, Subscribed(e)', pc'[e] # "notify", e \notin dirty',
                    life'[pane'[e[1]]] = "running"
             PROVE  seen'[e] = LayoutStatus(pane[e[1]], e[1])'
  BY DEF Informed
<1> DEFINE te == pane[e[1]]
<1>1. UNCHANGED <<registered, pane, generation, connected, pc, seen>>
  BY DEF Topology, MovePane, MergeSessions, PublishEnded, RemoveTerminal, records, watches
<1>2. e[1] \in Attachment /\ te \in Terminal /\ Subscribed(e) /\ pc[e] # "notify"
  BY <1>1, DriverParts DEF TypeOK, Subscribed
<1>3. life[te] = "running"
  BY <1>1, <1>2 DEF Topology, MovePane, MergeSessions, PublishEnded, RemoveTerminal, TypeOK
<1>4. te \in Panes(owner[te]) /\ SessionExists(owner[te])
  BY <1>2, <1>3, RunningPane
<1>5. /\ owner'[te] = owner[te] /\ e \notin dirty
      /\ layoutOwner'[owner[te]] = layoutOwner[owner[te]]
  <2>1. ASSUME NEW t \in Terminal, NEW s \in Session, MovePane(t, s)
        PROVE  /\ owner'[te] = owner[te] /\ e \notin dirty
               /\ layoutOwner'[owner[te]] = layoutOwner[owner[te]]
    <3>1. owner[te] # owner[t] /\ e \notin dirty
      BY <1>2, <1>4, <2>1 DEF MovePane, Publish
    <3> QED BY <1>2, <2>1, <3>1 DEF MovePane, ReleasePaneAttachments, TypeOK
  <2>2. ASSUME NEW s1 \in Session, NEW s2 \in Session, MergeSessions(s1, s2)
        PROVE  /\ owner'[te] = owner[te] /\ e \notin dirty
               /\ layoutOwner'[owner[te]] = layoutOwner[owner[te]]
    <3>1. owner[te] # s1 /\ e \notin dirty
      BY <1>2, <1>4, <2>2 DEF MergeSessions, Publish
    <3>2. te \notin Panes(s1)
      BY <3>1 DEF Panes
    <3> QED BY <1>2, <2>2, <3>1, <3>2 DEF MergeSessions, TypeOK
  <2>3. ASSUME NEW t \in Terminal, PublishEnded(t)
        PROVE  /\ owner'[te] = owner[te] /\ e \notin dirty
               /\ layoutOwner'[owner[te]] = layoutOwner[owner[te]]
    BY <2>3 DEF PublishEnded, watches
  <2>4. ASSUME NEW t \in Terminal, RemoveTerminal(t)
        PROVE  /\ owner'[te] = owner[te] /\ e \notin dirty
               /\ layoutOwner'[owner[te]] = layoutOwner[owner[te]]
    <3>1. te # t /\ e \notin dirty
      BY <1>3, <2>4 DEF RemoveTerminal, Publish
    <3>2. owner[te] # owner[t]
      BY <1>2, <1>4, <2>4, <3>1 DEF RemoveTerminal, Publish
    <3> QED BY <1>2, <2>4, <3>1, <3>2 DEF RemoveTerminal, ReleasePaneAttachments, TypeOK
  <2> QED BY <2>1, <2>2, <2>3, <2>4 DEF Topology
<1>6. seen[e] = LayoutStatus(te, e[1])
  BY <1>2, <1>3, <1>5 DEF Informed
<1>7. SessionExists(owner[te])'
  BY <1>1, <1>2, <1>5 DEF SessionExists, Panes
<1>8. LayoutStatus(te, e[1])' = LeaseStatus(layoutOwner'[owner'[te]], e[1])
  BY <1>1, <1>7 DEF LayoutStatus, LeaseStatus
<1>9. LayoutStatus(te, e[1]) = LeaseStatus(layoutOwner[owner[te]], e[1])
  BY <1>4 DEF LayoutStatus
<1> QED BY <1>1, <1>5, <1>6, <1>8, <1>9

\* The invariant is inductive.
LEMMA NotifyInvStep == TypeOK /\ NotifyInv /\ [Next]_vars => NotifyInv'
<1> SUFFICES ASSUME TypeOK, NotifyInv, [Next]_vars
             PROVE  Uncreated' /\ (\A d \in Driver : Informed(d))'
  BY NotifyInvParts DEF NotifyInv, Uncreated, Informed
<1>0. Uncreated /\ \A d \in Driver : Informed(d)
  BY NotifyInvParts
<1>1. ASSUME NEW a \in Attachment, NEW t \in Terminal, CreateAttachment(a, t)
      PROVE  Uncreated' /\ (\A d \in Driver : Informed(d))'
  <2>1. <<a, 0>> \in Driver
    BY MaxGenerationAssumption DEF Driver, Generation
  <2>2. \A d \in Driver : d[1] = a => pc'[d] \in {"none", "input"}
    BY <1>0, <1>1, <2>1 DEF CreateAttachment, SetPhase, TypeOK, Driver, Uncreated
  <2>3. \A d \in Driver : d[1] = a => ~Subscribed(d)'
    BY <2>2 DEF Subscribed, LeaseMessage
  <2>4. \A d \in Driver : d[1] # a => pc'[d] = pc[d] /\ pane'[d[1]] = pane[d[1]]
    BY <1>1, <2>1 DEF CreateAttachment, SetPhase, TypeOK, Driver
  <2>5. UNCHANGED <<layoutOwner, owner, life, seen, dirty>>
    BY <1>1 DEF CreateAttachment, topology, watches
  <2>6. ASSUME NEW d \in Driver PROVE Informed(d)'
    <3>1. CASE d[1] = a
      BY <2>3, <3>1 DEF Informed
    <3>2. CASE d[1] # a
      <4>1. pc'[d] = pc[d] /\ pane'[d[1]] = pane[d[1]] /\ Informed(d)
        BY <1>0, <2>4, <3>2
      <4> QED
        BY <2>5, <4>1 DEF Informed, Subscribed, LayoutStatus, SessionExists, Panes, LeaseStatus
    <3> QED BY <3>1, <3>2
  <2>7. Uncreated'
    BY <1>0, <1>1, <2>1 DEF CreateAttachment, SetPhase, TypeOK, Driver, Uncreated
  <2> QED BY <2>6, <2>7
<1>2. ASSUME NEW a \in Attachment, ResumeAttachment(a)
      PROVE  Uncreated' /\ (\A d \in Driver : Informed(d))'
  <2>1. PICK d \in Driver : d = <<a, generation[a] + 1>>
    BY <1>2 DEF ResumeAttachment, Driver
  <2>2. Informed(d)'
    BY <1>2, <2>1 DEF ResumeAttachment, SetPhase, TypeOK, Informed, Subscribed, LeaseMessage
  <2>3. (\A e \in Driver : Informed(e))'
    <3>1. SetPhase(d, "rejoin") /\ UNCHANGED <<pane, layoutOwner, owner, life, seen, dirty>>
      BY <1>2, <2>1 DEF ResumeAttachment, topology, watches
    <3> QED BY <1>0, <2>2, <3>1, QuietStep
  <2>4. Uncreated'
    <3>1. pc[<<a, 0>>] # "none" /\ <<a, 0>> \in Driver
      BY <1>0, <1>2, MaxGenerationAssumption DEF ResumeAttachment, Uncreated, Driver, Generation
    <3> QED
      BY <1>0, <1>2, <3>1 DEF ResumeAttachment, SetPhase, TypeOK, Driver, Uncreated
  <2> QED BY <2>3, <2>4
<1>3. ASSUME NEW d \in Driver, Client(d) \/ Daemon(d)
      PROVE  Uncreated' /\ (\A e \in Driver : Informed(e))'
  <2> USE DEF records, topology, watches
  <2>1. ASSUME SuspendAttachment(d) \/ CloseAttachment(d) \/ ExpireAttachment(d),
               UNCHANGED <<layoutOwner, owner, life>>, pc[d] # "none",
               ForgetWatch(d) \/ UNCHANGED <<seen, dirty>>
        PROVE  Uncreated' /\ (\A e \in Driver : Informed(e))'
    <3>1. PICK p \in {"grace", "freeInput", "done"} : SetPhase(d, p)
      BY <2>1 DEF SuspendAttachment, CloseAttachment, ExpireAttachment
    <3>2. registered' \subseteq registered /\ pane' = pane
      BY <2>1 DEF SuspendAttachment, CloseAttachment, ExpireAttachment
    <3>3. Informed(d)'
      BY <3>1 DEF SetPhase, TypeOK, Informed, Subscribed, LeaseMessage
    <3>4. \A e \in Driver \ {d} : seen'[e] = seen[e] /\ (e \in dirty <=> e \in dirty')
      BY <2>1 DEF ForgetWatch, TypeOK
    <3> QED BY <1>0, <2>1, <3>1, <3>2, <3>3, <3>4, QuietStep, UncreatedStep
  <2>2. CASE FailStart(d) \/ Disconnect(d) \/ Supersede(d) \/ CloseNow(d) \/ ExpireAttachment(d)
    BY <2>1, <2>2 DEF FailStart, Disconnect, Supersede, CloseNow, ExpireAttachment
  <2>3. ASSUME NEW o, NEW p, p # "none", pc[d] # "none", SetPhase(d, p),
               ChangeViewLeases(pane[d[1]], o), UNCHANGED <<registered, pane, owner, life>>,
               \A e \in Driver \ {d} : seen'[e] = seen[e],
               p \in {"subscribe", "done"} \/ Subscribed(d)
        PROVE  Uncreated' /\ (\A e \in Driver : Informed(e))'
    BY <1>0, <2>3, LeaseStep, UncreatedStep
  <2>4. ASSUME NEW w \in BOOLEAN, RequestInitialLayout(d, w)
        PROVE  Uncreated' /\ (\A e \in Driver : Informed(e))'
    BY <2>3, <2>4 DEF RequestInitialLayout, TypeOK
  <2>5. CASE FreeLayout(d)
    BY <2>3, <2>5 DEF FreeLayout
  <2>6. CASE AcquireLayout(d) \/ ReleaseLayout(d)
    <3>1. Subscribed(d) /\ pc[d] # "none"
      BY <2>6 DEF AcquireLayout, ReleaseLayout, Subscribed, LeaseMessage
    <3> QED BY <2>3, <2>6, <3>1 DEF AcquireLayout, ReleaseLayout, ChangeLayout, TypeOK
  <2>7. ASSUME NEW p, p # "none", pc[d] # "none", SetPhase(d, p), Informed(d)',
               UNCHANGED <<registered, pane, layoutOwner, owner, life>>,
               \A e \in Driver \ {d} : seen'[e] = seen[e] /\ (e \in dirty <=> e \in dirty')
        PROVE  Uncreated' /\ (\A e \in Driver : Informed(e))'
    BY <1>0, <2>7, QuietStep, UncreatedStep
  <2>8. ASSUME NEW w \in BOOLEAN, RequestInitialInput(d, w)
        PROVE  Uncreated' /\ (\A e \in Driver : Informed(e))'
    <3>1. Informed(d)'
      BY <2>8 DEF RequestInitialInput, SetPhase, TypeOK, Informed, Subscribed, LeaseMessage
    <3> QED BY <2>7, <2>8, <3>1 DEF RequestInitialInput
  <2>9. CASE FreeInput(d)
    <3>1. Informed(d)'
      BY <2>9 DEF FreeInput, SetPhase, TypeOK, Informed, Subscribed, LeaseMessage
    <3> QED BY <2>7, <2>9, <3>1 DEF FreeInput
  <2>10. CASE ReadResumedLeases(d)
    <3>1. Informed(d)'
      BY <2>10 DEF ReadResumedLeases, SetPhase, TypeOK, Informed, Subscribed, LeaseMessage
    <3> QED BY <2>7, <2>10, <3>1 DEF ReadResumedLeases, TypeOK
  <2>11. CASE PreparedAttachment(d)
    <3>1. Informed(d)'
      BY <2>11 DEF PreparedAttachment, Informed
    <3> QED BY <2>7, <2>11, <3>1 DEF PreparedAttachment
  <2>12. CASE BeginNotify(d)
    <3>1. Informed(d)'
      BY <2>12 DEF BeginNotify, SetPhase, TypeOK, Informed
    <3> QED BY <2>7, <2>12, <3>1 DEF BeginNotify
  <2>13. CASE SendNotify(d)
    <3>1. Informed(d)'
      BY <2>13 DEF SendNotify, TypeOK, Informed, LayoutStatus, SessionExists, Panes, LeaseStatus
    <3> QED BY <2>7, <2>13, <3>1 DEF SendNotify, TypeOK
  <2>14. ASSUME NEW p \in LeaseMessage \cup {"detaching", "live"}, Subscribed(d), pc[d] # "notify",
                SetPhase(d, p), UNCHANGED <<records, layoutOwner, topology, watches>>
         PROVE  Uncreated' /\ (\A e \in Driver : Informed(e))'
    <3>1. Informed(d)'
      BY <1>0, <2>14 DEF SetPhase, TypeOK, Informed, LayoutStatus, SessionExists, Panes,
         LeaseStatus
    <3>2. p # "none" /\ pc[d] # "none"
      BY <2>14 DEF Subscribed, LeaseMessage
    <3> QED BY <2>7, <2>14, <3>1, <3>2
  <2>15. ASSUME NEW m \in LeaseMessage \cup {"detaching"}, ReadMessage(d, m)
         PROVE  Uncreated' /\ (\A e \in Driver : Informed(e))'
    BY <2>14, <2>15 DEF ReadMessage, Subscribed
  <2>16. CASE BecomeLive(d) \/ AcquireInput(d) \/ ReleaseInput(d)
    BY <2>14, <2>16 DEF BecomeLive, AcquireInput, ReleaseInput, Subscribed, LeaseMessage
  <2> QED
    BY <1>3, <2>2, <2>4, <2>5, <2>6, <2>8, <2>9, <2>10, <2>11, <2>12, <2>13, <2>15, <2>16
    DEF Client, Daemon
<1>4. CASE Topology
  <2>1. UNCHANGED <<registered, pc>>
    BY <1>4 DEF Topology, MovePane, MergeSessions, PublishEnded, RemoveTerminal, records
  <2> QED BY <1>0, <1>4, <2>1, TopologyStep DEF Uncreated
<1>5. CASE UNCHANGED vars
  BY <1>0, <1>5 DEF vars, Uncreated, Informed, Subscribed, LayoutStatus, SessionExists, Panes,
     LeaseStatus
<1> QED BY <1>1, <1>2, <1>3, <1>4, <1>5 DEF Next

\* A live connection with no pending notification has reported the current
\* status of the layout lease (publish_layout_leases, prepared_attachment,
\* send_layout_lease_update), however panes move between views.
THEOREM LayoutAlwaysNotified == Spec => []LayoutNotified
<1>1. Init => NotifyInv
  BY DEF Init, NotifyInv, Subscribed, LeaseMessage, Driver
<1>2. NotifyInv => LayoutNotified
  BY DEF NotifyInv, LayoutNotified, Subscribed
<1>3. QED BY <1>1, <1>2, NotifyInvStep, TypeCorrect, PTL DEF Spec

(***************************************************************************)
(* The input leases.                                                        *)
(***************************************************************************)
\* The owner of an input lease was created on that terminal.
OwnerHere ==
    \A t \in Terminal : inputOwner[t] # NoOwner =>
        pane[inputOwner[t]] = t /\ pc[<<inputOwner[t], 0>>] # "none"

\* A connection that is being prepared serves the current generation of a
\* registered attachment: admission keeps every other one out.
PreparedCurrent == \A d \in Driver : Preparing(d) => Current(d)

\* What keeps InputReleased, step by step.
InputInv == Uncreated /\ OwnerHere /\ PreparedCurrent

\* A step of driver d that moves it from a phase in which it does not hold a
\* removed record, touches no input lease, and removes at most its own
\* current record, whose input lease it then releases.
OtherStep(d) ==
    /\ inputOwner' = inputOwner /\ pane' = pane /\ generation' = generation
    /\ pc[d] \notin {"none", "freeInput"}
    /\ \E p \in Phase \ {"none", "input", "rejoin"} :
          /\ SetPhase(d, p)
          /\ p \in {"layout", "subscribe"} => Preparing(d)
          /\ pc[d] \in {"freeLayout", "done"} => p = "done"
          /\ \/ registered' = registered
             \/ /\ Current(d) /\ ~Preparing(d) /\ p = "freeInput"
                /\ registered' = registered \ {d[1]}

\* The kinds of steps there are for an input lease.
LEMMA InputKinds ==
    ASSUME TypeOK, [Next]_vars
    PROVE  \/ \E a \in Attachment, t \in Terminal : CreateAttachment(a, t)
           \/ \E a \in Attachment : ResumeAttachment(a)
           \/ \E d \in Driver, w \in BOOLEAN : RequestInitialInput(d, w)
           \/ \E d \in Driver : AcquireInput(d) \/ ReleaseInput(d) \/ FreeInput(d)
           \/ \E d \in Driver : OtherStep(d)
           \/ UNCHANGED <<records, inputOwner, pc>>
<1> DEFINE Other == \E d \in Driver : OtherStep(d)
<1>1. ASSUME NEW d \in Driver, Client(d) \/ Daemon(d)
      PROVE  \/ \E w \in BOOLEAN : RequestInitialInput(d, w)
             \/ AcquireInput(d) \/ ReleaseInput(d) \/ FreeInput(d)
             \/ OtherStep(d)
  <2> USE DEF OtherStep, records, SetPhase, Preparing, LeaseMessage
  <2>a. LeaseMessage \cup {"layout", "subscribe", "start", "live", "notify", "detaching",
          "grace", "freeInput", "freeLayout", "done"} \subseteq Phase
    BY DEF Phase
  <2>1. CASE FailStart(d)
    <3>1. CASE d[2] = 0
      BY <2>1, <2>a, <3>1 DEF FailStart, CloseAttachment
    <3>2. CASE d[2] # 0
      BY <2>1, <2>a, <3>2 DEF FailStart, SuspendAttachment
    <3> QED BY <3>1, <3>2
  <2>2. CASE Disconnect(d)
    BY <2>2, <2>a DEF Disconnect, SuspendAttachment
  <2>3. ASSUME NEW m \in LeaseMessage \cup {"detaching"}, ReadMessage(d, m)
        PROVE  OtherStep(d)
    BY <2>3, <2>a DEF ReadMessage
  <2>4. ASSUME NEW w \in BOOLEAN, RequestInitialLayout(d, w) PROVE OtherStep(d)
    BY <2>4, <2>a DEF RequestInitialLayout
  <2>5. CASE ReadResumedLeases(d)
    BY <2>5, <2>a DEF ReadResumedLeases
  <2>6. CASE PreparedAttachment(d)
    BY <2>6, <2>a DEF PreparedAttachment
  <2>7. CASE BecomeLive(d)
    BY <2>7, <2>a DEF BecomeLive
  <2>8. CASE Supersede(d)
    BY <2>8, <2>a DEF Supersede, SuspendAttachment
  <2>9. CASE CloseNow(d)
    BY <2>9, <2>a DEF CloseNow, CloseAttachment
  <2>10. CASE ExpireAttachment(d)
    BY <2>10, <2>a DEF ExpireAttachment
  <2>11. CASE FreeLayout(d)
    BY <2>11, <2>a DEF FreeLayout
  <2>12. CASE AcquireLayout(d) \/ ReleaseLayout(d)
    BY <2>12, <2>a DEF AcquireLayout, ReleaseLayout, ChangeLayout
  <2>13. CASE BeginNotify(d)
    BY <2>13, <2>a DEF BeginNotify
  <2>14. CASE SendNotify(d)
    BY <2>14, <2>a DEF SendNotify
  <2> QED BY <1>1, <2>1, <2>2, <2>3, <2>4, <2>5, <2>6, <2>7, <2>8, <2>9, <2>10, <2>11,
             <2>12, <2>13, <2>14 DEF Client, Daemon
<1>2. ASSUME Topology \/ UNCHANGED vars PROVE UNCHANGED <<records, inputOwner, pc>>
  BY <1>2 DEF Topology, MovePane, MergeSessions, PublishEnded, RemoveTerminal, vars, records
<1> QED BY <1>1, <1>2 DEF Next

\* One registry operation on the input lease of d's terminal by driver d, which
\* has a record or leaves the lease alone.
LEMMA InputLeaseStep ==
    ASSUME TypeOK, InputInv, NEW d \in Driver, NEW p \in Phase \ {"none"},
           pc[d] # "none", ~(p \in {"input", "rejoin", "subscribe"}),
           p = "layout" => Preparing(d),
           UNCHANGED records, SetPhase(d, p),
           NEW o \in {inputOwner[pane[d[1]]], d[1], NoOwner},
           inputOwner' = [inputOwner EXCEPT ![pane[d[1]]] = o]
    PROVE  /\ InputInv'
           /\ \/ o # d[1]
              \/ Current(d) /\ pc[d] # "freeInput"
              => (InputReleased => InputReleased')
<1> DEFINE a == d[1]
           t0 == pane[a]
<1>0. /\ a \in Attachment /\ d[2] \in Generation /\ d = <<a, d[2]>> /\ t0 \in Terminal
      /\ 0 \in Generation
  BY DriverParts, MaxGenerationAssumption DEF TypeOK, Generation
<1>1. Uncreated'
  BY UncreatedStep DEF InputInv, records
<1>2. /\ \A t \in Terminal : inputOwner'[t] = IF t = t0 THEN o ELSE inputOwner[t]
      /\ \A e \in Driver : pc'[e] = IF e = d THEN p ELSE pc[e]
  BY DEF TypeOK, SetPhase
<1>3. OwnerHere'
  <2> SUFFICES ASSUME NEW t \in Terminal, inputOwner'[t] # NoOwner
               PROVE  pane'[inputOwner'[t]] = t /\ pc'[<<inputOwner'[t], 0>>] # "none"
    BY DEF OwnerHere
  <2>1. pane' = pane /\ registered' = registered
    BY DEF records
  <2>2. CASE inputOwner'[t] = inputOwner[t]
    <3>1. inputOwner[t] \in Attachment /\ pane[inputOwner[t]] = t /\ pc[<<inputOwner[t], 0>>] # "none"
      BY <2>2 DEF InputInv, OwnerHere, TypeOK, Lease
    <3>2. <<inputOwner[t], 0>> \in Driver
      BY <3>1, <1>0 DEF Driver
    <3> QED BY <2>1, <2>2, <3>1, <3>2, <1>2
  <2>3. CASE inputOwner'[t] # inputOwner[t]
    <3>1. t = t0 /\ inputOwner'[t] = a
      BY <2>3, <1>2
    <3>2. pc[<<a, 0>>] # "none"
      BY <1>0 DEF InputInv, Uncreated
    <3>3. <<a, 0>> \in Driver
      BY <1>0 DEF Driver
    <3> QED BY <2>1, <3>1, <3>2, <3>3, <1>2
  <2> QED BY <2>2, <2>3
<1>4. PreparedCurrent'
  BY <1>2 DEF InputInv, PreparedCurrent, Preparing, Current, records
<1>5. ASSUME \/ o # d[1]
             \/ Current(d) /\ pc[d] # "freeInput",
             InputReleased
      PROVE  InputReleased'
  <2> SUFFICES ASSUME NEW t \in Terminal, inputOwner'[t] # NoOwner
               PROVE  \/ inputOwner'[t] \in registered'
                      \/ \E g \in Generation : pc'[<<inputOwner'[t], g>>] = "freeInput"
    BY DEF InputReleased
  <2>1. registered' = registered
    BY DEF records
  <2>2. CASE t = t0 /\ o = a
    BY <1>2, <1>5, <2>1, <2>2 DEF Current
  <2>3. CASE ~(t = t0 /\ o = a)
    <3>1. inputOwner'[t] = inputOwner[t]
      BY <1>2, <2>3
    <3>2. inputOwner[t] \in Attachment /\ pane[inputOwner[t]] = t
      BY <3>1 DEF InputInv, OwnerHere, TypeOK, Lease
    <3>3. CASE inputOwner[t] \in registered
      BY <3>1, <3>3, <2>1
    <3>4. ASSUME NEW g \in Generation, pc[<<inputOwner[t], g>>] = "freeInput"
          PROVE  pc'[<<inputOwner[t], g>>] = "freeInput"
      <4>1. <<inputOwner[t], g>> \in Driver
        BY <3>2 DEF Driver
      <4>2. CASE <<inputOwner[t], g>> = d
        <5>1. inputOwner[t] = a /\ t = t0 /\ pc[d] = "freeInput"
          BY <4>2, <3>2, <3>4
        <5>2. o = NoOwner
          BY <5>1, <2>3, <1>5
        <5> QED BY <5>1, <5>2, <1>2
      <4> QED BY <4>1, <4>2, <3>4, <1>2
    <3> QED BY <1>5, <3>1, <3>3, <3>4 DEF InputReleased
  <2> QED BY <2>2, <2>3
<1> QED BY <1>1, <1>3, <1>4, <1>5 DEF InputInv

\* A step of the other kind keeps what InputReleased rests on.
LEMMA InputOtherStep ==
    ASSUME TypeOK, InputInv, NEW d \in Driver, OtherStep(d)
    PROVE  InputInv' /\ (InputReleased => InputReleased')
<1> DEFINE a == d[1]
<1>0. a \in Attachment /\ d[2] \in Generation /\ d = <<a, d[2]>> /\ 0 \in Generation
  BY DriverParts, MaxGenerationAssumption DEF Generation
<1>1. PICK p \in Phase \ {"none", "input", "rejoin"} :
        /\ SetPhase(d, p)
        /\ p \in {"layout", "subscribe"} => Preparing(d)
        /\ \/ registered' = registered
           \/ /\ Current(d) /\ ~Preparing(d) /\ p = "freeInput"
              /\ registered' = registered \ {d[1]}
  BY DEF OtherStep
<1>2. /\ inputOwner' = inputOwner /\ pane' = pane /\ generation' = generation
      /\ pc[d] \notin {"none", "freeInput"}
  BY DEF OtherStep
<1>3. \A e \in Driver : pc'[e] = IF e = d THEN p ELSE pc[e]
  BY <1>1 DEF TypeOK, SetPhase
<1>4. Uncreated'
  BY <1>1, <1>2, UncreatedStep DEF InputInv
<1>5. OwnerHere'
  <2> SUFFICES ASSUME NEW t \in Terminal, inputOwner[t] # NoOwner
               PROVE  pane[inputOwner[t]] = t /\ pc'[<<inputOwner[t], 0>>] # "none"
    BY <1>2 DEF OwnerHere
  <2>1. /\ pane[inputOwner[t]] = t /\ pc[<<inputOwner[t], 0>>] # "none"
        /\ <<inputOwner[t], 0>> \in Driver
    BY <1>0 DEF InputInv, OwnerHere, TypeOK, Lease, Driver
  <2> QED BY <1>3, <2>1
<1>6. PreparedCurrent'
  <2> SUFFICES ASSUME NEW e \in Driver, Preparing(e)' PROVE Current(e)'
    BY DEF PreparedCurrent
  <2>1. Preparing(e) /\ (e = d => Preparing(d))
    BY <1>1, <1>3 DEF Preparing
  <2>2. Current(e)
    BY <2>1 DEF InputInv, PreparedCurrent
  <2>3. CASE registered' = registered
    BY <2>2, <2>3, <1>2 DEF Current
  <2>4. CASE registered' = registered \ {a} /\ Current(d) /\ ~Preparing(d)
    <3>1. e[1] # a
      <4> SUFFICES ASSUME e[1] = a PROVE FALSE
        OBVIOUS
      <4>1. e[2] = d[2] /\ e = <<e[1], e[2]>>
        BY <2>2, <2>4, DriverParts DEF Current
      <4> QED BY <4>1, <2>1, <2>4, <1>0
    <3> QED BY <3>1, <2>2, <2>4, <1>2 DEF Current
  <2> QED BY <1>1, <2>3, <2>4
<1>7. ASSUME InputReleased PROVE InputReleased'
  <2> SUFFICES ASSUME NEW t \in Terminal, inputOwner[t] # NoOwner
               PROVE  \/ inputOwner[t] \in registered'
                      \/ \E g \in Generation : pc'[<<inputOwner[t], g>>] = "freeInput"
    BY <1>2 DEF InputReleased
  <2>1. inputOwner[t] \in Attachment
    BY DEF TypeOK, Lease
  <2>2. CASE inputOwner[t] \in registered
    <3>1. CASE inputOwner[t] \in registered'
      BY <3>1
    <3>2. CASE inputOwner[t] \notin registered'
      <4>1. inputOwner[t] = a /\ p = "freeInput"
        BY <1>1, <2>2, <3>2
      <4> QED BY <4>1, <1>0, <1>3
    <3> QED BY <3>1, <3>2
  <2>3. ASSUME NEW g \in Generation, pc[<<inputOwner[t], g>>] = "freeInput"
        PROVE  pc'[<<inputOwner[t], g>>] = "freeInput"
    BY <2>1, <2>3, <1>2, <1>3 DEF Driver
  <2> QED BY <1>7, <2>2, <2>3 DEF InputReleased
<1> QED BY <1>4, <1>5, <1>6, <1>7 DEF InputInv

\* A new attachment holds no lease yet.
LEMMA InputCreateStep ==
    ASSUME TypeOK, InputInv, NEW a \in Attachment, NEW t0 \in Terminal, CreateAttachment(a, t0)
    PROVE  InputInv' /\ (InputReleased => InputReleased')
<1>0. 0 \in Generation /\ <<a, 0>> \in Driver
  BY MaxGenerationAssumption DEF Generation, Driver
<1>1. /\ \A e \in Driver : pc'[e] = IF e = <<a, 0>> THEN "input" ELSE pc[e]
      /\ pc[<<a, 0>>] = "none" /\ \A e \in Driver : ~Preparing(e)
      /\ registered' = registered \cup {a} /\ inputOwner' = inputOwner
      /\ pane' = [pane EXCEPT ![a] = t0] /\ generation' = [generation EXCEPT ![a] = 0]
  BY <1>0 DEF CreateAttachment, SetPhase, TypeOK, AdmissionFree
<1>2. \A t \in Terminal : inputOwner[t] # a
  BY <1>1, NoOwnerAssumption DEF InputInv, OwnerHere
<1>3. Uncreated'
  <2> SUFFICES ASSUME NEW b \in Attachment, pc'[<<b, 0>>] = "none"
               PROVE  b \notin registered' /\ \A g \in Generation : pc'[<<b, g>>] = "none"
    BY DEF Uncreated
  <2>1. b # a /\ <<b, 0>> \in Driver
    BY <1>0, <1>1 DEF Driver
  <2>2. pc[<<b, 0>>] = "none"
    BY <1>1, <2>1
  <2>3. b \notin registered /\ \A g \in Generation : pc[<<b, g>>] = "none"
    BY <2>2 DEF InputInv, Uncreated
  <2>4. ASSUME NEW g \in Generation PROVE pc'[<<b, g>>] = "none"
    BY <1>1, <2>1, <2>3 DEF Driver
  <2> QED BY <1>1, <2>1, <2>3, <2>4
<1>4. OwnerHere'
  <2> SUFFICES ASSUME NEW t \in Terminal, inputOwner[t] # NoOwner
               PROVE  pane'[inputOwner[t]] = t /\ pc'[<<inputOwner[t], 0>>] # "none"
    BY <1>1 DEF OwnerHere
  <2>1. inputOwner[t] \in Attachment /\ inputOwner[t] # a /\ <<inputOwner[t], 0>> \in Driver
    BY <1>0, <1>2 DEF TypeOK, Lease, Driver
  <2>2. pane[inputOwner[t]] = t /\ pc[<<inputOwner[t], 0>>] # "none"
    BY DEF InputInv, OwnerHere
  <2>3. pane'[inputOwner[t]] = pane[inputOwner[t]]
    BY <1>1, <2>1 DEF TypeOK
  <2> QED BY <1>1, <2>1, <2>2, <2>3
<1>5. PreparedCurrent'
  <2> SUFFICES ASSUME NEW e \in Driver, Preparing(e)' PROVE Current(e)'
    BY DEF PreparedCurrent
  <2>1. e = <<a, 0>>
    BY <1>1 DEF Preparing
  <2>2. generation'[a] = 0
    BY <1>1 DEF TypeOK
  <2> QED BY <1>1, <2>1, <2>2 DEF Current
<1>6. ASSUME InputReleased PROVE InputReleased'
  <2> SUFFICES ASSUME NEW t \in Terminal, inputOwner[t] # NoOwner
               PROVE  \/ inputOwner[t] \in registered'
                      \/ \E g \in Generation : pc'[<<inputOwner[t], g>>] = "freeInput"
    BY <1>1 DEF InputReleased
  <2>1. inputOwner[t] \in Attachment
    BY DEF TypeOK, Lease
  <2>2. ASSUME NEW g \in Generation, pc[<<inputOwner[t], g>>] = "freeInput"
        PROVE  pc'[<<inputOwner[t], g>>] = "freeInput"
    BY <2>1, <2>2, <1>1 DEF Driver
  <2> QED BY <1>1, <1>6, <2>2 DEF InputReleased
<1> QED BY <1>3, <1>4, <1>5, <1>6 DEF InputInv

\* A resumed attachment has a record.
LEMMA InputResumeStep ==
    ASSUME TypeOK, InputInv, NEW a \in Attachment, ResumeAttachment(a)
    PROVE  InputInv' /\ (InputReleased => InputReleased')
<1> DEFINE g0 == generation[a] + 1
           d == <<a, g0>>
<1>0. 0 \in Generation /\ d \in Driver
  BY MaxGenerationAssumption DEF Generation, Driver, ResumeAttachment
<1>1. /\ \A e \in Driver : pc'[e] = IF e = d THEN "rejoin" ELSE pc[e]
      /\ a \in registered /\ \A e \in Driver : ~Preparing(e)
      /\ registered' = registered /\ inputOwner' = inputOwner /\ pane' = pane
      /\ generation' = [generation EXCEPT ![a] = g0]
  BY <1>0 DEF ResumeAttachment, SetPhase, TypeOK, AdmissionFree
<1> HIDE DEF g0
<1>3. Uncreated'
  <2> SUFFICES ASSUME NEW b \in Attachment, pc'[<<b, 0>>] = "none"
               PROVE  b \notin registered' /\ \A g \in Generation : pc'[<<b, g>>] = "none"
    BY DEF Uncreated
  <2>1. <<b, 0>> \in Driver
    BY <1>0 DEF Driver
  <2>2. pc[<<b, 0>>] = "none"
    BY <1>1, <2>1
  <2>3. b \notin registered /\ \A g \in Generation : pc[<<b, g>>] = "none"
    BY <2>2 DEF InputInv, Uncreated
  <2>4. ASSUME NEW g \in Generation PROVE pc'[<<b, g>>] = "none"
    BY <1>1, <2>3 DEF Driver
  <2> QED BY <1>1, <2>3, <2>4
<1>4. OwnerHere'
  <2> SUFFICES ASSUME NEW t \in Terminal, inputOwner[t] # NoOwner
               PROVE  pane[inputOwner[t]] = t /\ pc'[<<inputOwner[t], 0>>] # "none"
    BY <1>1 DEF OwnerHere
  <2>1. <<inputOwner[t], 0>> \in Driver
    BY <1>0 DEF TypeOK, Lease, Driver
  <2>2. pane[inputOwner[t]] = t /\ pc[<<inputOwner[t], 0>>] # "none"
    BY DEF InputInv, OwnerHere
  <2> QED BY <1>1, <2>1, <2>2
<1>5. PreparedCurrent'
  <2> SUFFICES ASSUME NEW e \in Driver, Preparing(e)' PROVE Current(e)'
    BY DEF PreparedCurrent
  <2>1. e = d
    BY <1>1 DEF Preparing
  <2>2. generation'[a] = g0
    BY <1>1 DEF TypeOK
  <2> QED BY <1>1, <2>1, <2>2 DEF Current
<1>6. ASSUME InputReleased PROVE InputReleased'
  <2> SUFFICES ASSUME NEW t \in Terminal, inputOwner[t] # NoOwner
               PROVE  \/ inputOwner[t] \in registered'
                      \/ \E g \in Generation : pc'[<<inputOwner[t], g>>] = "freeInput"
    BY <1>1 DEF InputReleased
  <2>1. inputOwner[t] \in Attachment
    BY DEF TypeOK, Lease
  <2>2. ASSUME NEW g \in Generation, pc[<<inputOwner[t], g>>] = "freeInput", inputOwner[t] # a
        PROVE  pc'[<<inputOwner[t], g>>] = "freeInput"
    BY <2>1, <2>2, <1>1 DEF Driver
  <2> QED BY <1>1, <1>6, <2>2 DEF InputReleased
<1> QED BY <1>3, <1>4, <1>5, <1>6 DEF InputInv

\* Every step keeps the invariant, and every other step keeps InputReleased.
LEMMA InputStep ==
    TypeOK /\ InputInv /\ [Next]_vars =>
        InputInv' /\ (InputReleased => InputReleased' \/ StaleAcquire)
<1> SUFFICES ASSUME TypeOK, InputInv, [Next]_vars
             PROVE  InputInv' /\ (InputReleased => InputReleased' \/ StaleAcquire)
  OBVIOUS
<1>1. ASSUME NEW d \in Driver, NEW w \in BOOLEAN, RequestInitialInput(d, w)
      PROVE  InputInv' /\ (InputReleased => InputReleased')
  <2> DEFINE o == RequestInitial(inputOwner[pane[d[1]]], d[1], w)
  <2>1. /\ pc[d] = "input" /\ SetPhase(d, "layout") /\ UNCHANGED records
        /\ inputOwner' = [inputOwner EXCEPT ![pane[d[1]]] = o]
    BY <1>1 DEF RequestInitialInput
  <2>2. o \in {inputOwner[pane[d[1]]], d[1], NoOwner}
    BY DEF RequestInitial
  <2>3. Preparing(d) /\ Current(d)
    BY <2>1 DEF Preparing, InputInv, PreparedCurrent
  <2>4. "layout" \in Phase \ {"none"}
    BY DEF Phase
  <2> HIDE DEF o
  <2> QED BY <2>1, <2>2, <2>3, <2>4, InputLeaseStep
<1>2. ASSUME NEW d \in Driver, AcquireInput(d)
      PROVE  InputInv' /\ (InputReleased => InputReleased' \/ StaleAcquire)
  <2> DEFINE o == AcquireLease(inputOwner[pane[d[1]]], d[1])
  <2>1. /\ pc[d] = "acquireInput" /\ SetPhase(d, "live") /\ UNCHANGED records
        /\ inputOwner' = [inputOwner EXCEPT ![pane[d[1]]] = o]
    BY <1>2 DEF AcquireInput
  <2>2. o \in {inputOwner[pane[d[1]]], d[1], NoOwner}
    BY DEF AcquireLease
  <2>3. "live" \in Phase \ {"none"}
    BY DEF Phase
  <2>4. CASE Current(d)
    <3> HIDE DEF o
    <3> QED BY <2>1, <2>2, <2>3, <2>4, InputLeaseStep
  <2>5. CASE ~Current(d)
    <3>1. StaleAcquire
      BY <1>2, <2>5 DEF StaleAcquire
    <3> HIDE DEF o
    <3> QED BY <2>1, <2>2, <2>3, <3>1, InputLeaseStep
  <2> QED BY <2>4, <2>5
<1>3. ASSUME NEW d \in Driver, ReleaseInput(d) \/ FreeInput(d)
      PROVE  InputInv' /\ (InputReleased => InputReleased')
  <2> DEFINE o == ReleaseLease(inputOwner[pane[d[1]]], d[1])
  <2>1. PICK p \in {"live", "freeLayout"} :
           /\ pc[d] # "none" /\ SetPhase(d, p) /\ UNCHANGED records
           /\ inputOwner' = [inputOwner EXCEPT ![pane[d[1]]] = o]
    BY <1>3 DEF ReleaseInput, FreeInput
  <2>2. o \in {inputOwner[pane[d[1]]], d[1], NoOwner} /\ o # d[1]
    BY DriverParts, NoOwnerAssumption DEF ReleaseLease
  <2>3. p \in Phase \ {"none"}
    BY DEF Phase
  <2> HIDE DEF o
  <2> QED BY <2>1, <2>2, <2>3, InputLeaseStep
<1>4. ASSUME UNCHANGED <<records, inputOwner, pc>>
      PROVE  InputInv' /\ (InputReleased => InputReleased')
  BY <1>4 DEF records, InputInv, Uncreated, OwnerHere, PreparedCurrent, Preparing, Current,
     InputReleased
<1> QED BY <1>1, <1>2, <1>3, <1>4, InputKinds, InputOtherStep, InputCreateStep, InputResumeStep

\* Nobody owns anything at first.
LEMMA InputInit == Init => InputInv /\ InputReleased
BY MaxGenerationAssumption DEF Init, InputInv, Uncreated, OwnerHere, PreparedCurrent, Preparing,
   InputReleased, Driver, Generation

\* The invariant of the input leases holds throughout.
LEMMA InputInvariant == Spec => []InputInv
BY InputStep, InputInit, TypeCorrect, PTL DEF Spec

\* For any number of reconnects: an attachment that is gone keeps or gains an
\* input lease only if a superseded connection carries out an AcquireInput it
\* had read before it was superseded (process_lease_change does not look at
\* the generation).  Closing, expiring, resuming and creating attachments in
\* any order never leave a lease behind.
THEOREM InputLeaseLostOnlyByStaleAcquire ==
    Spec => InputLostOnlyByStaleAcquire
BY InputStep, InputInvariant, TypeCorrect, PTL DEF Spec, InputLostOnlyByStaleAcquire
=============================================================================
