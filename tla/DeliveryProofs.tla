--------------------------- MODULE DeliveryProofs ---------------------------
(***************************************************************************)
(* Proofs about module AttachmentController, with the daemon's side in       *)
(* OutputDelivery and the terminal in TerminalStream, for any capacities,    *)
(* windows and bounds.                                                      *)
(*                                                                         *)
(* The argument: while the applied position is known, only output is under  *)
(* way and every frame of it is in flight; while a checkpoint is pending,   *)
(* it is the only frame under way that changes the screen.  So frames       *)
(* arrive in order, acknowledgements name frames in flight, and the screen  *)
(* is replaced before it is sent output of another revision.                *)
(***************************************************************************)
EXTENDS AttachmentController, FiniteSetTheorems, WellFoundedInduction, TLAPS

(***************************************************************************)
(* The inductive invariant.                                                 *)
(***************************************************************************)
\* Types, but for the account of the credit, which is a sum.
Shaped ==
    /\ StreamTypeOK
    /\ events \in Seq(Event) /\ lagged \in BOOLEAN
    /\ pc \in Phases
    /\ requested \in Nat \cup {None}
    /\ sent \in Nat
    /\ revision \in Nat \cup {None} /\ applied \in Nat \cup {None}
    /\ inFlight \in Seq([end : Nat, charge : Nat])
    /\ pendingCheckpoint \in BOOLEAN /\ pinned \in BOOLEAN
    /\ pendingEnd \in Nat \cup {None}
    /\ toClient \in Seq(Frame)
    /\ toServer \in Seq(Nat \cup {None})
    /\ running \in BOOLEAN /\ needsCheckpoint \in BOOLEAN
    /\ presented \in BOOLEAN /\ progressDue \in BOOLEAN
    /\ received \in Nat
    /\ resume \in Nat \cup {None} /\ progress \in Nat \cup {None}
    /\ ledger \in Seq(Frame)
    /\ screen \in [pos : Nat, rev : Nat] \cup {Unknown}
    /\ ending \in BOOLEAN /\ told \in BOOLEAN

\* The journal retains the newest output; the checkpoint is of the current
\* revision and can be continued from the journal; the fence is where the
\* current revision began.
Stream ==
    /\ earliest <= next
    /\ checkpoint.seq <= next /\ earliest <= checkpoint.seq /\ checkpoint.rev = Revision
    /\ Revision = 0 => fence = NoCheckpoint
    /\ Revision # 0 => fence \in Checkpoint /\ fence.rev = Revision /\ fence.seq <= next
    /\ \A r \in 1..Len(boundaries) : boundaries[r] <= fence.seq

\* There is no connection, or no reply yet.
Waiting == pc \in {"detached", "subscribed", "refreshed"}

\* The daemon's task.
Task ==
    /\ sent <= next
    /\ Waiting => toClient = <<>> /\ toServer = <<>> /\ ~running /\ inFlight = <<>>
    /\ pc = "refreshed" => requested = None
    /\ pc \in {"loop", "fresh"} => applied # None
    /\ pc = "fresh" => sent <= checkpoint.seq /\ inFlight = <<>>
    /\ \A i \in 1..Len(events) : events[i].kind = "ended" => ended
    /\ pendingEnd # None => ended /\ pendingEnd = next
    /\ pc = "closed" => ended /\ sent = next

\* The boundary a frame brings its reader to.
Pos(f) == IF f.kind = "attached" THEN f.from ELSE f.to

\* A frame that replaces the screen.
Restoring(f) == f.kind = "checkpoint" \/ (f.kind = "attached" /\ f.to # None)

\* What a frame says of itself.
Sound(f) ==
    /\ f.kind = "attached" =>
          f.from \in Nat /\ (f.to = None \/ (f.to = f.from /\ f.rev \in Nat))
    /\ f.kind = "output" => f.from \in Nat /\ f.to \in Nat /\ f.from < f.to
    /\ f.kind = "checkpoint" => f.to \in Nat /\ f.rev \in Nat

\* Frame g may come right after the boundary p.
After(g, p) ==
    /\ g.kind = "output" => g.from = p
    /\ g.kind = "checkpoint" => g.to >= p
    /\ g.kind = "ended" => p = sent

\* The frames on the transport follow one another, up to what was sent.
Frames ==
    /\ \A k \in 1..Len(toClient) :
          /\ Sound(toClient[k])
          /\ toClient[k].kind = "attached" => k = 1 /\ ~running
          /\ toClient[k].kind = "ended" => k = Len(toClient) /\ pc = "closed"
          /\ toClient[k].kind # "ended" => Pos(toClient[k]) <= sent
          /\ k = Len(toClient) /\ toClient[k].kind # "ended" => Pos(toClient[k]) = sent
          /\ k < Len(toClient) => After(toClient[k + 1], Pos(toClient[k]))
          /\ running /\ toClient[k].kind = "output" => received <= toClient[k].from
    /\ \A i, j \in 1..Len(toClient) :
          i < j /\ toClient[j].kind = "output" => Pos(toClient[i]) <= toClient[j].from
    /\ running => received <= sent
    /\ running /\ toClient # <<>> => After(toClient[1], received)
    /\ running /\ toClient = <<>> => received = sent
    /\ ~running /\ ~Waiting /\ toClient = <<>> => pc = "closed" /\ (told \/ ending)
    /\ ~running /\ toClient # <<>> => toClient[1].kind = "attached"
    /\ told \/ ending => toClient = <<>> /\ ~running /\ pc \in {"closed", "detached"} /\ ended

\* A frame in flight ends at the boundary n.
InFlight(n) == \E i \in 1..Len(inFlight) : inFlight[i].end = n

\* The frames in flight are those not acknowledged, and acknowledgements arrive
\* in order, each for a frame in flight or for the pending checkpoint.
Flow ==
    /\ \A i \in 1..Len(inFlight) :
          /\ applied # None /\ applied < inFlight[i].end
          /\ inFlight[i].end <= sent
          /\ i = Len(inFlight) => inFlight[i].end = sent
    /\ \A i, j \in 1..Len(inFlight) : i < j => inFlight[i].end < inFlight[j].end
    /\ ~Waiting /\ applied # None /\ inFlight = <<>> => applied = sent
    /\ ~Waiting /\ applied # None => applied <= sent
    /\ ~Waiting /\ applied # None =>
          \A i \in 1..Len(toServer) : toServer[i] # None =>
                /\ applied < toServer[i] /\ InFlight(toServer[i])
                /\ progressDue => toServer[i] < progress
    /\ ~Waiting /\ applied # None /\ progressDue =>
          progress \in Nat /\ applied < progress /\ InFlight(progress)
    /\ ~Waiting /\ applied = None =>
          \A i \in 1..Len(toServer) : toServer[i] # None => toServer[i] = sent /\ ~progressDue
    /\ ~Waiting /\ applied = None /\ progressDue => progress = sent
    /\ \A i, j \in 1..Len(toServer) :
          i < j /\ toServer[i] # None /\ toServer[j] # None => toServer[i] < toServer[j]

\* No acknowledgement is under way beyond p.
Behind(p) ==
    /\ progressDue => progress <= p
    /\ \A i \in 1..Len(toServer) : toServer[i] # None => toServer[i] <= p

\* No acknowledgement is under way.
Silent ==
    /\ ~progressDue
    /\ \A i \in 1..Len(toServer) : toServer[i] = None

\* Output that is under way is in flight, and not acknowledged.
Pending(f) == InFlight(f.to) /\ Behind(f.from) /\ applied <= f.from

\* While the applied position is known, only output is under way, ...
Streaming ==
    ~Waiting /\ applied # None =>
        /\ \A k \in 1..Len(toClient) :
              /\ toClient[k].kind # "checkpoint"
              /\ toClient[k].kind = "attached" => toClient[k].to = None
              /\ toClient[k].kind = "output" => Pending(toClient[k])
        /\ \A k \in 1..Len(ledger) : ledger[k].kind = "output" /\ Pending(ledger[k])

\* ... and while it is not, only the checkpoint or its acknowledgement, after a
\* reply that starts the stream.
Replacing ==
    ~Waiting /\ applied = None =>
        /\ revision \in Nat
        /\ \A k \in 1..Len(toClient) :
              /\ toClient[k].kind # "output"
              /\ toClient[k].kind = "attached" /\ toClient[k].to = None =>
                    Len(toClient) >= 2 /\ toClient[2].kind = "checkpoint"
              /\ toClient[k].kind = "checkpoint" =>
                    \/ k = 1
                    \/ k = 2 /\ toClient[1].kind = "attached" /\ toClient[1].to = None
              /\ Restoring(toClient[k]) =>
                    /\ toClient[k].to = sent /\ toClient[k].rev = revision
                    /\ ledger = <<>> /\ Silent
        /\ ledger # <<>> =>
              /\ Len(ledger) = 1 /\ ledger[1].kind = "checkpoint"
              /\ ledger[1].to = sent /\ ledger[1].rev = revision
              /\ Silent

\* What is queued for the renderer.
Queue ==
    /\ ~running => ~presented /\ ~progressDue
    /\ ~running /\ ~ending => ledger = <<>>
    /\ presented => ledger # <<>>
    /\ \A k \in 1..Len(ledger) :
          /\ ledger[k].kind \in {"output", "checkpoint"}
          /\ Sound(ledger[k])
          /\ ledger[k].kind = "checkpoint" => Len(ledger) = 1
          /\ ledger[k].to <= received
          /\ k = Len(ledger) => ledger[k].to = received
          /\ k < Len(ledger) => ledger[k + 1].from = ledger[k].to
    /\ \A i, j \in 1..Len(ledger) : i < j => ledger[i].to <= ledger[j].from
    /\ presented /\ screen # Unknown => screen.pos = ledger[1].to
    /\ received <= next
    /\ running /\ ledger # <<>> /\ ledger[1].kind = "checkpoint" => needsCheckpoint

\* The cursor of the controller, and the one a client attaches with.
Resume ==
    /\ resume # None => screen # Unknown /\ resume <= screen.pos
    /\ resume # None /\ ledger # <<>> => ledger[1].kind = "output" /\ resume <= ledger[1].from
    /\ resume # None /\ running => resume <= received
    /\ running /\ ~needsCheckpoint => screen # Unknown
    /\ screen # Unknown => screen.pos <= next
    /\ requested # None /\ Waiting /\ pc # "detached" => screen # Unknown /\ requested <= screen.pos
    /\ toClient # <<>> /\ toClient[1].kind = "attached" /\ toClient[1].to = None =>
          screen # Unknown /\ toClient[1].from <= screen.pos

\* A screen of revision rev may show the output up to p.
Covers(p, rev) == \A r \in 1..Len(boundaries) : boundaries[r] < p => r <= rev

\* The renderer's screen, when the renderer keeps its own cursor: ...
ScreenShown ==
    /\ screen # Unknown => Covers(screen.pos, screen.rev)
    /\ told => screen # Unknown /\ screen.pos = next
    /\ ending => received = next
    /\ (running \/ ending) /\ ledger = <<>> => screen # Unknown /\ screen.pos = received
    /\ presented => screen # Unknown
    /\ presented /\ ledger[1].kind = "checkpoint" => screen.rev = ledger[1].rev
    /\ ledger # <<>> /\ ledger[1].kind = "output" =>
          screen # Unknown /\ Covers(received, screen.rev) /\ (~presented => screen.pos = ledger[1].from)
    /\ ledger # <<>> /\ ledger[1].kind = "checkpoint" /\ ~presented =>
          (screen # Unknown => screen.pos <= ledger[1].to) /\ Covers(ledger[1].to, ledger[1].rev)

\* ... what it will be when the frames under way arrive.
ScreenSent ==
    /\ requested # None /\ Waiting /\ pc # "detached" => requested = screen.pos
    /\ pc = "refreshed" => (screen # Unknown => screen.pos <= checkpoint.seq)
    /\ toClient # <<>> /\ toClient[1].kind = "attached" /\ screen # Unknown =>
          screen.pos <= toClient[1].from /\ (toClient[1].to = None => toClient[1].from = screen.pos)
    /\ ~Waiting /\ applied # None =>
          screen # Unknown /\ Covers(sent, screen.rev) /\ (revision # None => revision = screen.rev)
    /\ ~Waiting /\ applied = None => Covers(sent, revision)
    /\ ~Waiting /\ applied = None /\ ~Silent => screen # Unknown /\ screen.rev = revision

Shown == ~Interactive => ScreenShown /\ ScreenSent

DeliveryInv ==
    Shaped /\ Stream /\ Task /\ Frames /\ Flow /\ Streaming /\ Replacing /\ Queue /\ Resume /\ Shown

(***************************************************************************)
(* Sequences, by their elements.                                            *)
(***************************************************************************)
\* What Append adds.
LEMMA Appended ==
    ASSUME NEW S, NEW s \in Seq(S), NEW e \in S
    PROVE  /\ Append(s, e) \in Seq(S) /\ Append(s, e) # <<>>
           /\ Len(Append(s, e)) = Len(s) + 1
           /\ \A i \in 1..Len(s) : Append(s, e)[i] = s[i]
           /\ Append(s, e)[Len(s) + 1] = e
  OBVIOUS

\* Its elements, old and new.
LEMMA AppendedCases ==
    ASSUME NEW S, NEW s \in Seq(S), NEW e \in S, NEW k \in 1..Len(Append(s, e))
    PROVE  \/ k \in 1..Len(s) /\ Append(s, e)[k] = s[k]
           \/ k = Len(s) + 1 /\ Append(s, e)[k] = e
  <1>1. /\ Len(Append(s, e)) = Len(s) + 1 /\ Len(s) \in Nat
        /\ \A i \in 1..Len(s) : Append(s, e)[i] = s[i]
        /\ Append(s, e)[Len(s) + 1] = e
    BY Appended
  <1>2. CASE k = Len(s) + 1
    <2>1. Append(s, e)[k] = e
      BY <1>1, <1>2
    <2> QED BY <1>2, <2>1
  <1>3. CASE k # Len(s) + 1
    <2>1. k \in 1..Len(s)
      BY <1>1, <1>3
    <2> QED BY <1>1, <2>1
  <1> QED BY <1>2, <1>3

\* A sequence is empty when its length is zero.
LEMMA EmptySeq ==
    ASSUME NEW S, NEW s \in Seq(S)
    PROVE  Len(s) \in Nat /\ (s = <<>> <=> Len(s) = 0)
  OBVIOUS

\* What Tail leaves.
LEMMA Rest ==
    ASSUME NEW S, NEW s \in Seq(S), s # <<>>
    PROVE  /\ Tail(s) \in Seq(S) /\ Head(s) = s[1] /\ Head(s) \in S
           /\ Len(s) >= 1
           /\ Len(Tail(s)) = Len(s) - 1
           /\ \A i \in 1..Len(Tail(s)) : i + 1 \in 1..Len(s) /\ Tail(s)[i] = s[i + 1]
           /\ (Tail(s) = <<>> <=> Len(s) = 1)
  <1>1. /\ Tail(s) \in Seq(S) /\ Head(s) = s[1] /\ Head(s) \in S
        /\ Len(s) >= 1
        /\ Len(Tail(s)) = Len(s) - 1
        /\ \A i \in 1..Len(Tail(s)) : i + 1 \in 1..Len(s) /\ Tail(s)[i] = s[i + 1]
    OBVIOUS
  <1> QED BY <1>1, EmptySeq

\* The elements of a sequence.
LEMMA Elements ==
    ASSUME NEW S, NEW s \in Seq(S)
    PROVE  \A i \in 1..Len(s) : s[i] \in S
  OBVIOUS

\* What is left after the first k elements.
LEMMA Suffix ==
    ASSUME NEW S, NEW s \in Seq(S), NEW k \in 0..Len(s)
    PROVE  /\ SubSeq(s, k + 1, Len(s)) \in Seq(S)
           /\ Len(SubSeq(s, k + 1, Len(s))) = Len(s) - k
           /\ \A i \in 1..(Len(s) - k) :
                 k + i \in 1..Len(s) /\ SubSeq(s, k + 1, Len(s))[i] = s[k + i]
  OBVIOUS

(***************************************************************************)
(* Steps that write nothing to the transport: the terminal, and the task    *)
(* between its frames.                                                      *)
(***************************************************************************)
\* The terminal goes on.
Grown ==
    /\ next' \in Nat /\ next <= next' /\ (ended => ended' /\ next' = next)
    /\ Len(boundaries) <= Len(boundaries')
    /\ \A r \in 1..Len(boundaries) : boundaries'[r] = boundaries[r]
    /\ \A r \in 1..Len(boundaries') : r > Len(boundaries) => boundaries'[r] = next'
    /\ checkpoint.seq <= checkpoint'.seq

\* Where the task goes.
Moves ==
    \/ pc' = pc
    \/ /\ pc \in {"idle", "enter", "loop"} /\ pc' \in {"idle", "enter", "loop", "fresh"}
       /\ pc' \in {"loop", "fresh"} => applied # None
       /\ pc' = "fresh" => inFlight = <<>> /\ checkpoint'.seq = next'
    \/ pc = "subscribed" /\ pc' = "refreshed" /\ checkpoint'.seq = next' /\ requested = None

Background ==
    /\ Grown /\ Moves
    /\ StreamTypeOK' /\ Stream'
    /\ events' \in Seq(Event) /\ lagged' \in BOOLEAN
    /\ \A i \in 1..Len(events') : events'[i].kind = "ended" => ended'
    /\ pendingEnd' \in Nat \cup {None}
    /\ pendingEnd' # None => ended' /\ pendingEnd' = next'
    /\ pinned' \in BOOLEAN
    /\ UNCHANGED <<requested, sent, revision, applied, inFlight, pendingCheckpoint, toClient, toServer>>
    /\ UNCHANGED clientVars

\* Output keeps the terminal's part.
LEMMA AppendOutputGrows ==
    ASSUME Shaped, Stream, NEW n \in 1..MaxSequence, NEW replaced \in BOOLEAN, AppendOutput(n, replaced)
    PROVE  Grown /\ StreamTypeOK' /\ Stream'
  <1> USE StreamAssumption
  <1>1. /\ next \in Nat /\ earliest \in Nat /\ boundaries \in Seq(Nat) /\ checkpoint \in Checkpoint
        /\ fence \in Checkpoint \cup {NoCheckpoint} /\ ended \in BOOLEAN
        /\ n \in Nat /\ n > 0 /\ Capacity \in Nat /\ Capacity > 0
    BY DEF Shaped, StreamTypeOK
  <1>2. /\ ~ended /\ ended' = ended
        /\ next' = next + n /\ next' \in Nat /\ next <= next'
        /\ earliest' \in Nat /\ earliest' <= next' /\ earliest <= earliest'
    BY <1>1 DEF AppendOutput, Larger, Stream
  <1>3. CASE replaced
    <2>1. boundaries' = Append(boundaries, next')
      BY <1>2, <1>3 DEF AppendOutput
    <2>2. /\ boundaries' \in Seq(Nat) /\ Len(boundaries') = Len(boundaries) + 1
          /\ \A r \in 1..Len(boundaries) : boundaries'[r] = boundaries[r]
          /\ boundaries'[Len(boundaries) + 1] = next'
      BY <1>1, <1>2, <2>1, Appended
    <2>3. checkpoint' = [seq |-> next', rev |-> Len(boundaries')] /\ fence' = checkpoint'
      BY <1>2, <1>3 DEF AppendOutput
    <2>4. Len(boundaries) \in Nat /\ Len(boundaries') \in Nat
      BY <1>1, <2>2
    <2>5. \A r \in 1..Len(boundaries) : boundaries[r] \in Nat /\ boundaries[r] <= next
      <3>1. CASE Len(boundaries) = 0
        BY <3>1
      <3>2. CASE Len(boundaries) # 0
        BY <1>1, <2>4, <3>2 DEF Stream, Revision, Checkpoint
      <3> QED BY <3>1, <3>2
    <2>6. Grown /\ StreamTypeOK'
      BY <1>1, <1>2, <2>2, <2>3, <2>4 DEF Grown, StreamTypeOK, Checkpoint, Stream
    <2>7. \A r \in 1..Len(boundaries') : boundaries'[r] <= next'
      <3> TAKE r \in 1..Len(boundaries')
      <3>1. CASE r = Len(boundaries) + 1
        BY <1>2, <2>2, <3>1
      <3>2. CASE r # Len(boundaries) + 1
        <4>1. r \in 1..Len(boundaries)
          BY <2>2, <2>4, <3>2
        <4>2. boundaries'[r] = boundaries[r] /\ boundaries[r] \in Nat /\ boundaries[r] <= next
          BY <2>2, <2>5, <4>1
        <4> QED BY <1>1, <1>2, <4>2
      <3> QED BY <3>1, <3>2
    <2> QED BY <1>1, <1>2, <2>2, <2>3, <2>4, <2>6, <2>7 DEF Stream, Revision, Checkpoint
  <1>4. CASE ~replaced
    <2>1. boundaries' = boundaries /\ fence' = fence
      BY <1>4 DEF AppendOutput
    <2>2. \/ checkpoint' = [seq |-> next', rev |-> Len(boundaries)]
          \/ checkpoint' = checkpoint /\ earliest' <= checkpoint.seq
      BY <1>1, <1>2, <1>4, <2>1 DEF AppendOutput, Checkpoint
    <2>3. Len(boundaries) \in Nat
      BY <1>1
    <2>4. Grown /\ StreamTypeOK'
      BY <1>1, <1>2, <2>1, <2>2, <2>3 DEF Grown, StreamTypeOK, Checkpoint, Stream
    <2> QED BY <1>1, <1>2, <2>1, <2>2, <2>3, <2>4 DEF Stream, Revision, Checkpoint
  <1> QED BY <1>3, <1>4

\* So does a resize.
LEMMA ResizeGrows ==
    ASSUME Shaped, Stream, ResizePty
    PROVE  Grown /\ StreamTypeOK' /\ Stream'
  <1>1. /\ next \in Nat /\ earliest \in Nat /\ boundaries \in Seq(Nat) /\ checkpoint \in Checkpoint
        /\ fence \in Checkpoint \cup {NoCheckpoint} /\ ended \in BOOLEAN
    BY DEF Shaped, StreamTypeOK
  <1>2. /\ boundaries' = Append(boundaries, next) /\ next' = next /\ earliest' = earliest
        /\ ended' = ended
        /\ checkpoint' = [seq |-> next, rev |-> Len(boundaries) + 1] /\ fence' = checkpoint'
    BY DEF ResizePty, Revision
  <1>3. /\ boundaries' \in Seq(Nat) /\ Len(boundaries') = Len(boundaries) + 1
        /\ \A r \in 1..Len(boundaries) : boundaries'[r] = boundaries[r]
        /\ boundaries'[Len(boundaries) + 1] = next
    BY <1>1, <1>2, Appended
  <1>4. Len(boundaries) \in Nat /\ Len(boundaries') \in Nat
    BY <1>1, <1>3
  <1>5. \A r \in 1..Len(boundaries) : boundaries[r] \in Nat /\ boundaries[r] <= next
    <2>1. CASE Len(boundaries) = 0
      BY <2>1
    <2>2. CASE Len(boundaries) # 0
      BY <1>1, <1>4, <2>2 DEF Stream, Revision, Checkpoint
    <2> QED BY <2>1, <2>2
  <1>6. Grown /\ StreamTypeOK'
    BY <1>1, <1>2, <1>3, <1>4 DEF Grown, StreamTypeOK, Checkpoint, Stream
  <1> QED BY <1>1, <1>2, <1>3, <1>4, <1>5, <1>6 DEF Stream, Revision, Checkpoint

\* And a refresh of the checkpoint, which is then current.
LEMMA RefreshGrows ==
    ASSUME Shaped, Stream, RefreshCheckpoint
    PROVE  Grown /\ StreamTypeOK' /\ Stream' /\ checkpoint'.seq = next'
  <1>1. /\ next \in Nat /\ earliest \in Nat /\ boundaries \in Seq(Nat) /\ checkpoint \in Checkpoint
        /\ fence \in Checkpoint \cup {NoCheckpoint} /\ ended \in BOOLEAN
        /\ Len(boundaries) \in Nat
    BY DEF Shaped, StreamTypeOK
  <1>2. /\ boundaries' = boundaries /\ next' = next /\ earliest' = earliest /\ fence' = fence
        /\ ended' = ended /\ checkpoint' = [seq |-> next, rev |-> Len(boundaries)]
    BY DEF RefreshCheckpoint, Revision
  <1> QED BY <1>1, <1>2 DEF Grown, StreamTypeOK, Checkpoint, Stream, Revision

\* And leaving it alone, or ended.
LEMMA StillGrows ==
    ASSUME Shaped, Stream, UNCHANGED <<next, earliest, boundaries, checkpoint, fence>>,
           ended' \in BOOLEAN, ended => ended'
    PROVE  Grown /\ StreamTypeOK' /\ Stream'
  <1>1. /\ next \in Nat /\ earliest \in Nat /\ boundaries \in Seq(Nat) /\ checkpoint \in Checkpoint
        /\ fence \in Checkpoint \cup {NoCheckpoint} /\ Len(boundaries) \in Nat
    BY DEF Shaped, StreamTypeOK
  <1> QED BY <1>1 DEF Grown, StreamTypeOK, Checkpoint, Stream, Revision

\* The broadcast queues an event, or drops the oldest one for it.
LEMMA BroadcastQueues ==
    ASSUME Shaped, Task, NEW e \in Event, Broadcast(e), ended' \in BOOLEAN,
           ended => ended', e.kind = "ended" => ended'
    PROVE  /\ events' \in Seq(Event) /\ lagged' \in BOOLEAN
           /\ \A i \in 1..Len(events') : events'[i].kind = "ended" => ended'
  <1>1. events \in Seq(Event) /\ lagged \in BOOLEAN /\ Len(events) \in Nat
        /\ \A i \in 1..Len(events) : events[i].kind = "ended" => ended
    BY DEF Shaped, Task
  <1>2. CASE UNCHANGED <<events, lagged>>
    BY <1>1, <1>2
  <1>3. CASE events' = Append(events, e) /\ lagged' = lagged
    BY <1>1, <1>3, Appended
  <1>4. CASE Len(events) = EventCapacity /\ events' = Append(Tail(events), e) /\ lagged' = TRUE
    <2>1. events # <<>>
      BY <1>1, <1>4, DeliveryAssumption
    <2>2. /\ Tail(events) \in Seq(Event)
          /\ \A i \in 1..Len(Tail(events)) : i + 1 \in 1..Len(events) /\ Tail(events)[i] = events[i + 1]
      BY <1>1, <2>1, Rest
    <2>3. /\ Append(Tail(events), e) \in Seq(Event)
          /\ Len(Append(Tail(events), e)) = Len(Tail(events)) + 1
          /\ \A i \in 1..Len(Tail(events)) : Append(Tail(events), e)[i] = Tail(events)[i]
          /\ Append(Tail(events), e)[Len(Tail(events)) + 1] = e
      BY <2>2, Appended
    <2>4. Len(Tail(events)) \in Nat
      BY <2>2
    <2>5. \A i \in 1..Len(events') : events'[i].kind = "ended" => ended'
      BY <1>1, <1>4, <2>2, <2>3, <2>4
    <2> QED BY <1>4, <2>3, <2>5
  <1> QED BY <1>2, <1>3, <1>4 DEF Broadcast

\* The steps of the terminal are of this kind, ...
LEMMA TerminalBackground ==
    ASSUME DeliveryInv, Terminal, UNCHANGED clientVars
    PROVE  Background
  <1>1. Shaped /\ Stream /\ Task
    BY DEF DeliveryInv
  <1>2. /\ next \in Nat /\ ended \in BOOLEAN /\ pendingEnd \in Nat \cup {None} /\ pinned \in BOOLEAN
        /\ boundaries \in Seq(Nat) /\ Len(boundaries) \in Nat
        /\ pendingEnd # None => ended /\ pendingEnd = next
    BY <1>1 DEF Shaped, StreamTypeOK, Task
  <1>3. ASSUME NEW n \in 1..MaxSequence, NEW replaced \in BOOLEAN, ReadPty(n, replaced)
        PROVE  Background
    <2>1. Grown /\ StreamTypeOK' /\ Stream' /\ ended' \in BOOLEAN /\ (ended => ended')
      BY <1>1, <1>3, AppendOutputGrows DEF ReadPty, Grown, StreamTypeOK
    <2>2. [kind |-> "output", seq |-> None, rev |-> None] \in Event
      BY DEF Event
    <2>3. /\ events' \in Seq(Event) /\ lagged' \in BOOLEAN
          /\ \A i \in 1..Len(events') : events'[i].kind = "ended" => ended'
      BY <1>1, <1>3, <2>1, <2>2, BroadcastQueues DEF ReadPty
    <2>4. Moves
      BY <1>3 DEF ReadPty, Moves
    <2> QED BY <1>2, <1>3, <2>1, <2>3, <2>4
            DEF ReadPty, AppendOutput, Background, driverVars, transport, Grown
  <1>4. CASE Resize
    <2>1. Grown /\ StreamTypeOK' /\ Stream' /\ ended' \in BOOLEAN /\ (ended => ended')
      BY <1>1, <1>4, ResizeGrows DEF Resize, Grown, StreamTypeOK
    <2>2. [kind |-> "geometry", seq |-> next, rev |-> Revision + 1] \in Event
      BY <1>2 DEF Event, Revision
    <2>3. /\ events' \in Seq(Event) /\ lagged' \in BOOLEAN
          /\ \A i \in 1..Len(events') : events'[i].kind = "ended" => ended'
      BY <1>1, <1>4, <2>1, <2>2, BroadcastQueues DEF Resize
    <2>4. Moves
      BY <1>4 DEF Resize, Moves
    <2> QED BY <1>2, <1>4, <2>1, <2>3, <2>4
            DEF Resize, ResizePty, Background, driverVars, transport, Grown
  <1>5. CASE End
    <2>1. ended' \in BOOLEAN /\ (ended => ended') /\ ended'
      BY <1>5 DEF End, PublishEnded
    <2>2. Grown /\ StreamTypeOK' /\ Stream'
      BY <1>1, <1>5, <2>1, StillGrows DEF End, PublishEnded
    <2>3. [kind |-> "ended", seq |-> None, rev |-> None] \in Event
      BY DEF Event
    <2>4. /\ events' \in Seq(Event) /\ lagged' \in BOOLEAN
          /\ \A i \in 1..Len(events') : events'[i].kind = "ended" => ended'
      BY <1>1, <1>5, <2>1, <2>3, BroadcastQueues DEF End
    <2>5. Moves
      BY <1>5 DEF End, Moves
    <2> QED BY <1>2, <1>5, <2>1, <2>2, <2>4, <2>5
            DEF End, PublishEnded, Background, driverVars, transport
  <1> QED BY <1>3, <1>4, <1>5 DEF Terminal

\* ... and so are these of the task.
LEMMA TaskBackground ==
    ASSUME DeliveryInv, UNCHANGED clientVars,
           RefreshInitial \/ RecoverFromLag \/ ProcessEvent \/ FinishHistory \/ EnterSend \/ StopSending
    PROVE  Background
  <1>1. Shaped /\ Stream /\ Task
    BY DEF DeliveryInv
  <1>2. /\ next \in Nat /\ ended \in BOOLEAN /\ pendingEnd \in Nat \cup {None} /\ pinned \in BOOLEAN
        /\ events \in Seq(Event) /\ lagged \in BOOLEAN
        /\ \A i \in 1..Len(events) : events[i].kind = "ended" => ended
        /\ pendingEnd # None => ended /\ pendingEnd = next
    BY <1>1 DEF Shaped, StreamTypeOK, Task
  <1>3. ASSUME UNCHANGED streamVars
        PROVE  Grown /\ StreamTypeOK' /\ Stream'
    BY <1>1, <1>2, <1>3, StillGrows DEF streamVars
  <1>4. CASE RefreshInitial
    <2>1. Grown /\ StreamTypeOK' /\ Stream' /\ checkpoint'.seq = next' /\ ended' = ended /\ next' = next
      BY <1>1, <1>4, RefreshGrows DEF RefreshInitial, RefreshCheckpoint
    <2>2. Moves
      BY <1>4, <2>1 DEF RefreshInitial, Moves
    <2> QED BY <1>2, <1>4, <2>1, <2>2 DEF RefreshInitial, Background, driverVars, transport
  <1>5. CASE RecoverFromLag
    <2>1. Moves
      BY <1>5 DEF RecoverFromLag, Moves
    <2> QED BY <1>2, <1>3, <1>5, <2>1
            DEF RecoverFromLag, Background, driverVars, transport, streamVars
  <1>6. CASE ProcessEvent
    <2>1. events # <<>> /\ events' = Tail(events)
      BY <1>6 DEF ProcessEvent
    <2>2. /\ Tail(events) \in Seq(Event) /\ Head(events) = events[1] /\ 1 \in 1..Len(events)
          /\ \A i \in 1..Len(Tail(events)) : i + 1 \in 1..Len(events) /\ Tail(events)[i] = events[i + 1]
      BY <1>2, <2>1, Rest
    <2>3. /\ next' = next /\ ended' = ended /\ lagged' = lagged /\ pinned' = pinned
          /\ pendingEnd' = IF Head(events).kind = "ended" THEN next ELSE pendingEnd
      BY <1>6 DEF ProcessEvent, streamVars
    <2>4. \A i \in 1..Len(events') : events'[i].kind = "ended" => ended'
      BY <1>2, <2>1, <2>2, <2>3
    <2>5. /\ pendingEnd' \in Nat \cup {None}
          /\ pendingEnd' # None => ended' /\ pendingEnd' = next'
      BY <1>2, <2>2, <2>3
    <2>6. pc = "idle" /\ pc' \in {"idle", "enter"}
      BY <1>6 DEF ProcessEvent
    <2>7. Moves
      BY <2>6 DEF Moves
    <2> QED BY <1>2, <1>3, <1>6, <2>1, <2>2, <2>3, <2>4, <2>5, <2>7
            DEF ProcessEvent, Background, transport
  <1>7. CASE FinishHistory
    <2>1. Moves
      BY <1>7 DEF FinishHistory, Moves
    <2> QED BY <1>2, <1>3, <1>7, <2>1
            DEF FinishHistory, Background, transport, streamVars
  <1>8. CASE EnterSend
    <2>1. CASE applied # None /\ pendingCheckpoint /\ inFlight = <<>>
      <3>1. Grown /\ StreamTypeOK' /\ Stream' /\ checkpoint'.seq = next' /\ ended' = ended /\ next' = next
        BY <1>1, <1>8, <2>1, RefreshGrows DEF EnterSend, RefreshCheckpoint
      <3>2. Moves
        BY <1>8, <2>1, <3>1 DEF EnterSend, Moves
      <3> QED BY <1>2, <1>8, <3>1, <3>2 DEF EnterSend, Background, driverVars, transport
    <2>2. CASE ~(applied # None /\ pendingCheckpoint /\ inFlight = <<>>)
      <3>1. UNCHANGED streamVars
        BY <1>8, <2>2 DEF EnterSend
      <3>2. Moves
        BY <1>8, <2>2 DEF EnterSend, Moves
      <3> QED BY <1>2, <1>3, <1>8, <3>1, <3>2
              DEF EnterSend, Background, driverVars, transport, streamVars
    <2> QED BY <2>1, <2>2
  <1>9. CASE StopSending
    <2>1. pc = "loop" /\ pc' = "idle" /\ UNCHANGED <<streamVars, events, lagged, driverVars, transport>>
      BY <1>9 DEF StopSending, ReturnToSelect
    <2>2. Moves
      BY <2>1 DEF Moves
    <2> QED BY <1>2, <1>3, <2>1, <2>2
            DEF Background, driverVars, transport, streamVars
  <1> QED BY <1>4, <1>5, <1>6, <1>7, <1>8, <1>9

\* The screen goes on covering what it covered.
LEMMA CoversGrows ==
    ASSUME Shaped, Grown, boundaries' \in Seq(Nat), NEW p, p <= next, p \in Nat,
           NEW rev, Covers(p, rev)
    PROVE  \A r \in 1..Len(boundaries') : boundaries'[r] < p => r <= rev
  <1>1. next \in Nat /\ boundaries \in Seq(Nat) /\ Len(boundaries) \in Nat /\ Len(boundaries') \in Nat
    BY DEF Shaped, StreamTypeOK
  <1> SUFFICES ASSUME NEW r \in 1..Len(boundaries'), boundaries'[r] < p
               PROVE  r <= rev
    OBVIOUS
  <1>2. r <= Len(boundaries)
    BY <1>1 DEF Grown
  <1>3. r \in 1..Len(boundaries) /\ boundaries[r] < p
    BY <1>1, <1>2 DEF Grown
  <1> QED BY <1>3 DEF Covers

\* These steps keep the invariant.
LEMMA BackgroundKeeps ==
    ASSUME DeliveryInv, Background
    PROVE  DeliveryInv'
  <1> USE DEF None
  <1>1. Shaped /\ Stream /\ Task /\ Frames /\ Flow /\ Streaming /\ Replacing /\ Queue /\ Resume /\ Shown
    BY DEF DeliveryInv
  <1>2. /\ UNCHANGED <<requested, sent, revision, applied, inFlight, pendingCheckpoint, toClient, toServer>>
        /\ UNCHANGED <<running, received, resume, needsCheckpoint, ledger, presented, progress,
                       progressDue, screen, ending, told, connections, requests>>
    BY DEF Background, clientVars, controllerVars, userVars
  <1>3. /\ next \in Nat /\ next' \in Nat /\ next <= next' /\ (ended => ended' /\ next' = next)
        /\ ended \in BOOLEAN /\ ended' \in BOOLEAN
        /\ checkpoint \in Checkpoint /\ checkpoint' \in Checkpoint /\ checkpoint.seq <= checkpoint'.seq
        /\ boundaries' \in Seq(Nat)
    BY <1>1 DEF Background, Grown, Shaped, StreamTypeOK
  <1>4. pc \in Phases /\ pc' \in Phases /\ (Waiting <=> Waiting') /\ (pc = "detached" <=> pc' = "detached")
        /\ (pc' = "closed" <=> pc = "closed") /\ (pc' = "refreshed" => pc \in {"refreshed", "subscribed"})
    BY <1>1 DEF Background, Moves, Shaped, Phases, Waiting
  <1>5. Shaped'
    BY <1>1, <1>2, <1>4 DEF Shaped, Background
  <1>6. Stream'
    BY DEF Background
  <1>7. Task'
    <2>1. sent' <= next'
      BY <1>1, <1>2, <1>3 DEF Task, Shaped
    <2>2. Waiting' => toClient' = <<>> /\ toServer' = <<>> /\ ~running' /\ inFlight' = <<>>
      BY <1>1, <1>2, <1>4 DEF Task
    <2>3. pc' \in {"loop", "fresh"} => applied' # None
      BY <1>1, <1>2 DEF Task, Background, Moves
    <2>4. pc' = "fresh" => sent' <= checkpoint'.seq /\ inFlight' = <<>>
      BY <1>1, <1>2, <1>3 DEF Task, Background, Moves, Checkpoint, Shaped
    <2>5. pc' = "closed" => ended' /\ sent' = next'
      BY <1>1, <1>2, <1>3, <1>4 DEF Task
    <2>6. pc' = "refreshed" => requested' = None
      BY <1>1, <1>2 DEF Task, Background, Moves
    <2> QED BY <2>1, <2>2, <2>3, <2>4, <2>5, <2>6 DEF Task, Background
  <1>8. Frames'
    BY <1>1, <1>2, <1>3, <1>4 DEF Frames, After, Sound, Pos
  <1>9. Flow'
    BY <1>1, <1>2, <1>4 DEF Flow, InFlight
  <1>10. Streaming'
    BY <1>1, <1>2, <1>4 DEF Streaming, Pending, InFlight, Behind
  <1>11. Replacing'
    BY <1>1, <1>2, <1>4 DEF Replacing, Restoring, Silent
  <1>12. Queue'
    <2>1. received' <= next'
      BY <1>1, <1>2, <1>3 DEF Queue, Shaped
    <2> QED BY <1>1, <1>2, <2>1 DEF Queue, Sound
  <1>13. Resume'
    <2>1. screen' # Unknown => screen'.pos <= next'
      BY <1>1, <1>2, <1>3 DEF Resume, Shaped, Unknown
    <2> QED BY <1>1, <1>2, <1>4, <2>1 DEF Resume, Background, Moves
  <1>14. ASSUME ~Interactive PROVE ScreenShown' /\ ScreenSent'
    <2>1. ScreenShown /\ ScreenSent /\ Grown
      BY <1>1, <1>14 DEF Shown, Background
    <2>2. screen # Unknown => screen \in [pos : Nat, rev : Nat] /\ screen.pos <= next
      BY <1>1 DEF Shaped, Resume
    <2>3. ASSUME NEW p \in Nat, p <= next, NEW rev, Covers(p, rev)
          PROVE  \A r \in 1..Len(boundaries') : boundaries'[r] < p => r <= rev
      BY <1>1, <1>3, <2>1, <2>3, CoversGrows
    <2>4. screen' # Unknown => Covers(screen.pos, screen.rev)'
      BY <1>2, <2>1, <2>2, <2>3 DEF ScreenShown, Covers
    <2>5. received \in Nat /\ received <= next /\ sent \in Nat /\ sent <= next
      BY <1>1 DEF Shaped, Queue, Task
    <2>6. Covers(received, screen.rev) => Covers(received, screen.rev)'
      BY <1>2, <2>3, <2>5 DEF Covers
    <2>7. /\ Covers(sent, screen.rev) => Covers(sent, screen.rev)'
          /\ Covers(sent, revision) => Covers(sent, revision)'
      BY <1>2, <2>3, <2>5 DEF Covers
    <2>8. ledger # <<>> /\ ledger[1].kind = "checkpoint" /\ Covers(ledger[1].to, ledger[1].rev) =>
            Covers(ledger[1].to, ledger[1].rev)'
      <3> SUFFICES ASSUME ledger # <<>>, ledger[1].kind = "checkpoint", Covers(ledger[1].to, ledger[1].rev)
                   PROVE  Covers(ledger[1].to, ledger[1].rev)'
        OBVIOUS
      <3>1. ledger \in Seq(Frame) /\ 1 \in 1..Len(ledger)
        BY <1>1 DEF Shaped
      <3>2. ledger[1].to \in Nat /\ ledger[1].to <= next
        BY <1>1, <2>5, <3>1, <1>3 DEF Queue, Sound
      <3> QED BY <1>2, <2>3, <3>2 DEF Covers
    <2>9. told' => screen' # Unknown /\ screen'.pos = next'
      BY <1>1, <1>2, <1>3, <2>1 DEF ScreenShown, Frames
    <2>10. ending' => received' = next'
      BY <1>1, <1>2, <1>3, <2>1 DEF ScreenShown, Frames
    <2>11. ScreenShown'
      BY <1>2, <2>1, <2>4, <2>6, <2>8, <2>9, <2>10 DEF ScreenShown
    <2>12. pc' = "refreshed" => (screen' # Unknown => screen'.pos <= checkpoint'.seq)
      <3>1. CASE pc = "refreshed"
        BY <1>2, <1>3, <2>1, <2>2, <3>1 DEF ScreenSent, Checkpoint
      <3>2. CASE pc # "refreshed"
        BY <1>2, <1>3, <2>2, <3>2 DEF Background, Moves
      <3> QED BY <3>1, <3>2
    <2>13. ScreenSent'
      BY <1>2, <1>4, <2>1, <2>7, <2>12 DEF ScreenSent, Silent, Background, Moves
    <2> QED BY <2>11, <2>13
  <1> QED BY <1>5, <1>6, <1>7, <1>8, <1>9, <1>10, <1>11, <1>12, <1>13, <1>14 DEF DeliveryInv, Shown

(***************************************************************************)
(* The task takes a message.                                                *)
(***************************************************************************)
LEMMA TakesRequest ==
    ASSUME DeliveryInv, ProcessRequestCheckpoint, UNCHANGED clientVars
    PROVE  DeliveryInv'
  <1> USE DEF None
  <1>1. Shaped /\ Stream /\ Task /\ Frames /\ Flow /\ Streaming /\ Replacing /\ Queue /\ Resume /\ Shown
    BY DEF DeliveryInv
  <1>2. /\ UNCHANGED <<next, earliest, boundaries, checkpoint, fence, ended>>
        /\ UNCHANGED <<events, lagged, requested, sent, revision, applied, inFlight, pendingEnd, pinned, toClient>>
        /\ UNCHANGED <<running, received, resume, needsCheckpoint, ledger, presented, progress,
                       progressDue, screen, ending, told, connections, requests>>
        /\ pendingCheckpoint' \in BOOLEAN
        /\ pc = "idle" /\ pc' = "enter" /\ toServer # <<>> /\ toServer' = Tail(toServer)
    BY DEF ProcessRequestCheckpoint, clientVars, controllerVars, userVars, streamVars
  <1>3. ~Waiting /\ ~Waiting'
    BY <1>2 DEF Waiting
  <1>4. /\ toServer' \in Seq(Nat \cup {None}) /\ Len(toServer') = Len(toServer) - 1
        /\ \A i \in 1..Len(toServer') : i + 1 \in 1..Len(toServer) /\ toServer'[i] = toServer[i + 1]
    BY <1>1, <1>2, Rest DEF Shaped
  <1>5. Shaped'
    BY <1>1, <1>2, <1>4 DEF Shaped, StreamTypeOK, Phases
  <1>6. Stream'
    BY <1>1, <1>2 DEF Stream, Revision
  <1>7. Task'
    BY <1>1, <1>2, <1>3 DEF Task
  <1>8. Frames'
    BY <1>1, <1>2, <1>3 DEF Frames, After, Sound, Pos
  <1>9. Flow'
    <2>1. \A i, j \in 1..Len(toServer') :
            i < j /\ toServer'[i] # None /\ toServer'[j] # None => toServer'[i] < toServer'[j]
      <3> TAKE i, j \in 1..Len(toServer')
      <3>1. i + 1 \in 1..Len(toServer) /\ j + 1 \in 1..Len(toServer) /\ (i < j => i + 1 < j + 1)
        BY <1>4
      <3> QED BY <1>1, <1>4, <3>1 DEF Flow
    <2>2. InFlight(progress) => InFlight(progress)'
      BY <1>2 DEF InFlight
    <2>3. ASSUME NEW i \in 1..Len(toServer'), toServer'[i] # None
          PROVE  /\ applied' # None => applied' < toServer'[i] /\ InFlight(toServer[i])'
                 /\ applied' # None /\ progressDue' => toServer'[i] < progress'
                 /\ applied' = None => toServer'[i] = sent' /\ ~progressDue'
      <3>1. i + 1 \in 1..Len(toServer) /\ toServer'[i] = toServer[i + 1]
        BY <1>4
      <3>2. /\ applied # None => applied < toServer[i + 1] /\ InFlight(toServer[i + 1])
            /\ applied # None /\ progressDue => toServer[i + 1] < progress
            /\ applied = None => toServer[i + 1] = sent /\ ~progressDue
        BY <1>1, <1>3, <2>3, <3>1 DEF Flow
      <3> QED BY <1>2, <3>1, <3>2 DEF InFlight
    <2> QED BY <1>1, <1>2, <1>3, <2>1, <2>2, <2>3 DEF Flow, InFlight
  <1>10. ASSUME NEW p, Behind(p)
         PROVE  /\ progressDue' => progress' <= p
                /\ \A i \in 1..Len(toServer') : toServer'[i] # None => toServer'[i] <= p
    BY <1>2, <1>4, <1>10 DEF Behind
  <1>11. Streaming'
    BY <1>1, <1>2, <1>3, <1>10 DEF Streaming, Pending, InFlight, Behind
  <1>12. Silent => Silent'
    BY <1>2, <1>4 DEF Silent
  <1>13. Replacing'
    BY <1>1, <1>2, <1>3, <1>12 DEF Replacing, Restoring
  <1>14. Queue'
    BY <1>1, <1>2 DEF Queue, Sound
  <1>15. Resume'
    BY <1>1, <1>2, <1>3 DEF Resume
  <1>16. Shown'
    BY <1>1, <1>2, <1>3, <1>12 DEF Shown, ScreenShown, ScreenSent, Covers
  <1> QED BY <1>5, <1>6, <1>7, <1>8, <1>9, <1>11, <1>13, <1>14, <1>15, <1>16 DEF DeliveryInv

\* The boundaries of the frames in flight are numbers.
LEMMA EndsTyped ==
    ASSUME Shaped
    PROVE  Len(inFlight) \in Nat /\ \A i \in 1..Len(inFlight) : inFlight[i].end \in Nat
  <1>1. inFlight \in Seq([end : Nat, charge : Nat])
    BY DEF Shaped
  <1>2. \A i \in 1..Len(inFlight) : inFlight[i] \in [end : Nat, charge : Nat]
    BY <1>1, Elements
  <1> QED BY <1>1, <1>2

\* The loop releases the frames that end at or before n, and only these.
LEMMA ReleasedPrefix ==
    ASSUME Shaped, Flow, NEW n \in Nat, InFlight(n) \/ inFlight = <<>>
    PROVE  /\ Released(n) \in 0..Len(inFlight)
           /\ \A i \in 1..Released(n) : inFlight[i].end <= n
           /\ Released(n) < Len(inFlight) => inFlight[Released(n) + 1].end > n
  <1>1. inFlight \in Seq([end : Nat, charge : Nat]) /\ Len(inFlight) \in Nat
    BY DEF Shaped
  <1> DEFINE P(k) == /\ \A i \in 1..k : inFlight[i].end <= n
                     /\ k < Len(inFlight) => inFlight[k + 1].end > n
  <1>2. \E k \in 0..Len(inFlight) : P(k)
    <2>1. CASE inFlight = <<>>
      <3>1. 0 \in 0..Len(inFlight) /\ P(0)
        BY <1>1, <2>1
      <3> QED BY <3>1
    <2>2. CASE InFlight(n)
      <3>1. PICK k \in 1..Len(inFlight) : inFlight[k].end = n
        BY <2>2 DEF InFlight
      <3>2. \A i \in 1..Len(inFlight) : inFlight[i].end \in Nat
        BY EndsTyped
      <3>3. \A i \in 1..k : inFlight[i].end <= n
        <4> TAKE i \in 1..k
        <4>1. i \in 1..Len(inFlight) /\ (i = k \/ i < k)
          BY <1>1, <3>1
        <4>2. inFlight[i].end = n \/ inFlight[i].end < n
          BY <3>1, <4>1 DEF Flow
        <4> QED BY <3>2, <4>1, <4>2
      <3>4. ASSUME k < Len(inFlight) PROVE inFlight[k + 1].end > n
        <4>1. k + 1 \in 1..Len(inFlight) /\ k < k + 1
          BY <1>1, <3>1, <3>4
        <4>2. inFlight[k].end < inFlight[k + 1].end
          BY <3>1, <4>1 DEF Flow
        <4> QED BY <3>1, <3>2, <4>1, <4>2
      <3> QED BY <1>1, <3>1, <3>3, <3>4
    <2> QED BY <2>1, <2>2
  <1> HIDE DEF P
  <1>3. Released(n) = CHOOSE k \in 0..Len(inFlight) : P(k)
    BY DEF Released, P
  <1>4. Released(n) \in 0..Len(inFlight) /\ P(Released(n))
    BY <1>2, <1>3
  <1> QED BY <1>4 DEF P

\* What an acknowledgement changes.  (The task accepts it.)
Acked(n) ==
    /\ n \in Nat /\ n = toServer[1] /\ n <= sent /\ applied' = n
    /\ applied # None => applied < n
    /\ inFlight' \in Seq([end : Nat, charge : Nat])
    /\ \A i \in 1..Len(inFlight') :
          /\ n < inFlight'[i].end /\ inFlight'[i].end <= sent
          /\ i = Len(inFlight') => inFlight'[i].end = sent
    /\ \A i, j \in 1..Len(inFlight') : i < j => inFlight'[i].end < inFlight'[j].end
    /\ inFlight' = <<>> => n = sent
    /\ \A m \in Nat : n < m /\ InFlight(m) => \E i \in 1..Len(inFlight') : inFlight'[i].end = m

\* The task accepts every acknowledgement, and this is what it does.
LEMMA AcknowledgementAcked ==
    ASSUME DeliveryInv, ProcessAcknowledgement
    PROVE  Acked(toServer[1]) /\ pc' = "enter"
  <1> USE DEF None
  <1> DEFINE n == toServer[1]
             k == Released(n)
  <1>1. Shaped /\ Flow /\ toServer # <<>> /\ pc = "idle" /\ ~Waiting
    BY DEF DeliveryInv, ProcessAcknowledgement, Waiting
  <1>2. /\ toServer \in Seq(Nat \cup {None}) /\ 1 \in 1..Len(toServer) /\ Head(toServer) = n
        /\ inFlight \in Seq([end : Nat, charge : Nat]) /\ Len(inFlight) \in Nat
        /\ sent \in Nat /\ applied \in Nat \cup {None}
    BY <1>1 DEF Shaped
  <1>3. n # None /\ n \in Nat
    BY <1>2 DEF ProcessAcknowledgement
  <1>4. applied = None => n = sent /\ inFlight = <<>>
    <2>1. applied = None => n = sent
      BY <1>1, <1>2, <1>3 DEF Flow
    <2>2. applied = None => Len(inFlight) = 0
      BY <1>1, <1>2 DEF Flow
    <2> QED BY <1>2, <2>1, <2>2
  <1>5. applied # None => applied < n /\ InFlight(n) /\ n <= sent
    <2>1. applied # None => applied < n /\ InFlight(n)
      BY <1>1, <1>2, <1>3 DEF Flow
    <2> QED BY <1>1, <1>2, <2>1 DEF Flow, InFlight
  <1>6. Acceptable(n)
    BY <1>2, <1>3, <1>4, <1>5 DEF Acceptable, InFlight
  <1>7. /\ k \in 0..Len(inFlight)
        /\ \A i \in 1..k : inFlight[i].end <= n
        /\ k < Len(inFlight) => inFlight[k + 1].end > n
    BY <1>1, <1>3, <1>4, <1>5, ReleasedPrefix
  <1>8. /\ applied' = n /\ pc' = "enter"
        /\ inFlight' = SubSeq(inFlight, k + 1, Len(inFlight))
    BY <1>2, <1>6 DEF ProcessAcknowledgement
  <1> HIDE DEF k
  <1>9. /\ inFlight' \in Seq([end : Nat, charge : Nat]) /\ Len(inFlight') = Len(inFlight) - k
        /\ \A i \in 1..Len(inFlight') : k + i \in 1..Len(inFlight) /\ inFlight'[i] = inFlight[k + i]
    BY <1>2, <1>7, <1>8, Suffix
  <1>10. Len(inFlight) \in Nat /\ k \in Nat /\ k <= Len(inFlight) /\ Len(inFlight') = Len(inFlight) - k
    BY <1>2, <1>7, <1>9
  <1>11. applied' = n
    BY <1>8
  <1>12. n <= sent
    BY <1>2, <1>3, <1>4, <1>5
  <1>13. \A i \in 1..Len(inFlight) : inFlight[i].end \in Nat
    BY <1>1, EndsTyped
  <1>14. ASSUME NEW i \in 1..Len(inFlight), k < i
         PROVE  n < inFlight[i].end
    <2>1. n < inFlight[k + 1].end /\ k + 1 \in 1..Len(inFlight)
      BY <1>2, <1>7, <1>14
    <2>2. k + 1 = i \/ inFlight[k + 1].end < inFlight[i].end
      BY <1>1, <1>2, <1>7, <1>14, <2>1 DEF Flow
    <2> QED BY <1>3, <1>13, <2>1, <2>2
  <1>15. \A i \in 1..Len(inFlight') :
            /\ n < inFlight'[i].end /\ inFlight'[i].end <= sent
            /\ i = Len(inFlight') => inFlight'[i].end = sent
    <2> TAKE i \in 1..Len(inFlight')
    <2>1. k + i \in 1..Len(inFlight) /\ inFlight'[i] = inFlight[k + i] /\ k < k + i
      BY <1>9, <1>10
    <2>2. i = Len(inFlight') => k + i = Len(inFlight)
      BY <1>10
    <2> QED BY <1>1, <1>14, <2>1, <2>2 DEF Flow
  <1>16. \A i, j \in 1..Len(inFlight') : i < j => inFlight'[i].end < inFlight'[j].end
    <2> TAKE i, j \in 1..Len(inFlight')
    <2>1. /\ k + i \in 1..Len(inFlight) /\ inFlight'[i] = inFlight[k + i]
          /\ k + j \in 1..Len(inFlight) /\ inFlight'[j] = inFlight[k + j]
          /\ (i < j => k + i < k + j)
      BY <1>2, <1>7, <1>9
    <2> QED BY <1>1, <2>1 DEF Flow
  <1>17. inFlight' = <<>> => n = sent
    <2> SUFFICES ASSUME inFlight' = <<>>, applied # None PROVE n = sent
      BY <1>4
    <2>1. k = Len(inFlight)
      BY <1>2, <1>7, <1>9
    <2>2. inFlight # <<>>
      BY <1>2, <1>5 DEF InFlight
    <2>3. Len(inFlight) \in 1..Len(inFlight) /\ Len(inFlight) \in 1..k
      BY <1>2, <2>1, <2>2
    <2>4. inFlight[Len(inFlight)].end = sent
      BY <1>1, <2>3 DEF Flow
    <2> QED BY <1>2, <1>3, <1>5, <1>7, <2>3, <2>4
  <1>18. ASSUME NEW m \in Nat, n < m, InFlight(m)
         PROVE  \E i \in 1..Len(inFlight') : inFlight'[i].end = m
    <2>1. PICK i \in 1..Len(inFlight) : inFlight[i].end = m
      BY <1>18 DEF InFlight
    <2>2. k < i
      BY <1>3, <1>7, <1>18, <2>1
    <2>3. i - k \in 1..Len(inFlight') /\ k + (i - k) = i
      BY <1>10, <2>2
    <2>4. inFlight'[i - k] = inFlight[i]
      BY <1>9, <2>3
    <2> QED BY <2>1, <2>3, <2>4
  <1> QED BY <1>3, <1>5, <1>8, <1>9, <1>15, <1>16, <1>17, <1>18, <1>11, <1>12 DEF Acked

\* An acknowledgement gives credit back and nothing else.
LEMMA TakesAcknowledgement ==
    ASSUME DeliveryInv, ProcessAcknowledgement, UNCHANGED clientVars
    PROVE  DeliveryInv'
  <1> USE DEF None
  <1> DEFINE n == toServer[1]
  <1>1. Shaped /\ Stream /\ Task /\ Frames /\ Flow /\ Streaming /\ Replacing /\ Queue /\ Resume /\ Shown
    BY DEF DeliveryInv
  <1>2. /\ UNCHANGED <<next, earliest, boundaries, checkpoint, fence, ended>>
        /\ UNCHANGED <<events, lagged, requested, sent, revision, pendingCheckpoint, pendingEnd, pinned, toClient>>
        /\ UNCHANGED <<running, received, resume, needsCheckpoint, ledger, presented, progress,
                       progressDue, screen, ending, told, connections, requests>>
        /\ pc = "idle" /\ pc' = "enter" /\ toServer # <<>> /\ toServer' = Tail(toServer)
        /\ Head(toServer) # None
    BY AcknowledgementAcked
       DEF ProcessAcknowledgement, clientVars, controllerVars, userVars, streamVars
  <1>3. ~Waiting /\ ~Waiting'
    BY <1>2 DEF Waiting
  <1>4. /\ toServer \in Seq(Nat \cup {None}) /\ Len(toServer) \in Nat
        /\ toServer' \in Seq(Nat \cup {None}) /\ Len(toServer') = Len(toServer) - 1
        /\ \A i \in 1..Len(toServer') : i + 1 \in 1..Len(toServer) /\ toServer'[i] = toServer[i + 1]
        /\ 1 \in 1..Len(toServer) /\ Head(toServer) = n /\ n # None
    BY <1>1, <1>2, Rest DEF Shaped
  <1>5. Acked(n)
    BY AcknowledgementAcked
  <1>6. /\ n \in Nat /\ applied' = n /\ applied' # None /\ sent \in Nat
        /\ applied \in Nat \cup {None} /\ ~Silent
    BY <1>1, <1>4, <1>5 DEF Acked, Shaped, Silent
  <1>7. Shaped'
    BY <1>1, <1>2, <1>4, <1>5, <1>6 DEF Shaped, StreamTypeOK, Phases, Acked
  <1>8. Stream'
    BY <1>1, <1>2 DEF Stream, Revision
  <1>9. Task'
    BY <1>1, <1>2, <1>3 DEF Task
  <1>10. Frames'
    BY <1>1, <1>2, <1>3 DEF Frames, After, Sound, Pos
  <1>11. Flow'
    <2>1. \A i, j \in 1..Len(toServer') :
            i < j /\ toServer'[i] # None /\ toServer'[j] # None => toServer'[i] < toServer'[j]
      <3> TAKE i, j \in 1..Len(toServer')
      <3>1. i + 1 \in 1..Len(toServer) /\ j + 1 \in 1..Len(toServer) /\ (i < j => i + 1 < j + 1)
        BY <1>4
      <3> QED BY <1>1, <1>4, <3>1 DEF Flow
    <2>2. ASSUME NEW i \in 1..Len(toServer'), toServer'[i] # None
          PROVE  /\ applied' < toServer'[i] /\ \E j \in 1..Len(inFlight') : inFlight'[j].end = toServer'[i]
                 /\ progressDue' => toServer'[i] < progress'
      <3>1. i + 1 \in 1..Len(toServer) /\ 1 < i + 1 /\ toServer'[i] = toServer[i + 1] /\ toServer[i + 1] \in Nat
        BY <1>4, <2>2, Elements
      <3>2. n < toServer[i + 1]
        BY <1>1, <1>4, <2>2, <3>1 DEF Flow
      <3>3. applied # None
        <4> SUFFICES ASSUME applied = None PROVE FALSE
          OBVIOUS
        <4>1. n = sent /\ toServer[i + 1] = sent
          BY <1>1, <1>3, <1>4, <2>2, <3>1 DEF Flow
        <4> QED BY <1>6, <3>2, <4>1
      <3>4. InFlight(toServer[i + 1]) /\ (progressDue => toServer[i + 1] < progress)
        BY <1>1, <1>3, <2>2, <3>1, <3>3 DEF Flow
      <3>5. \E j \in 1..Len(inFlight') : inFlight'[j].end = toServer[i + 1]
        BY <1>5, <3>1, <3>2, <3>4 DEF Acked
      <3> QED BY <1>2, <1>6, <3>1, <3>2, <3>4, <3>5
    <2>3. progressDue' => /\ progress' \in Nat /\ applied' < progress'
                          /\ \E j \in 1..Len(inFlight') : inFlight'[j].end = progress'
      <3> SUFFICES ASSUME progressDue
                   PROVE  /\ progress \in Nat /\ n < progress
                          /\ \E j \in 1..Len(inFlight') : inFlight'[j].end = progress
        BY <1>2, <1>6
      <3>1. applied # None
        BY <1>1, <1>3, <1>4 DEF Flow
      <3>2. progress \in Nat /\ InFlight(progress) /\ n < progress
        BY <1>1, <1>3, <1>4, <3>1 DEF Flow
      <3> QED BY <1>5, <3>2 DEF Acked
    <2> QED BY <1>2, <1>3, <1>5, <1>6, <2>1, <2>2, <2>3 DEF Flow, Acked, InFlight
  <1>12. Streaming'
    <2>1. CASE applied # None
      <3>1. ASSUME NEW f, f.from \in Nat, f.to \in Nat, f.from < f.to, Pending(f)
            PROVE  /\ \E j \in 1..Len(inFlight') : inFlight'[j].end = f.to
                   /\ progressDue' => progress' <= f.from
                   /\ \A i \in 1..Len(toServer') : toServer'[i] # None => toServer'[i] <= f.from
                   /\ applied' <= f.from
        <4>1. n <= f.from
          BY <1>4, <3>1 DEF Pending, Behind
        <4>2. n < f.to
          BY <1>6, <3>1, <4>1
        <4>3. \E j \in 1..Len(inFlight') : inFlight'[j].end = f.to
          BY <1>5, <3>1, <4>2 DEF Acked, Pending
        <4> QED BY <1>2, <1>4, <1>6, <3>1, <4>1, <4>3 DEF Pending, Behind
      <3>2. ASSUME NEW k \in 1..Len(toClient)
            PROVE  /\ toClient[k].kind # "checkpoint"
                   /\ toClient[k].kind = "attached" => toClient[k].to = None
                   /\ toClient[k].kind = "output" =>
                        /\ \E j \in 1..Len(inFlight') : inFlight'[j].end = toClient[k].to
                        /\ progressDue' => progress' <= toClient[k].from
                        /\ \A i \in 1..Len(toServer') : toServer'[i] # None => toServer'[i] <= toClient[k].from
                        /\ applied' <= toClient[k].from
        <4>1. /\ toClient[k].kind # "checkpoint"
              /\ toClient[k].kind = "attached" => toClient[k].to = None
              /\ toClient[k].kind = "output" => Pending(toClient[k]) /\ Sound(toClient[k])
          BY <1>1, <1>3, <2>1 DEF Streaming, Frames
        <4> QED BY <3>1, <4>1 DEF Sound
      <3>3. ASSUME NEW k \in 1..Len(ledger)
            PROVE  /\ ledger[k].kind = "output"
                   /\ \E j \in 1..Len(inFlight') : inFlight'[j].end = ledger[k].to
                   /\ progressDue' => progress' <= ledger[k].from
                   /\ \A i \in 1..Len(toServer') : toServer'[i] # None => toServer'[i] <= ledger[k].from
                   /\ applied' <= ledger[k].from
        <4>1. ledger[k].kind = "output" /\ Pending(ledger[k]) /\ Sound(ledger[k])
          BY <1>1, <1>3, <2>1 DEF Streaming, Queue
        <4> QED BY <3>1, <4>1 DEF Sound
      <3> QED BY <1>2, <3>2, <3>3 DEF Streaming, Pending, InFlight, Behind
    <2>2. CASE applied = None
      <3>1. Len(ledger) = 0
        BY <1>1, <1>3, <1>6, <2>2 DEF Replacing, Shaped
      <3>2. ASSUME NEW k \in 1..Len(toClient)
            PROVE  toClient[k].kind \notin {"checkpoint", "output", "attached"}
        <4>1. ~Restoring(toClient[k]) /\ toClient[k].kind # "output"
          BY <1>1, <1>3, <1>6, <2>2 DEF Replacing
        <4>2. toClient[k].kind # "attached"
          <5> SUFFICES ASSUME toClient[k].kind = "attached" PROVE FALSE
            OBVIOUS
          <5>1. toClient[k].to = None
            BY <4>1 DEF Restoring
          <5>2. Len(toClient) >= 2 /\ toClient[2].kind = "checkpoint"
            BY <1>1, <1>3, <2>2, <5>1 DEF Replacing
          <5>3. 2 \in 1..Len(toClient) /\ Restoring(toClient[2])
            BY <1>1, <5>2 DEF Restoring, Shaped
          <5> QED BY <1>1, <1>3, <1>6, <2>2, <5>3 DEF Replacing
        <4> QED BY <4>1, <4>2 DEF Restoring
      <3> QED BY <1>2, <3>1, <3>2 DEF Streaming
    <2> QED BY <2>1, <2>2
  <1>13. Replacing'
    BY <1>6 DEF Replacing
  <1>14. Queue'
    BY <1>1, <1>2 DEF Queue, Sound
  <1>15. Resume'
    BY <1>1, <1>2, <1>3 DEF Resume
  <1>16. Shown'
    <2>1. CASE applied # None
      BY <1>1, <1>2, <1>3, <1>6, <2>1 DEF Shown, ScreenShown, ScreenSent, Covers
    <2>2. CASE applied = None
      BY <1>1, <1>2, <1>3, <1>6, <2>2 DEF Shown, ScreenShown, ScreenSent, Covers
    <2> QED BY <2>1, <2>2
  <1> QED BY <1>7, <1>8, <1>9, <1>10, <1>11, <1>12, <1>13, <1>14, <1>15, <1>16 DEF DeliveryInv

(***************************************************************************)
(* The task writes a frame.                                                 *)
(***************************************************************************)
\* A frame that may come after what was sent keeps the frames in order.
LEMMA FrameAppended ==
    ASSUME Shaped, Task, Frames, ~Waiting, pc # "closed",
           NEW f \in Frame, Sound(f), f.kind \in {"output", "checkpoint", "ended"},
           toClient' = Append(toClient, f),
           UNCHANGED <<running, received, told, ending>>,
           sent' \in Nat, sent <= sent',
           f.kind = "output" => f.from = sent,
           f.kind = "checkpoint" => f.to >= sent,
           f.kind # "ended" => f.to = sent',
           f.kind = "ended" => sent' = sent /\ pc' = "closed"
    PROVE  Frames'
  <1> USE DEF None
  <1>1. /\ toClient \in Seq(Frame) /\ Len(toClient) \in Nat /\ toClient' # <<>>
        /\ toClient' \in Seq(Frame) /\ Len(toClient') = Len(toClient) + 1
        /\ \A i \in 1..Len(toClient) : toClient'[i] = toClient[i]
        /\ toClient'[Len(toClient) + 1] = f
    <2>1. toClient \in Seq(Frame)
      BY DEF Shaped
    <2>2. Len(toClient) \in Nat
      BY <2>1
    <2> HIDE DEF None
    <2> QED BY <2>1, <2>2, Appended
  <1>2. sent \in Nat /\ received \in Nat /\ running \in BOOLEAN
    BY DEF Shaped
  <1>3. ~told /\ ~ending
    BY DEF Frames, Waiting
  <1>4. \A k \in 1..Len(toClient) : toClient[k].kind # "ended" /\ Sound(toClient[k])
    BY DEF Frames
  <1>5. \A k \in 1..Len(toClient) :
            Pos(toClient[k]) \in Nat /\ Pos(toClient[k]) <= sent
    <2> TAKE k \in 1..Len(toClient)
    <2>1. toClient[k].kind \in {"output", "checkpoint", "attached"}
      <3>1. toClient[k] \in Frame
        BY <1>1, Elements
      <3> QED BY <1>4, <3>1 DEF Frame
    <2> QED BY <1>4, <2>1 DEF Frames, Sound, Pos
  <1>6. toClient = <<>> => running /\ received = sent
    BY <1>2 DEF Frames
  <1>7. \A k \in 1..Len(toClient') :
            \/ k \in 1..Len(toClient) /\ toClient'[k] = toClient[k]
            \/ k = Len(toClient) + 1 /\ toClient'[k] = f
    BY <1>1, AppendedCases
  <1>8. Pos(f) = f.to /\ Pos(f)' = f.to
    BY DEF Pos
  <1>9. ASSUME NEW k \in 1..Len(toClient')
        PROVE  /\ Sound(toClient'[k])
               /\ toClient'[k].kind = "attached" => k = 1 /\ ~running'
               /\ toClient'[k].kind = "ended" => k = Len(toClient') /\ pc' = "closed"
               /\ toClient'[k].kind # "ended" => Pos(toClient'[k]) <= sent'
               /\ k = Len(toClient') /\ toClient'[k].kind # "ended" => Pos(toClient'[k]) = sent'
               /\ running' /\ toClient'[k].kind = "output" => received' <= toClient'[k].from
    <2>1. CASE k \in 1..Len(toClient) /\ toClient'[k] = toClient[k]
      BY <1>1, <1>2, <1>4, <1>5, <2>1 DEF Frames
    <2>2. CASE k = Len(toClient) + 1 /\ toClient'[k] = f
      BY <1>1, <1>2, <1>8, <2>2 DEF Frames
    <2> QED BY <1>7, <2>1, <2>2
  <1>10. ASSUME NEW g, NEW p, p \in Nat, After(g, p), g.kind # "ended"
         PROVE  After(g, p)'
    BY <1>10 DEF After
  <1>11. ASSUME NEW p \in Nat, p = sent
         PROVE  /\ f.kind = "output" => f.from = p
                /\ f.kind = "checkpoint" => f.to >= p
                /\ f.kind = "ended" => p = sent'
    BY <1>11
  <1>12. ASSUME NEW k \in 1..Len(toClient'), k < Len(toClient')
         PROVE  /\ toClient'[k + 1].kind = "output" => toClient'[k + 1].from = Pos(toClient'[k])
                /\ toClient'[k + 1].kind = "checkpoint" => toClient'[k + 1].to >= Pos(toClient'[k])
                /\ toClient'[k + 1].kind = "ended" => Pos(toClient'[k]) = sent'
    <2>1. k \in 1..Len(toClient) /\ toClient'[k] = toClient[k]
      BY <1>1, <1>12
    <2>2. CASE k = Len(toClient)
      BY <1>1, <1>4, <1>5, <1>11, <2>1, <2>2 DEF Frames
    <2>3. CASE k # Len(toClient)
      <3>1. k < Len(toClient) /\ k + 1 \in 1..Len(toClient) /\ toClient'[k + 1] = toClient[k + 1]
        BY <1>1, <2>1, <2>3
      <3> QED BY <1>4, <2>1, <3>1 DEF Frames, After
    <2> QED BY <2>2, <2>3
  <1>13. ASSUME NEW i \in 1..Len(toClient'), NEW j \in 1..Len(toClient'),
                i < j, toClient'[j].kind = "output"
         PROVE  Pos(toClient'[i]) <= toClient'[j].from
    <2>1. i \in 1..Len(toClient) /\ toClient'[i] = toClient[i]
      BY <1>1, <1>13
    <2>2. CASE j \in 1..Len(toClient) /\ toClient'[j] = toClient[j]
      BY <1>13, <2>1, <2>2 DEF Frames
    <2>3. CASE j = Len(toClient) + 1 /\ toClient'[j] = f
      BY <1>5, <1>13, <2>1, <2>3
    <2> QED BY <1>7, <2>2, <2>3
  <1>14. running' => received' <= sent'
    BY <1>2 DEF Frames
  <1>15. running' => After(toClient[1], received)'
    <2> SUFFICES ASSUME running
                 PROVE  /\ toClient'[1].kind = "output" => toClient'[1].from = received
                        /\ toClient'[1].kind = "checkpoint" => toClient'[1].to >= received
                        /\ toClient'[1].kind = "ended" => received = sent'
      BY DEF After
    <2>1. CASE toClient = <<>>
      BY <1>1, <1>2, <1>6, <1>11, <2>1
    <2>2. CASE toClient # <<>>
      BY <1>1, <1>4, <2>2 DEF Frames, After
    <2> QED BY <2>1, <2>2
  <1>16. ~running' => toClient'[1].kind = "attached"
    <2> SUFFICES ASSUME ~running PROVE toClient'[1].kind = "attached"
      OBVIOUS
    <2>1. toClient # <<>>
      BY <1>6
    <2> QED BY <1>1, <2>1 DEF Frames
  <1>17. \A k \in 1..Len(toClient') : k < Len(toClient') => After(toClient[k + 1], Pos(toClient[k]))'
    BY <1>12 DEF After, Pos
  <1>18. \A k \in 1..Len(toClient') : Sound(toClient[k])'
    BY <1>9 DEF Sound
  <1>19. /\ \A k \in 1..Len(toClient') :
             /\ toClient'[k].kind = "attached" => k = 1 /\ ~running'
             /\ toClient'[k].kind = "ended" => k = Len(toClient') /\ pc' = "closed"
             /\ toClient'[k].kind # "ended" => Pos(toClient[k])' <= sent'
             /\ k = Len(toClient') /\ toClient'[k].kind # "ended" => Pos(toClient[k])' = sent'
             /\ running' /\ toClient'[k].kind = "output" => received' <= toClient'[k].from
         /\ \A i, j \in 1..Len(toClient') :
             i < j /\ toClient'[j].kind = "output" => Pos(toClient[i])' <= toClient'[j].from
    BY <1>9, <1>13 DEF Pos
  <1> QED BY <1>1, <1>3, <1>14, <1>15, <1>16, <1>17, <1>18, <1>19 DEF Frames

\* The end is written when everything was sent.
LEMMA WritesEnd ==
    ASSUME DeliveryInv, SendSessionEnd, UNCHANGED clientVars
    PROVE  DeliveryInv'
  <1> USE DEF None
  <1>1. Shaped /\ Stream /\ Task /\ Frames /\ Flow /\ Streaming /\ Replacing /\ Queue /\ Resume /\ Shown
    BY DEF DeliveryInv
  <1>2. /\ UNCHANGED <<next, earliest, boundaries, checkpoint, fence, ended>>
        /\ UNCHANGED <<events, lagged, requested, sent, revision, applied, inFlight, pendingCheckpoint,
                       pendingEnd, pinned, toServer>>
        /\ UNCHANGED <<running, received, resume, needsCheckpoint, ledger, presented, progress,
                       progressDue, screen, ending, told, connections, requests>>
        /\ pc = "idle" /\ pc' = "closed" /\ toClient' = Append(toClient, Ended)
        /\ pendingEnd # None /\ sent >= pendingEnd
    BY DEF SendSessionEnd, Drained, driverVars, clientVars, controllerVars, userVars, streamVars
  <1>3. ~Waiting /\ ~Waiting'
    BY <1>2 DEF Waiting
  <1>4. Ended \in Frame /\ Ended.kind = "ended" /\ Sound(Ended)
    BY DEF Ended, Frame, Sound
  <1>5. sent \in Nat /\ next \in Nat /\ sent = next /\ ended
    BY <1>1, <1>2 DEF Shaped, StreamTypeOK, Task
  <1>6. /\ toClient \in Seq(Frame) /\ Len(toClient) \in Nat
        /\ toClient' \in Seq(Frame) /\ Len(toClient') = Len(toClient) + 1 /\ toClient' # <<>>
        /\ \A i \in 1..Len(toClient) : toClient'[i] = toClient[i]
    <2>1. toClient \in Seq(Frame) /\ toClient' = Append(toClient, Ended) /\ Ended \in Frame
      BY <1>1, <1>2, <1>4 DEF Shaped
    <2>2. Len(toClient) \in Nat
      BY <2>1
    <2> QED BY <2>1, <2>2, Appended
  <1>7. \A k \in 1..Len(toClient') :
            \/ k \in 1..Len(toClient) /\ toClient'[k] = toClient[k]
            \/ k = Len(toClient) + 1 /\ toClient'[k] = Ended
    BY <1>2, <1>4, <1>6, AppendedCases
  <1>8. Shaped'
    BY <1>1, <1>2, <1>6 DEF Shaped, StreamTypeOK, Phases
  <1>9. Stream'
    BY <1>1, <1>2 DEF Stream, Revision
  <1>10. Task'
    BY <1>1, <1>2, <1>3, <1>5 DEF Task
  <1>11. Frames'
    BY <1>1, <1>2, <1>3, <1>4, <1>5, FrameAppended
  <1>12. Flow'
    BY <1>1, <1>2, <1>3 DEF Flow, InFlight
  <1>13. Streaming'
    <2>1. \A g : Pending(g) => Pending(g)'
      BY <1>2 DEF Pending, InFlight, Behind
    <2> SUFFICES ASSUME applied # None PROVE Streaming'
      BY <1>2 DEF Streaming
    <2>2. ASSUME NEW k \in 1..Len(toClient')
          PROVE  /\ toClient'[k].kind # "checkpoint"
                 /\ toClient'[k].kind = "attached" => toClient'[k].to = None
                 /\ toClient'[k].kind = "output" => Pending(toClient[k])'
      <3>1. CASE k \in 1..Len(toClient) /\ toClient'[k] = toClient[k]
        <4>1. /\ toClient[k].kind # "checkpoint"
              /\ toClient[k].kind = "attached" => toClient[k].to = None
              /\ toClient[k].kind = "output" => Pending(toClient[k])
          BY <1>1, <1>3, <3>1 DEF Streaming
        <4> QED BY <2>1, <3>1, <4>1 DEF Pending, InFlight, Behind
      <3>2. CASE k = Len(toClient) + 1 /\ toClient'[k] = Ended
        BY <1>4, <3>2
      <3> QED BY <1>7, <3>1, <3>2
    <2>3. \A k \in 1..Len(ledger) : ledger[k].kind = "output" /\ Pending(ledger[k])'
      BY <1>1, <1>2, <1>3, <2>1 DEF Streaming, Pending, InFlight, Behind
    <2> QED BY <1>2, <2>2, <2>3 DEF Streaming
  <1>14. Replacing'
    <2>1. Silent => Silent'
      BY <1>2 DEF Silent
    <2> SUFFICES ASSUME applied = None PROVE Replacing'
      BY <1>2 DEF Replacing
    <2>2. ASSUME NEW k \in 1..Len(toClient')
          PROVE  /\ toClient'[k].kind # "output"
                 /\ toClient'[k].kind = "attached" /\ toClient'[k].to = None =>
                       Len(toClient') >= 2 /\ toClient'[2].kind = "checkpoint"
                 /\ toClient'[k].kind = "checkpoint" =>
                       \/ k = 1
                       \/ k = 2 /\ toClient'[1].kind = "attached" /\ toClient'[1].to = None
                 /\ Restoring(toClient'[k]) =>
                       /\ toClient'[k].to = sent' /\ toClient'[k].rev = revision'
                       /\ ledger' = <<>> /\ Silent'
      <3>1. CASE k \in 1..Len(toClient) /\ toClient'[k] = toClient[k]
        BY <1>1, <1>2, <1>3, <1>6, <2>1, <3>1 DEF Replacing
      <3>2. CASE k = Len(toClient) + 1 /\ toClient'[k] = Ended
        BY <1>4, <3>2 DEF Restoring
      <3> QED BY <1>7, <3>1, <3>2
    <2> QED BY <1>1, <1>2, <1>3, <2>1, <2>2 DEF Replacing, Restoring
  <1>15. Queue'
    BY <1>1, <1>2 DEF Queue, Sound
  <1>16. toClient'[1].kind = "attached" => toClient # <<>> /\ toClient'[1] = toClient[1]
    BY <1>4, <1>6, <1>7
  <1>17. Resume'
    BY <1>1, <1>2, <1>3, <1>16 DEF Resume
  <1>18. Shown'
    BY <1>1, <1>2, <1>3, <1>16 DEF Shown, ScreenShown, ScreenSent, Covers, Silent
  <1> QED BY <1>8, <1>9, <1>10, <1>11, <1>12, <1>13, <1>14, <1>15, <1>17, <1>18 DEF DeliveryInv

\* The snapshot that serves a request never goes back and is of the current
\* revision; when there is none, no replacing transition lies ahead.
LEMMA SnapshotCases ==
    ASSUME Shaped, Stream, NEW p \in Nat \cup {None}, NEW rev \in Nat \cup {None}
    PROVE  /\ Snapshot(p, rev) # NoCheckpoint =>
                 /\ Snapshot(p, rev) \in Checkpoint /\ Snapshot(p, rev).rev = Len(boundaries)
                 /\ Snapshot(p, rev).seq <= next /\ p <= Snapshot(p, rev).seq
           /\ Snapshot(p, rev) = NoCheckpoint =>
                 p # None /\ (rev >= Len(boundaries) \/ p > fence.seq)
           /\ p = None => Snapshot(p, rev) = checkpoint
           /\ checkpoint # NoCheckpoint
  <1> USE DEF None
  <1>1. /\ next \in Nat /\ earliest \in Nat /\ boundaries \in Seq(Nat) /\ Len(boundaries) \in Nat
        /\ checkpoint \in Checkpoint /\ fence \in Checkpoint \cup {NoCheckpoint}
    BY DEF Shaped, StreamTypeOK
  <1>2. checkpoint # NoCheckpoint
    BY <1>1 DEF Checkpoint, NoCheckpoint
  <1>3. CASE p = None \/ p < earliest
    <2>1. Snapshot(p, rev) = checkpoint
      BY <1>3 DEF Snapshot
    <2> QED BY <1>1, <1>2, <1>3, <2>1 DEF Stream, Revision, Checkpoint
  <1>4. CASE ~(p = None \/ p < earliest)
    <2>1. p \in Nat /\ p >= earliest
      BY <1>1, <1>4
    <2>2. CASE rev < Len(boundaries) /\ p <= fence.seq
      <3>1. fence \in Checkpoint /\ fence.rev = Len(boundaries) /\ fence.seq <= next /\ fence # NoCheckpoint
        BY <1>1, <2>1, <2>2 DEF Stream, Revision, NoCheckpoint, Checkpoint
      <3>2. Snapshot(p, rev) = IF fence.seq >= earliest THEN fence ELSE checkpoint
        BY <1>4, <2>2 DEF Snapshot, Revision
      <3>3. CASE fence.seq >= earliest
        BY <1>2, <2>1, <2>2, <3>1, <3>2, <3>3
      <3>4. CASE ~(fence.seq >= earliest)
        BY <1>1, <1>2, <2>1, <2>2, <3>1, <3>2, <3>4 DEF Stream, Revision, Checkpoint
      <3> QED BY <3>3, <3>4
    <2>3. CASE ~(rev < Len(boundaries) /\ p <= fence.seq)
      <3>1. Snapshot(p, rev) = NoCheckpoint
        BY <1>4, <2>3 DEF Snapshot, Revision
      <3>2. rev \in Int /\ p \in Int /\ fence.seq \in Int
        BY <1>1, <2>1 DEF Checkpoint, NoCheckpoint
      <3>3. rev >= Len(boundaries) \/ p > fence.seq
        BY <1>1, <2>3, <3>2
      <3> QED BY <1>2, <1>4, <3>1, <3>3
    <2> QED BY <2>2, <2>3
  <1> QED BY <1>3, <1>4

\* What writing a checkpoint changes.
CheckpointSent(cp) ==
    /\ cp \in Checkpoint /\ cp.rev = Len(boundaries) /\ cp.seq <= next /\ sent <= cp.seq
    /\ pc \in {"fresh", "loop"} /\ pc' = "idle"
    /\ inFlight = <<>>
    /\ toClient' = Append(toClient, Replace(cp))
    /\ sent' = cp.seq /\ applied' = None /\ revision' = cp.rev
    /\ pinned' \in BOOLEAN /\ pendingCheckpoint' \in BOOLEAN
    /\ UNCHANGED <<next, earliest, boundaries, checkpoint, fence, ended>>
    /\ UNCHANGED <<events, lagged, requested, inFlight, pendingEnd, toServer>>
    /\ UNCHANGED <<running, received, resume, needsCheckpoint, ledger, presented, progress,
                   progressDue, screen, ending, told, connections, requests>>

\* Both ways of sending a checkpoint are this one.
LEMMA CheckpointsSent ==
    ASSUME DeliveryInv, NEW incomplete \in BOOLEAN,
           SendFresh(incomplete) \/ SendReplacement(incomplete), UNCHANGED clientVars
    PROVE  \E cp \in Checkpoint : CheckpointSent(cp)
  <1>1. Shaped /\ Stream /\ Task
    BY DEF DeliveryInv
  <1>2. /\ sent \in Nat /\ revision \in Nat \cup {None} /\ pendingCheckpoint \in BOOLEAN
        /\ checkpoint \in Checkpoint
    BY <1>1 DEF Shaped, StreamTypeOK
  <1>3. CASE SendFresh(incomplete)
    <2>1. Snapshot(None, None) = checkpoint
      BY <1>1, SnapshotCases
    <2>2. CheckpointSent(checkpoint)
      BY <1>1, <1>2, <1>3, <2>1
         DEF SendFresh, SendCheckpoint, CheckpointSent, Task, Stream, Revision, streamVars, clientVars,
             controllerVars, userVars
    <2> QED BY <1>2, <2>2
  <1>4. CASE SendReplacement(incomplete)
    <2> DEFINE cp == Snapshot(sent, revision)
    <2>1. cp \in Checkpoint /\ cp.rev = Len(boundaries) /\ cp.seq <= next /\ sent <= cp.seq
      BY <1>1, <1>2, <1>4, SnapshotCases DEF SendReplacement
    <2> HIDE DEF cp
    <2>2. SendCheckpoint(cp, incomplete)
      BY <1>4 DEF SendReplacement, cp
    <2>3. pc = "loop" /\ inFlight = <<>> /\ pendingCheckpoint' = pendingCheckpoint
      BY <1>4 DEF SendReplacement
    <2>4. CheckpointSent(cp)
      BY <1>2, <2>1, <2>2, <2>3
         DEF SendCheckpoint, CheckpointSent, streamVars, clientVars, controllerVars, userVars
    <2> QED BY <2>1, <2>4
  <1> QED BY <1>3, <1>4

\* A checkpoint is written only after everything else was acknowledged.
LEMMA WritesCheckpoint ==
    ASSUME DeliveryInv, NEW cp \in Checkpoint, CheckpointSent(cp)
    PROVE  DeliveryInv'
  <1> USE DEF None
  <1> DEFINE f == Replace(cp)
  <1>1. Shaped /\ Stream /\ Task /\ Frames /\ Flow /\ Streaming /\ Replacing /\ Queue /\ Resume /\ Shown
    BY DEF DeliveryInv
  <1>2. /\ cp.rev = Len(boundaries) /\ cp.seq <= next /\ sent <= cp.seq
        /\ cp.seq \in Nat /\ cp.rev \in Nat /\ sent \in Nat /\ next \in Nat
        /\ pc \in {"fresh", "loop"} /\ pc' = "idle" /\ inFlight = <<>> /\ inFlight' = <<>>
        /\ toClient' = Append(toClient, f)
        /\ sent' = cp.seq /\ applied' = None /\ revision' = cp.rev
    BY <1>1 DEF CheckpointSent, Checkpoint, Shaped, StreamTypeOK
  <1>3. /\ UNCHANGED <<next, earliest, boundaries, checkpoint, fence, ended>>
        /\ UNCHANGED <<events, lagged, requested, inFlight, pendingEnd, toServer>>
        /\ UNCHANGED <<running, received, resume, needsCheckpoint, ledger, presented, progress,
                       progressDue, screen, ending, told, connections, requests>>
        /\ pinned' \in BOOLEAN /\ pendingCheckpoint' \in BOOLEAN
    BY DEF CheckpointSent
  <1>4. ~Waiting /\ ~Waiting' /\ applied # None
    BY <1>1, <1>2 DEF Waiting, Task
  <1>5. f \in Frame /\ f.kind = "checkpoint" /\ f.to = cp.seq /\ f.rev = cp.rev /\ Sound(f) /\ Restoring(f)
    BY <1>2 DEF Replace, Frame, Sound, Restoring
  <1> HIDE DEF f
  <1>6. Len(inFlight) = 0
    BY <1>2
  <1>7. Silent /\ Silent'
    <2>1. Silent
      BY <1>1, <1>4, <1>6 DEF Silent, Flow, InFlight
    <2> QED BY <1>3, <2>1 DEF Silent
  <1>8. ledger = <<>>
    <2>1. \A k \in 1..Len(ledger) : FALSE
      BY <1>1, <1>4, <1>6 DEF Streaming, Pending, InFlight
    <2> QED BY <1>1, <2>1, EmptySeq DEF Shaped
  <1>9. /\ toClient \in Seq(Frame) /\ Len(toClient) \in Nat
        /\ toClient' \in Seq(Frame) /\ Len(toClient') = Len(toClient) + 1 /\ toClient' # <<>>
        /\ \A i \in 1..Len(toClient) : toClient'[i] = toClient[i]
        /\ toClient'[Len(toClient) + 1] = f
    <2>1. toClient \in Seq(Frame) /\ toClient' = Append(toClient, f) /\ f \in Frame
      BY <1>1, <1>2, <1>5 DEF Shaped
    <2>2. Len(toClient) \in Nat
      BY <2>1
    <2> QED BY <2>1, <2>2, Appended
  <1>10. \A k \in 1..Len(toClient') :
            \/ k \in 1..Len(toClient) /\ toClient'[k] = toClient[k]
            \/ k = Len(toClient) + 1 /\ toClient'[k] = f
    BY <1>2, <1>5, <1>9, AppendedCases
  <1>11. \A k \in 1..Len(toClient) : k = 1 /\ toClient[k].kind = "attached" /\ toClient[k].to = None
    <2> TAKE k \in 1..Len(toClient)
    <2>1. toClient[k] \in Frame
      BY <1>9, Elements
    <2>2. toClient[k].kind \notin {"checkpoint", "output"}
      BY <1>1, <1>4, <1>6 DEF Streaming, Pending, InFlight
    <2>3. toClient[k].kind # "ended"
      BY <1>1, <1>2 DEF Frames
    <2>4. toClient[k].kind = "attached"
      BY <2>1, <2>2, <2>3 DEF Frame
    <2> QED BY <1>1, <1>4, <2>4 DEF Streaming, Frames
  <1>12. Len(toClient) = 0 \/ Len(toClient) = 1
    <2>1. Len(toClient) \in Nat
      BY <1>9
    <2>2. ~(Len(toClient) >= 2)
      <3> SUFFICES ASSUME Len(toClient) >= 2 PROVE FALSE
        OBVIOUS
      <3>1. 2 \in 1..Len(toClient)
        BY <2>1
      <3> QED BY <1>11, <3>1
    <2>3. \A m \in Nat : ~(m >= 2) => m = 0 \/ m = 1
      OBVIOUS
    <2> QED BY <2>1, <2>2, <2>3
  <1>13. Shaped'
    BY <1>1, <1>2, <1>3, <1>9 DEF Shaped, StreamTypeOK, Phases
  <1>14. Stream'
    BY <1>1, <1>3 DEF Stream, Revision
  <1>15. Task'
    BY <1>1, <1>2, <1>3, <1>4 DEF Task
  <1>16. Frames'
    BY <1>1, <1>2, <1>3, <1>4, <1>5, FrameAppended
  <1>17. Flow'
    BY <1>1, <1>2, <1>3, <1>4, <1>6, <1>7 DEF Flow, Silent
  <1>18. Streaming'
    BY <1>2 DEF Streaming
  <1>19. Replacing'
    <2>1. ASSUME NEW k \in 1..Len(toClient')
          PROVE  /\ toClient'[k].kind # "output"
                 /\ toClient'[k].kind = "attached" /\ toClient'[k].to = None =>
                       Len(toClient') >= 2 /\ toClient'[2].kind = "checkpoint"
                 /\ toClient'[k].kind = "checkpoint" =>
                       \/ k = 1
                       \/ k = 2 /\ toClient'[1].kind = "attached" /\ toClient'[1].to = None
                 /\ Restoring(toClient'[k]) =>
                       /\ toClient'[k].to = sent' /\ toClient'[k].rev = revision'
                       /\ ledger' = <<>> /\ Silent'
      <3>1. CASE k \in 1..Len(toClient) /\ toClient'[k] = toClient[k]
        <4>1. Len(toClient) = 1 /\ k = 1 /\ toClient[k].kind = "attached" /\ toClient[k].to = None
          BY <1>11, <1>12, <3>1
        <4>2. toClient'[2] = f /\ Len(toClient') = 2
          BY <1>9, <4>1
        <4> QED BY <1>5, <3>1, <4>1, <4>2 DEF Restoring
      <3>2. CASE k = Len(toClient) + 1 /\ toClient'[k] = f
        <4>1. CASE Len(toClient) = 0
          BY <1>2, <1>3, <1>5, <1>7, <1>8, <3>2, <4>1
        <4>2. CASE Len(toClient) = 1
          <5>1. toClient'[1] = toClient[1] /\ 1 \in 1..Len(toClient)
            BY <1>9, <4>2
          <5> QED BY <1>2, <1>3, <1>5, <1>7, <1>8, <1>11, <3>2, <4>2, <5>1
        <4> QED BY <1>12, <4>1, <4>2
      <3> QED BY <1>10, <3>1, <3>2
    <2> QED BY <1>2, <1>3, <1>8, <2>1 DEF Replacing, Restoring
  <1>20. Queue'
    BY <1>1, <1>3 DEF Queue, Sound
  <1>21. toClient'[1].kind = "attached" => toClient # <<>> /\ toClient'[1] = toClient[1]
    BY <1>5, <1>9, <1>10
  <1>22. Resume'
    BY <1>1, <1>3, <1>4, <1>21 DEF Resume
  <1>23. Covers(sent, revision)'
    BY <1>1, <1>2, <1>3 DEF Covers, Shaped, StreamTypeOK
  <1>24. Shown'
    BY <1>1, <1>2, <1>3, <1>4, <1>7, <1>21, <1>23 DEF Shown, ScreenShown, ScreenSent, Covers
  <1> QED BY <1>13, <1>14, <1>15, <1>16, <1>17, <1>18, <1>19, <1>20, <1>22, <1>24 DEF DeliveryInv

\* What writing a frame of output changes.
OutputSent(to, charged) ==
    /\ to \in Nat /\ sent < to /\ to <= next /\ charged \in Nat
    /\ Snapshot(sent, revision) = NoCheckpoint
    /\ pc = "loop"
    /\ toClient' = Append(toClient, Output(sent, to))
    /\ sent' = to
    /\ inFlight' = Append(inFlight, [end |-> to, charge |-> charged])
    /\ UNCHANGED <<next, earliest, boundaries, checkpoint, fence, ended>>
    /\ UNCHANGED <<events, lagged, pc, requested, revision, applied, pendingCheckpoint, pendingEnd,
                   pinned, toServer>>
    /\ UNCHANGED <<running, received, resume, needsCheckpoint, ledger, presented, progress,
                   progressDue, screen, ending, told, connections, requests>>

\* A frame of output is sent like this.
LEMMA OutputsSent ==
    ASSUME DeliveryInv, SendOutput, UNCHANGED clientVars
    PROVE  \E to, charged \in Nat : OutputSent(to, charged)
  <1>1. sent \in Nat /\ next \in Nat
    BY DEF DeliveryInv, Shaped, StreamTypeOK
  <1>2. PICK to \in (sent + 1)..next :
           /\ toClient' = Append(toClient, Output(sent, to))
           /\ sent' = to
           /\ inFlight' = Append(inFlight, [end |-> to, charge |-> FrameCharge(to - sent)])
    BY DEF SendOutput
  <1>3. to \in Nat /\ sent < to /\ to <= next
    BY <1>1
  <1>4. FrameCharge(to - sent) \in Nat
    BY <1>1, <1>3, DeliveryAssumption DEF FrameCharge, Larger
  <1>5. OutputSent(to, FrameCharge(to - sent))
    BY <1>2, <1>3, <1>4
       DEF SendOutput, OutputSent, streamVars, clientVars, controllerVars, userVars
  <1> QED BY <1>3, <1>4, <1>5

\* A screen that needs no snapshot may be sent all there is.
LEMMA CoversNext ==
    ASSUME Shaped, Stream, NEW rev \in Nat, Covers(sent, rev), Snapshot(sent, revision) = NoCheckpoint,
           revision # None => revision = rev
    PROVE  \A r \in 1..Len(boundaries) : r <= rev
  <1> USE DEF None
  <1>1. /\ sent \in Nat /\ revision \in Nat \cup {None} /\ Len(boundaries) \in Nat
        /\ boundaries \in Seq(Nat) /\ fence \in Checkpoint \cup {NoCheckpoint}
    BY DEF Shaped, StreamTypeOK
  <1>2. revision >= Len(boundaries) \/ sent > fence.seq
    BY <1>1, SnapshotCases
  <1>3. CASE revision >= Len(boundaries)
    BY <1>1, <1>3
  <1>4. CASE sent > fence.seq
    <2> TAKE r \in 1..Len(boundaries)
    <2>1. boundaries[r] \in Nat /\ fence.seq \in Int
      BY <1>1, Elements DEF Checkpoint, NoCheckpoint
    <2>2. boundaries[r] <= fence.seq
      BY DEF Stream
    <2>3. boundaries[r] < sent
      BY <1>1, <1>4, <2>1, <2>2
    <2> QED BY <2>3 DEF Covers
  <1> QED BY <1>2, <1>3, <1>4

\* Output is written only to a client that was sent all before it.
LEMMA WritesOutput ==
    ASSUME DeliveryInv, NEW to \in Nat, NEW charged \in Nat, OutputSent(to, charged)
    PROVE  DeliveryInv'
  <1> USE DEF None
  <1> DEFINE f == Output(sent, to)
             d == [end |-> to, charge |-> charged]
  <1>1. Shaped /\ Stream /\ Task /\ Frames /\ Flow /\ Streaming /\ Replacing /\ Queue /\ Resume /\ Shown
    BY DEF DeliveryInv
  <1>2. /\ to \in Nat /\ sent < to /\ to <= next /\ sent \in Nat /\ next \in Nat
        /\ applied \in Nat \cup {None}
        /\ pc = "loop" /\ sent' = to
        /\ toClient' = Append(toClient, f) /\ inFlight' = Append(inFlight, d)
        /\ Snapshot(sent, revision) = NoCheckpoint
    BY <1>1 DEF OutputSent, Shaped, StreamTypeOK
  <1>3. /\ UNCHANGED <<next, earliest, boundaries, checkpoint, fence, ended>>
        /\ UNCHANGED <<events, lagged, pc, requested, revision, applied, pendingCheckpoint, pendingEnd,
                       pinned, toServer>>
        /\ UNCHANGED <<running, received, resume, needsCheckpoint, ledger, presented, progress,
                       progressDue, screen, ending, told, connections, requests>>
    BY DEF OutputSent
  <1>4. ~Waiting /\ ~Waiting' /\ applied # None
    BY <1>1, <1>2, <1>3 DEF Waiting, Task
  <1>5. /\ f \in Frame /\ f.kind = "output" /\ f.from = sent /\ f.to = to /\ Sound(f)
        /\ d \in [end : Nat, charge : Nat] /\ d.end = to
    BY <1>2 DEF Output, Frame, Sound
  <1> HIDE DEF f, d
  <1>6. /\ toClient \in Seq(Frame) /\ Len(toClient) \in Nat
        /\ toClient' \in Seq(Frame) /\ Len(toClient') = Len(toClient) + 1 /\ toClient' # <<>>
        /\ \A i \in 1..Len(toClient) : toClient'[i] = toClient[i]
        /\ inFlight \in Seq([end : Nat, charge : Nat]) /\ Len(inFlight) \in Nat
        /\ inFlight' \in Seq([end : Nat, charge : Nat]) /\ Len(inFlight') = Len(inFlight) + 1
        /\ inFlight' # <<>>
        /\ \A i \in 1..Len(inFlight) : inFlight'[i] = inFlight[i]
        /\ inFlight'[Len(inFlight) + 1] = d
    <2>1. /\ toClient \in Seq(Frame) /\ toClient' = Append(toClient, f) /\ f \in Frame
          /\ inFlight \in Seq([end : Nat, charge : Nat]) /\ inFlight' = Append(inFlight, d)
          /\ d \in [end : Nat, charge : Nat]
      BY <1>1, <1>2, <1>5 DEF Shaped
    <2>2. Len(toClient) \in Nat /\ Len(inFlight) \in Nat
      BY <2>1
    <2>3. /\ toClient' \in Seq(Frame) /\ Len(toClient') = Len(toClient) + 1 /\ toClient' # <<>>
          /\ \A i \in 1..Len(toClient) : toClient'[i] = toClient[i]
      BY <2>1, <2>2, Appended
    <2>4. /\ inFlight' \in Seq([end : Nat, charge : Nat]) /\ Len(inFlight') = Len(inFlight) + 1
          /\ inFlight' # <<>>
          /\ \A i \in 1..Len(inFlight) : inFlight'[i] = inFlight[i]
          /\ inFlight'[Len(inFlight) + 1] = d
      BY <2>1, <2>2, Appended
    <2> QED BY <2>1, <2>2, <2>3, <2>4
  <1>7. /\ \A k \in 1..Len(toClient') :
             \/ k \in 1..Len(toClient) /\ toClient'[k] = toClient[k]
             \/ k = Len(toClient) + 1 /\ toClient'[k] = f
        /\ \A k \in 1..Len(inFlight') :
             \/ k \in 1..Len(inFlight) /\ inFlight'[k] = inFlight[k]
             \/ k = Len(inFlight) + 1 /\ inFlight'[k] = d
    <2>1. toClient \in Seq(Frame) /\ toClient' = Append(toClient, f) /\ f \in Frame
      BY <1>2, <1>5, <1>6
    <2>2. /\ inFlight \in Seq([end : Nat, charge : Nat]) /\ inFlight' = Append(inFlight, d)
          /\ d \in [end : Nat, charge : Nat]
      BY <1>2, <1>5, <1>6
    <2>3. \A k \in 1..Len(toClient') :
             \/ k \in 1..Len(toClient) /\ toClient'[k] = toClient[k]
             \/ k = Len(toClient) + 1 /\ toClient'[k] = f
      BY <2>1, AppendedCases
    <2>4. \A k \in 1..Len(inFlight') :
             \/ k \in 1..Len(inFlight) /\ inFlight'[k] = inFlight[k]
             \/ k = Len(inFlight) + 1 /\ inFlight'[k] = d
      BY <2>2, AppendedCases
    <2> QED BY <2>3, <2>4
  <1>8. \A i \in 1..Len(inFlight) : inFlight[i].end \in Nat /\ inFlight[i].end <= sent
    BY <1>1, EndsTyped DEF Flow
  <1>9. Len(inFlight) \in Nat /\ Len(inFlight') = Len(inFlight) + 1
    BY <1>6
  <1>10. \A i \in 1..Len(inFlight) : inFlight'[i] = inFlight[i] /\ i \in 1..Len(inFlight')
                                   /\ i # Len(inFlight')
    BY <1>6, <1>9
  <1>11. Shaped'
    BY <1>1, <1>2, <1>3, <1>6 DEF Shaped, StreamTypeOK
  <1>12. Stream'
    BY <1>1, <1>3 DEF Stream, Revision
  <1>13. Task'
    BY <1>1, <1>2, <1>3, <1>4 DEF Task
  <1>14. Frames'
    BY <1>1, <1>2, <1>3, <1>4, <1>5, FrameAppended
  <1>15. \A m : InFlight(m) => InFlight(m)'
    <2> SUFFICES ASSUME NEW m, InFlight(m) PROVE InFlight(m)'
      OBVIOUS
    <2>1. PICK i \in 1..Len(inFlight) : inFlight[i].end = m
      BY DEF InFlight
    <2>2. i \in 1..Len(inFlight') /\ inFlight'[i].end = m
      BY <1>10, <2>1
    <2> QED BY <2>2 DEF InFlight
  <1>16. \E i \in 1..Len(inFlight') : inFlight'[i].end = to
    <2>1. Len(inFlight) + 1 \in 1..Len(inFlight') /\ inFlight'[Len(inFlight) + 1].end = to
      BY <1>5, <1>6
    <2> QED BY <2>1
  <1>17. Flow'
    <2>1. \A i \in 1..Len(inFlight') :
            /\ applied' # None /\ applied' < inFlight'[i].end
            /\ inFlight'[i].end <= sent'
            /\ i = Len(inFlight') => inFlight'[i].end = sent'
      <3> TAKE i \in 1..Len(inFlight')
      <3>1. CASE i \in 1..Len(inFlight) /\ inFlight'[i] = inFlight[i]
        <4>1. i # Len(inFlight') /\ applied # None /\ applied < inFlight[i].end
          BY <1>1, <1>10, <3>1 DEF Flow
        <4> QED BY <1>2, <1>3, <1>8, <3>1, <4>1
      <3>2. CASE i = Len(inFlight) + 1 /\ inFlight'[i] = d
        BY <1>1, <1>2, <1>3, <1>4, <1>5, <3>2 DEF Flow
      <3> QED BY <1>7, <3>1, <3>2
    <2>2. \A i, j \in 1..Len(inFlight') : i < j => inFlight'[i].end < inFlight'[j].end
      <3> SUFFICES ASSUME NEW i \in 1..Len(inFlight'), NEW j \in 1..Len(inFlight'), i < j
                   PROVE  inFlight'[i].end < inFlight'[j].end
        OBVIOUS
      <3>1. i \in 1..Len(inFlight)
        BY <1>9
      <3>4. inFlight'[i] = inFlight[i]
        BY <1>10, <3>1
      <3>2. CASE j \in 1..Len(inFlight) /\ inFlight'[j] = inFlight[j]
        BY <1>1, <3>1, <3>2, <3>4 DEF Flow
      <3>3. CASE j = Len(inFlight) + 1 /\ inFlight'[j] = d
        BY <1>2, <1>5, <1>8, <3>1, <3>3, <3>4
      <3> QED BY <1>7, <3>2, <3>3
    <2>3. applied' <= sent'
      BY <1>1, <1>2, <1>3, <1>4 DEF Flow
    <2> QED BY <1>1, <1>3, <1>4, <1>6, <1>15, <2>1, <2>2, <2>3 DEF Flow, InFlight
  <1>18. Behind(sent)
    <2>1. \A m : InFlight(m) => m <= sent
      BY <1>8 DEF InFlight
    <2> QED BY <1>1, <1>4, <2>1 DEF Flow, Behind
  <1>19. Streaming'
    <2>1. ASSUME NEW g, Pending(g) PROVE Pending(g)'
      BY <1>3, <1>15, <2>1 DEF Pending, Behind
    <2>2. /\ progressDue' => progress' <= sent
          /\ \A i \in 1..Len(toServer') : toServer'[i] # None => toServer'[i] <= sent
          /\ applied' <= sent
      BY <1>1, <1>3, <1>4, <1>18 DEF Behind, Flow
    <2>3. ASSUME NEW k \in 1..Len(toClient')
          PROVE  /\ toClient'[k].kind # "checkpoint"
                 /\ toClient'[k].kind = "attached" => toClient'[k].to = None
                 /\ toClient'[k].kind = "output" => Pending(toClient[k])'
      <3>1. CASE k \in 1..Len(toClient) /\ toClient'[k] = toClient[k]
        BY <1>1, <1>4, <2>1, <3>1 DEF Streaming, Pending, InFlight, Behind
      <3>2. CASE k = Len(toClient) + 1 /\ toClient'[k] = f
        BY <1>5, <1>16, <2>2, <3>2 DEF Pending, InFlight, Behind
      <3> QED BY <1>7, <3>1, <3>2
    <2>4. ASSUME NEW k \in 1..Len(ledger')
          PROVE  ledger'[k].kind = "output" /\ Pending(ledger[k])'
      BY <1>1, <1>3, <1>4, <2>1 DEF Streaming, Pending, InFlight, Behind
    <2> QED BY <2>3, <2>4 DEF Streaming
  <1>20. Replacing'
    BY <1>3, <1>4 DEF Replacing
  <1>21. Queue'
    BY <1>1, <1>3 DEF Queue, Sound
  <1>22. toClient'[1].kind = "attached" => toClient # <<>> /\ toClient'[1] = toClient[1]
    BY <1>5, <1>6, <1>7
  <1>23. Resume'
    BY <1>1, <1>3, <1>4, <1>22 DEF Resume
  <1>24. ASSUME ~Interactive PROVE screen # Unknown /\ Covers(to, screen.rev)
    <2>1. screen # Unknown /\ Covers(sent, screen.rev) /\ (revision # None => revision = screen.rev)
      BY <1>1, <1>4, <1>24 DEF Shown, ScreenSent
    <2>2. screen.rev \in Nat
      BY <1>1, <2>1 DEF Shaped
    <2> QED BY <1>1, <1>2, <2>1, <2>2, CoversNext DEF Covers
  <1>25. Shown'
    BY <1>1, <1>2, <1>3, <1>4, <1>22, <1>24 DEF Shown, ScreenShown, ScreenSent, Covers, Silent
  <1> QED BY <1>11, <1>12, <1>13, <1>14, <1>17, <1>19, <1>20, <1>21, <1>23, <1>25 DEF DeliveryInv

(***************************************************************************)
(* Connecting.                                                              *)
(***************************************************************************)
\* The reply, and the state the task starts with, with or without a checkpoint.
Started(cp) ==
    /\ pc \in {"subscribed", "refreshed"} /\ pc' = "enter"
    /\ \/ /\ cp = NoCheckpoint /\ requested \in Nat
          /\ sent' = requested /\ applied' = requested /\ revision' = None
          /\ toClient' = <<Attached(requested, NoCheckpoint)>>
       \/ /\ cp \in Checkpoint /\ cp.rev = Len(boundaries) /\ cp.seq <= next /\ requested <= cp.seq
          /\ requested = None => pc = "refreshed" /\ cp = checkpoint
          /\ sent' = cp.seq /\ applied' = None /\ revision' = cp.rev
          /\ toClient' = <<Attached(cp.seq, cp)>>
    /\ inFlight' = <<>> /\ toServer' = <<>>
    /\ pendingCheckpoint' \in BOOLEAN /\ pendingEnd' = None /\ pinned' \in BOOLEAN
    /\ UNCHANGED <<next, earliest, boundaries, checkpoint, fence, ended, events, lagged, requested>>
    /\ UNCHANGED <<running, received, resume, needsCheckpoint, ledger, presented, progress,
                   progressDue, screen, ending, told, connections, requests>>

\* Both ways of taking the initial snapshot are this one.
LEMMA Starts ==
    ASSUME DeliveryInv, NEW incomplete \in BOOLEAN,
           TakeInitialSnapshot(incomplete) \/ TakeFreshInitialSnapshot(incomplete),
           UNCHANGED clientVars
    PROVE  \E cp \in Checkpoint \cup {NoCheckpoint} : Started(cp)
  <1> USE DEF None
  <1>1. Shaped /\ Stream
    BY DEF DeliveryInv
  <1>2. requested \in Nat \cup {None} /\ checkpoint \in Checkpoint /\ next \in Nat
    BY <1>1 DEF Shaped, StreamTypeOK
  <1>3. NoCheckpoint \notin Checkpoint /\ NoCheckpoint.seq = None /\ NoCheckpoint.rev = None
    BY DEF NoCheckpoint, Checkpoint
  <1>4. ASSUME NEW cp, Start(cp, incomplete), UNCHANGED streamVars
        PROVE  /\ inFlight' = <<>> /\ toServer' = <<>> /\ pc' = "enter"
               /\ pendingCheckpoint' \in BOOLEAN /\ pendingEnd' = None /\ pinned' \in BOOLEAN
               /\ UNCHANGED <<next, earliest, boundaries, checkpoint, fence, ended, events, lagged, requested>>
               /\ UNCHANGED <<running, received, resume, needsCheckpoint, ledger, presented, progress,
                              progressDue, screen, ending, told, connections, requests>>
    BY <1>4 DEF Start, streamVars, clientVars, controllerVars, userVars
  <1>5. CASE TakeInitialSnapshot(incomplete)
    <2> DEFINE cp == Snapshot(requested, None)
    <2>1. pc = "subscribed" /\ requested \in Nat /\ UNCHANGED streamVars /\ Start(cp, incomplete)
      BY <1>2, <1>5 DEF TakeInitialSnapshot
    <2>2. cp # NoCheckpoint =>
            cp \in Checkpoint /\ cp.rev = Len(boundaries) /\ cp.seq <= next /\ requested <= cp.seq
      BY <1>1, <1>2, SnapshotCases
    <2> HIDE DEF cp
    <2>3. CASE cp = NoCheckpoint
      <3>1. sent' = requested /\ applied' = requested /\ revision' = None
            /\ toClient' = <<Attached(requested, NoCheckpoint)>>
        BY <1>3, <2>1, <2>3 DEF Start
      <3> QED BY <1>4, <2>1, <2>3, <3>1 DEF Started
    <2>4. CASE cp # NoCheckpoint
      <3>1. sent' = cp.seq /\ applied' = None /\ revision' = cp.rev
            /\ toClient' = <<Attached(cp.seq, cp)>>
        BY <2>1, <2>4 DEF Start
      <3>2. requested # None
        BY <2>1
      <3> QED BY <1>4, <2>1, <2>2, <2>4, <3>1, <3>2 DEF Started
    <2> QED BY <2>3, <2>4
  <1>6. CASE TakeFreshInitialSnapshot(incomplete)
    <2>1. Snapshot(None, None) = checkpoint /\ checkpoint # NoCheckpoint
      BY <1>1, SnapshotCases
    <2>2. pc = "refreshed" /\ UNCHANGED streamVars /\ Start(checkpoint, incomplete)
      BY <1>6, <2>1 DEF TakeFreshInitialSnapshot
    <2>3. sent' = checkpoint.seq /\ applied' = None /\ revision' = checkpoint.rev
          /\ toClient' = <<Attached(checkpoint.seq, checkpoint)>>
      BY <2>1, <2>2 DEF Start
    <2>4. requested = None
      BY <2>2 DEF DeliveryInv, Task
    <2>5. checkpoint.rev = Len(boundaries) /\ checkpoint.seq <= next /\ requested <= checkpoint.seq
      BY <1>1, <1>2, <2>4 DEF Stream, Revision, Checkpoint
    <2> QED BY <1>2, <1>4, <2>2, <2>3, <2>4, <2>5 DEF Started
  <1> QED BY <1>5, <1>6

\* The reply starts the stream where the client's screen is, or replaces it.
LEMMA StartKeeps ==
    ASSUME DeliveryInv, NEW cp \in Checkpoint \cup {NoCheckpoint}, Started(cp)
    PROVE  DeliveryInv'
  <1> USE DEF None
  <1>1. Shaped /\ Stream /\ Task /\ Frames /\ Flow /\ Streaming /\ Replacing /\ Queue /\ Resume /\ Shown
    BY DEF DeliveryInv
  <1>2. /\ pc \in {"subscribed", "refreshed"} /\ pc' = "enter"
        /\ inFlight' = <<>> /\ toServer' = <<>> /\ Len(inFlight') = 0 /\ Len(toServer') = 0
        /\ pendingCheckpoint' \in BOOLEAN /\ pendingEnd' = None /\ pinned' \in BOOLEAN
        /\ UNCHANGED <<next, earliest, boundaries, checkpoint, fence, ended, events, lagged, requested>>
        /\ UNCHANGED <<running, received, resume, needsCheckpoint, ledger, presented, progress,
                       progressDue, screen, ending, told, connections, requests>>
        /\ next \in Nat /\ boundaries \in Seq(Nat) /\ Len(boundaries) \in Nat
    BY <1>1 DEF Started, Shaped, StreamTypeOK
  <1>3. Waiting /\ pc # "detached" /\ ~Waiting'
    BY <1>2 DEF Waiting
  <1>4. ~running /\ ~ending /\ ~told /\ ~progressDue /\ ~presented /\ ledger = <<>>
    BY <1>1, <1>2, <1>3 DEF Task, Frames, Queue
  <1>5. PICK f \in Frame :
            /\ toClient' = <<f>> /\ f.kind = "attached" /\ f.from = sent' /\ Sound(f) /\ sent' \in Nat /\ sent' <= next
            /\ \/ /\ f.to = None /\ requested \in Nat
                  /\ sent' = requested /\ applied' = requested /\ revision' = None
               \/ /\ f.to = sent' /\ f.rev = revision' /\ revision' = Len(boundaries) /\ requested <= sent'
                  /\ requested = None => pc = "refreshed" /\ sent' = checkpoint.seq
                  /\ applied' = None
    <2>1. CASE cp = NoCheckpoint /\ requested \in Nat
               /\ sent' = requested /\ applied' = requested /\ revision' = None
               /\ toClient' = <<Attached(requested, NoCheckpoint)>>
      <3>1. requested <= next
        BY <1>1, <1>2, <1>3, <2>1 DEF Resume, Shaped
      <3>2. /\ Attached(requested, NoCheckpoint) \in Frame /\ Attached(requested, NoCheckpoint).kind = "attached"
            /\ Attached(requested, NoCheckpoint).from = requested /\ Attached(requested, NoCheckpoint).to = None
            /\ Sound(Attached(requested, NoCheckpoint))
        BY <2>1 DEF Attached, Frame, Sound, NoCheckpoint
      <3> QED BY <2>1, <3>1, <3>2
    <2>2. CASE cp \in Checkpoint /\ cp.rev = Len(boundaries) /\ cp.seq <= next /\ requested <= cp.seq
               /\ (requested = None => pc = "refreshed" /\ cp = checkpoint)
               /\ sent' = cp.seq /\ applied' = None /\ revision' = cp.rev
               /\ toClient' = <<Attached(cp.seq, cp)>>
      <3>1. cp.seq \in Nat /\ cp.rev \in Nat
        BY <2>2 DEF Checkpoint
      <3>2. /\ Attached(cp.seq, cp) \in Frame /\ Attached(cp.seq, cp).kind = "attached"
            /\ Attached(cp.seq, cp).from = cp.seq /\ Attached(cp.seq, cp).to = cp.seq
            /\ Attached(cp.seq, cp).rev = cp.rev /\ Sound(Attached(cp.seq, cp))
        BY <3>1 DEF Attached, Frame, Sound
      <3> QED BY <2>2, <3>1, <3>2
    <2> QED BY <2>1, <2>2 DEF Started
  <1>6. toClient' \in Seq(Frame) /\ Len(toClient') = 1 /\ toClient'[1] = f /\ toClient' # <<>>
        /\ \A k \in 1..Len(toClient') : k = 1 /\ toClient'[k] = f
    BY <1>5
  <1>7. sent' \in Nat /\ applied' \in Nat \cup {None} /\ revision' \in Nat \cup {None}
    BY <1>2, <1>5
  <1>8. Shaped'
    BY <1>1, <1>2, <1>6, <1>7 DEF Shaped, StreamTypeOK, Phases
  <1>9. Stream'
    BY <1>1, <1>2 DEF Stream, Revision
  <1>10. Task'
    BY <1>1, <1>2, <1>3, <1>5 DEF Task
  <1>11. Frames'
    BY <1>2, <1>3, <1>4, <1>5, <1>6, <1>7 DEF Frames, After, Sound, Pos
  <1>12. Flow'
    BY <1>2, <1>4, <1>5, <1>7 DEF Flow
  <1>13. Streaming'
    BY <1>2, <1>4, <1>5, <1>6 DEF Streaming
  <1>14. Silent'
    BY <1>2, <1>4 DEF Silent
  <1>15. Replacing'
    BY <1>2, <1>4, <1>5, <1>6, <1>7, <1>14 DEF Replacing, Restoring
  <1>16. Queue'
    BY <1>1, <1>2 DEF Queue, Sound
  <1>17. Resume'
    BY <1>1, <1>2, <1>3, <1>5, <1>6 DEF Resume
  <1>18. ASSUME ~Interactive PROVE ScreenShown' /\ ScreenSent'
    <2>1. ScreenShown /\ ScreenSent
      BY <1>1, <1>18 DEF Shown
    <2>2. ScreenShown'
      BY <1>2, <2>1 DEF ScreenShown, Covers
    <2>3. CASE f.to = None /\ requested \in Nat /\ sent' = requested /\ applied' = requested /\ revision' = None
      <3>1. screen # Unknown /\ requested = screen.pos /\ Covers(screen.pos, screen.rev) /\ screen.pos \in Nat
        BY <1>1, <1>3, <2>1, <2>3 DEF ScreenSent, ScreenShown, Resume, Shaped
      <3> QED BY <1>2, <1>3, <1>5, <1>6, <2>2, <2>3, <3>1 DEF ScreenSent, Covers
    <2>4. CASE /\ f.to = sent' /\ f.rev = revision' /\ revision' = Len(boundaries) /\ requested <= sent'
               /\ requested = None => pc = "refreshed" /\ sent' = checkpoint.seq
               /\ applied' = None
      <3>1. Covers(sent, revision)'
        BY <1>2, <2>4 DEF Covers
      <3>2. screen # Unknown => screen.pos <= sent'
        BY <1>1, <1>2, <1>3, <2>1, <2>4 DEF ScreenSent
      <3>3. f.to # None
        BY <1>7, <2>4
      <3> QED BY <1>2, <1>3, <1>5, <1>6, <1>14, <2>2, <2>4, <3>1, <3>2, <3>3 DEF ScreenSent
    <2> QED BY <1>5, <2>3, <2>4
  <1> QED BY <1>8, <1>9, <1>10, <1>11, <1>12, <1>13, <1>15, <1>16, <1>17, <1>18 DEF DeliveryInv, Shown

\* A client attaches.
LEMMA ConnectKeeps ==
    ASSUME DeliveryInv, NEW from \in {None, Cursor}, Connect(from)
    PROVE  DeliveryInv'
  <1> USE DEF None
  <1>1. Shaped /\ Stream /\ Task /\ Frames /\ Flow /\ Streaming /\ Replacing /\ Queue /\ Resume /\ Shown
    BY DEF DeliveryInv
  <1>2. /\ UNCHANGED <<next, earliest, boundaries, checkpoint, fence, ended>>
        /\ UNCHANGED <<sent, revision, applied, inFlight, pendingCheckpoint, pendingEnd, pinned,
                       toClient, toServer>>
        /\ UNCHANGED <<running, received, resume, needsCheckpoint, ledger, presented, progress,
                       progressDue, screen, ending, told, requests>>
        /\ events' = <<>> /\ lagged' = FALSE /\ requested' = from
        /\ pc = "detached" /\ pc' = "subscribed" /\ ~told /\ ~ending
    BY DEF Connect, Attach, controllerVars, streamVars, transport
  <1>3. Waiting /\ Waiting'
    BY <1>2 DEF Waiting
  <1>4. events' \in Seq(Event) /\ Len(events') = 0
    BY <1>2
  <1>5. from \in Nat \cup {None} /\ (from # None => screen # Unknown /\ from <= screen.pos)
        /\ (from # None /\ ~Interactive => from = screen.pos)
    <2>1. CASE Interactive
      BY <1>1, <2>1 DEF Cursor, Shaped, Resume
    <2>2. CASE ~Interactive
      <3>1. from = None \/ from = screen.pos
        BY <2>2 DEF Cursor
      <3>2. CASE screen = Unknown
        BY <2>2, <3>1, <3>2 DEF Unknown
      <3>3. CASE screen # Unknown
        BY <1>1, <2>2, <3>1, <3>3 DEF Shaped
      <3> QED BY <3>2, <3>3
    <2> QED BY <2>1, <2>2, ControllerAssumption
  <1>6. Shaped'
    <2>1. lagged' \in BOOLEAN /\ requested' \in Nat \cup {None} /\ pc' \in Phases
      BY <1>2, <1>5 DEF Phases
    <2> QED BY <1>1, <1>2, <1>4, <2>1 DEF Shaped, StreamTypeOK
  <1>7. Stream'
    BY <1>1, <1>2 DEF Stream, Revision
  <1>8. Task'
    BY <1>1, <1>2, <1>3, <1>4 DEF Task
  <1>9. Frames'
    BY <1>1, <1>2, <1>3 DEF Frames, After, Sound, Pos, Task
  <1>10. Flow'
    BY <1>1, <1>2, <1>3 DEF Flow
  <1>11. Streaming' /\ Replacing'
    BY <1>3 DEF Streaming, Replacing
  <1>12. Queue'
    BY <1>1, <1>2 DEF Queue, Sound
  <1>13. Resume'
    BY <1>1, <1>2, <1>5 DEF Resume
  <1>14. Shown'
    BY <1>1, <1>2, <1>3, <1>5 DEF Shown, ScreenShown, ScreenSent, Covers
  <1> QED BY <1>6, <1>7, <1>8, <1>9, <1>10, <1>11, <1>12, <1>13, <1>14 DEF DeliveryInv

\* The transport fails.
LEMMA LossKeeps ==
    ASSUME DeliveryInv, LoseConnection
    PROVE  DeliveryInv'
  <1> USE DEF None
  <1>1. Shaped /\ Stream /\ Task /\ Frames /\ Flow /\ Streaming /\ Replacing /\ Queue /\ Resume /\ Shown
    BY DEF DeliveryInv
  <1>2. /\ UNCHANGED <<next, earliest, boundaries, checkpoint, fence, ended>>
        /\ UNCHANGED <<received, resume, needsCheckpoint, progress, screen, ending, told, requests>>
        /\ events' = <<>> /\ lagged' = FALSE /\ toClient' = <<>> /\ toServer' = <<>>
        /\ requested' = None /\ sent' = 0 /\ revision' = None /\ applied' = None
        /\ inFlight' = <<>> /\ pendingCheckpoint' = FALSE /\ pendingEnd' = None /\ pinned' = FALSE
        /\ running' = FALSE /\ presented' = FALSE /\ progressDue' = FALSE
        /\ ledger' = (IF ending THEN ledger ELSE <<>>)
        /\ pc # "detached" /\ pc' = "detached"
    BY DEF LoseConnection, Disconnect, ForgetDriver, userVars, streamVars
  <1>3. Waiting'
    BY <1>2 DEF Waiting
  <1>4. /\ Len(events') = 0 /\ Len(toClient') = 0 /\ Len(toServer') = 0 /\ Len(inFlight') = 0
        /\ events' \in Seq(Event) /\ toClient' \in Seq(Frame) /\ toServer' \in Seq(Nat \cup {None})
        /\ inFlight' \in Seq([end : Nat, charge : Nat])
    BY <1>2
  <1>5. ledger' = ledger \/ (ledger' = <<>> /\ ~ending)
    <2>1. CASE ending
      BY <1>2, <2>1
    <2>2. CASE ~ending
      BY <1>2, <2>2
    <2> QED BY <2>1, <2>2
  <1>6. ledger' \in Seq(Frame) /\ (ending => ~running /\ ~presented /\ pc = "closed" /\ ended)
    BY <1>1, <1>2, <1>5 DEF Shaped, Frames, Queue
  <1>7. Shaped'
    BY <1>1, <1>2, <1>4, <1>6 DEF Shaped, StreamTypeOK, Phases
  <1>8. Stream'
    BY <1>1, <1>2 DEF Stream, Revision
  <1>9. Task'
    BY <1>1, <1>2, <1>3, <1>4 DEF Task, Shaped, StreamTypeOK
  <1>10. Frames'
    BY <1>1, <1>2, <1>3, <1>4 DEF Frames
  <1>11. Flow'
    BY <1>2, <1>3, <1>4 DEF Flow
  <1>12. Streaming' /\ Replacing'
    BY <1>3 DEF Streaming, Replacing
  <1>13. Queue'
    BY <1>1, <1>2, <1>5 DEF Queue, Sound
  <1>14. Resume'
    BY <1>1, <1>2, <1>5 DEF Resume
  <1>15. Shown'
    <2>1. CASE ledger' = ledger
      BY <1>1, <1>2, <1>3, <1>6, <2>1 DEF Shown, ScreenShown, ScreenSent, Covers
    <2>2. CASE ledger' = <<>> /\ ~ending
      BY <1>1, <1>2, <1>3, <2>2 DEF Shown, ScreenShown, ScreenSent, Covers
    <2> QED BY <1>5, <2>1, <2>2
  <1> QED BY <1>7, <1>8, <1>9, <1>10, <1>11, <1>12, <1>13, <1>14, <1>15 DEF DeliveryInv

(***************************************************************************)
(* The controller takes a frame.                                            *)
(***************************************************************************)
\* What it received is then where the next frame starts.
LEMMA FrameTaken ==
    ASSUME Shaped, Frames, toClient # <<>>, toClient' = Tail(toClient),
           toClient[1].kind # "ended", running' = TRUE, received' = Pos(toClient[1]),
           UNCHANGED <<pc, sent, told, ending, ended>>
    PROVE  Frames'
  <1> USE DEF None
  <1>1. /\ toClient \in Seq(Frame) /\ Len(toClient) \in Nat /\ Len(toClient) >= 1
        /\ toClient' \in Seq(Frame) /\ Len(toClient') = Len(toClient) - 1
        /\ \A i \in 1..Len(toClient') : i + 1 \in 1..Len(toClient) /\ toClient'[i] = toClient[i + 1]
        /\ (toClient' = <<>> <=> Len(toClient) = 1)
    <2>1. toClient \in Seq(Frame) /\ Len(toClient) \in Nat
      BY DEF Shaped
    <2>2. Tail(toClient) = <<>> <=> Len(toClient) = 1
      BY <2>1, Rest
    <2>3. /\ Len(toClient) >= 1
          /\ toClient' \in Seq(Frame) /\ Len(toClient') = Len(toClient) - 1
          /\ \A i \in 1..Len(toClient') : i + 1 \in 1..Len(toClient) /\ toClient'[i] = toClient[i + 1]
      BY <2>1, Rest
    <2> QED BY <2>1, <2>2, <2>3
  <1>2. sent \in Nat /\ 1 \in 1..Len(toClient) /\ Len(toClient') \in Nat
    BY <1>1 DEF Shaped
  <1>3. \A i \in 1..Len(toClient') :
            /\ 1 < i + 1 /\ (i = Len(toClient') <=> i + 1 = Len(toClient))
            /\ i < Len(toClient') =>
                  /\ i + 1 < Len(toClient) /\ i + 1 \in 1..Len(toClient')
                  /\ (i + 1) + 1 \in 1..Len(toClient)
    BY <1>1, <1>2
  <1>4. ~told /\ ~ending
    BY DEF Frames
  <1>5. ASSUME NEW k \in 1..Len(toClient')
        PROVE  /\ Sound(toClient[k])'
               /\ toClient'[k].kind = "attached" => k = 1 /\ ~running'
               /\ toClient'[k].kind = "ended" => k = Len(toClient') /\ pc' = "closed"
               /\ toClient'[k].kind # "ended" => Pos(toClient[k])' <= sent'
               /\ k = Len(toClient') /\ toClient'[k].kind # "ended" => Pos(toClient[k])' = sent'
               /\ running' /\ toClient'[k].kind = "output" => received' <= toClient'[k].from
    <2>1. k + 1 \in 1..Len(toClient) /\ toClient'[k] = toClient[k + 1] /\ 1 < k + 1
          /\ (k = Len(toClient') <=> k + 1 = Len(toClient))
      BY <1>1, <1>3
    <2>2. toClient[k + 1].kind # "attached"
      BY <2>1 DEF Frames
    <2>3. Sound(toClient[k])'
      BY <2>1 DEF Frames, Sound
    <2>4. Pos(toClient[k])' = Pos(toClient[k + 1])
      BY <2>1 DEF Pos
    <2>5. toClient[k + 1].kind = "output" => Pos(toClient[1]) <= toClient[k + 1].from
      BY <1>2, <2>1 DEF Frames
    <2> QED BY <2>1, <2>2, <2>3, <2>4, <2>5 DEF Frames
  <1>6. ASSUME NEW k \in 1..Len(toClient'), k < Len(toClient')
        PROVE  After(toClient[k + 1], Pos(toClient[k]))'
    <2>1. /\ k + 1 \in 1..Len(toClient) /\ toClient'[k] = toClient[k + 1] /\ k + 1 < Len(toClient)
          /\ toClient'[k + 1] = toClient[(k + 1) + 1]
      BY <1>1, <1>3, <1>6
    <2>2. After(toClient[(k + 1) + 1], Pos(toClient[k + 1]))
      BY <2>1 DEF Frames
    <2> QED BY <2>1, <2>2 DEF After, Pos
  <1>7. ASSUME NEW i \in 1..Len(toClient'), NEW j \in 1..Len(toClient'),
               i < j, toClient'[j].kind = "output"
        PROVE  Pos(toClient[i])' <= toClient'[j].from
    <2>1. /\ i + 1 \in 1..Len(toClient) /\ toClient'[i] = toClient[i + 1]
          /\ j + 1 \in 1..Len(toClient) /\ toClient'[j] = toClient[j + 1]
      BY <1>1
    <2>2. i + 1 < j + 1
      BY <1>7
    <2>3. Pos(toClient[i + 1]) <= toClient[j + 1].from
      BY <1>7, <2>1, <2>2 DEF Frames
    <2> QED BY <2>1, <2>3 DEF Pos
  <1>8. received' <= sent'
    BY <1>2 DEF Frames
  <1>9. toClient' # <<>> => After(toClient[1], received)'
    <2> SUFFICES ASSUME toClient' # <<>> PROVE After(toClient[1], received)'
      OBVIOUS
    <2>1. 1 < Len(toClient) /\ 1 \in 1..Len(toClient')
      BY <1>1
    <2>2. toClient'[1] = toClient[2]
      BY <1>1, <2>1
    <2>3. After(toClient[2], Pos(toClient[1]))
      BY <1>2, <2>1 DEF Frames
    <2> QED BY <2>2, <2>3 DEF After
  <1>10. toClient' = <<>> => received' = sent'
    BY <1>1, <1>2 DEF Frames
  <1> QED BY <1>4, <1>5, <1>6, <1>7, <1>8, <1>9, <1>10 DEF Frames

\* The reply: the controller starts.
LEMMA TakesAttached ==
    ASSUME DeliveryInv, NEW compatible \in BOOLEAN, Interactive \/ compatible, ReceiveAttached(compatible)
    PROVE  DeliveryInv'
  <1> USE DEF None
  <1> DEFINE f == toClient[1]
  <1>1. Shaped /\ Stream /\ Task /\ Frames /\ Flow /\ Streaming /\ Replacing /\ Queue /\ Resume /\ Shown
    BY DEF DeliveryInv
  <1>2. /\ UNCHANGED <<next, earliest, boundaries, checkpoint, fence, ended>>
        /\ UNCHANGED <<events, lagged, pc, requested, sent, revision, applied, inFlight,
                       pendingCheckpoint, pendingEnd, pinned, toServer, ending, told>>
        /\ toClient # <<>> /\ Head(toClient).kind = "attached" /\ toClient' = Tail(toClient)
        /\ ~running /\ running' = TRUE /\ presented' = FALSE /\ progress' = None /\ progressDue' = FALSE
        /\ pc # "detached"
    BY DEF ReceiveAttached, streamVars, driverVars
  <1>3. /\ toClient \in Seq(Frame) /\ Len(toClient) \in Nat /\ 1 \in 1..Len(toClient)
        /\ Head(toClient) = f /\ f \in Frame
    BY <1>1, <1>2, Rest DEF Shaped
  <1>4. /\ toClient' \in Seq(Frame) /\ Len(toClient') = Len(toClient) - 1
        /\ \A i \in 1..Len(toClient') : i + 1 \in 1..Len(toClient) /\ 1 < i + 1 /\ toClient'[i] = toClient[i + 1]
    BY <1>2, <1>3, Rest
  <1>5. f.kind = "attached" /\ f.from \in Nat /\ (f.to = None \/ (f.to = f.from /\ f.rev \in Nat))
        /\ f.from <= sent
    BY <1>1, <1>2, <1>3 DEF Frames, Sound, Pos
  <1>6. ~Waiting /\ ~Waiting' /\ ~ending /\ ~told
    BY <1>1, <1>2 DEF Task, Frames, Waiting
  <1>7. /\ received' = f.from /\ needsCheckpoint' = (f.to # None \/ ~compatible)
        /\ resume' = (IF needsCheckpoint' THEN None ELSE f.from)
        /\ ledger' = (IF f.to # None THEN <<Replace([seq |-> f.to, rev |-> f.rev])>> ELSE <<>>)
        /\ screen' = (IF compatible THEN screen ELSE Unknown)
    BY <1>3 DEF ReceiveAttached
  <1>8. ledger = <<>>
    BY <1>1, <1>2, <1>6 DEF Queue
  <1>9. f.to = None => ledger' = <<>> /\ Len(ledger') = 0 /\ ledger' \in Seq(Frame)
    BY <1>7
  <1>10. f.to # None =>
           /\ Len(ledger') = 1 /\ ledger' # <<>> /\ ledger'[1] \in Frame /\ ledger' \in Seq(Frame)
           /\ ledger'[1].kind = "checkpoint" /\ ledger'[1].to = f.to /\ ledger'[1].rev = f.rev
           /\ \A k \in 1..Len(ledger') : k = 1
    BY <1>5, <1>7 DEF Replace, Frame
  <1>11. (resume' # None => f.to = None /\ compatible /\ resume' = f.from) /\ resume' \in Nat \cup {None}
         /\ needsCheckpoint' \in BOOLEAN /\ (~needsCheckpoint' => f.to = None /\ compatible)
    BY <1>5, <1>7
  <1>12. screen' = screen \/ screen' = Unknown
    BY <1>7
  <1>13. compatible => screen' = screen
    BY <1>7
  <1> HIDE DEF f
  <1>14. \A k \in 1..Len(toClient') : toClient'[k].kind # "attached"
    BY <1>1, <1>4 DEF Frames
  <1>15. Shaped'
    <2>1. ledger' \in Seq(Frame)
      BY <1>9, <1>10
    <2>2. screen' \in [pos : Nat, rev : Nat] \cup {Unknown}
      BY <1>1, <1>12 DEF Shaped
    <2>3. running' \in BOOLEAN /\ presented' \in BOOLEAN /\ progressDue' \in BOOLEAN
          /\ progress' \in Nat \cup {None} /\ received' \in Nat
      BY <1>2, <1>5, <1>7
    <2> QED BY <1>1, <1>2, <1>4, <1>11, <2>1, <2>2, <2>3 DEF Shaped, StreamTypeOK
  <1>16. Stream'
    BY <1>1, <1>2 DEF Stream, Revision
  <1>17. Task'
    BY <1>1, <1>2, <1>6 DEF Task
  <1>18. Frames'
    BY <1>1, <1>2, <1>5, <1>7, FrameTaken DEF f, Pos
  <1>19. Flow'
    BY <1>1, <1>2, <1>6 DEF Flow, InFlight
  <1>20. \A p : Behind(p) => Behind(p)'
    BY <1>2 DEF Behind
  <1>21. Streaming'
    <2> SUFFICES ASSUME applied # None PROVE Streaming'
      BY <1>2 DEF Streaming
    <2>1. f.to = None
      BY <1>1, <1>3, <1>5, <1>6 DEF Streaming, f
    <2>2. ASSUME NEW k \in 1..Len(toClient')
          PROVE  /\ toClient'[k].kind # "checkpoint"
                 /\ toClient'[k].kind = "output" => Pending(toClient[k])'
      <3>1. k + 1 \in 1..Len(toClient) /\ toClient'[k] = toClient[k + 1]
        BY <1>4
      <3>2. /\ toClient[k + 1].kind # "checkpoint"
            /\ toClient[k + 1].kind = "output" => Pending(toClient[k + 1])
        BY <1>1, <1>6, <3>1 DEF Streaming
      <3> QED BY <1>2, <3>1, <3>2 DEF Pending, InFlight, Behind
    <2> QED BY <1>9, <1>14, <2>1, <2>2 DEF Streaming
  <1>22. Silent => Silent'
    BY <1>2 DEF Silent
  <1>23. Replacing'
    <2> SUFFICES ASSUME applied = None PROVE Replacing'
      BY <1>2 DEF Replacing
    <2>1. revision \in Nat
      BY <1>1, <1>6 DEF Replacing
    <2>2. ASSUME NEW k \in 1..Len(toClient')
          PROVE  /\ toClient'[k].kind # "output"
                 /\ toClient'[k].kind = "checkpoint" => k = 1 /\ f.to = None
                 /\ Restoring(toClient[k])' =>
                       /\ toClient'[k].to = sent' /\ toClient'[k].rev = revision'
                       /\ f.to = None /\ Silent'
      <3>1. k + 1 \in 1..Len(toClient) /\ toClient'[k] = toClient[k + 1] /\ k + 1 # 1
        BY <1>4
      <3>2. /\ toClient[k + 1].kind # "output"
            /\ toClient[k + 1].kind = "checkpoint" => k + 1 = 2 /\ toClient[1].to = None
            /\ Restoring(toClient[k + 1]) =>
                  toClient[k + 1].to = sent /\ toClient[k + 1].rev = revision /\ Silent
        BY <1>1, <1>6, <3>1 DEF Replacing
      <3>3. Restoring(toClient[k])' => Restoring(toClient[k + 1]) /\ toClient[k + 1].kind = "checkpoint"
        BY <1>14, <3>1 DEF Restoring
      <3>4. k + 1 = 2 => k = 1
        OBVIOUS
      <3> QED BY <1>2, <1>22, <3>1, <3>2, <3>3, <3>4 DEF f
    <2>3. f.to # None => f.to = sent /\ f.rev = revision /\ Silent'
      <3> SUFFICES ASSUME f.to # None PROVE f.to = sent /\ f.rev = revision /\ Silent
        BY <1>22
      <3>1. Restoring(toClient[1])
        BY <1>5 DEF Restoring, f
      <3> QED BY <1>1, <1>3, <1>6, <3>1 DEF Replacing, f
    <2>4. ledger' # <<>> => f.to # None
      BY <1>9
    <2> QED BY <1>2, <1>9, <1>10, <1>14, <2>1, <2>2, <2>3, <2>4 DEF Replacing
  <1>24. Queue'
    <2>1. received' <= next'
      BY <1>1, <1>2, <1>5, <1>7 DEF Task, Shaped, StreamTypeOK
    <2>2. CASE f.to = None
      BY <1>2, <1>9, <2>1, <2>2 DEF Queue
    <2>3. CASE f.to # None
      <3>1. f.to = f.from /\ f.from \in Nat /\ f.rev \in Nat /\ needsCheckpoint'
        BY <1>5, <1>11, <2>3
      <3> QED BY <1>2, <1>7, <1>10, <2>1, <2>3, <3>1 DEF Queue, Sound
    <2> QED BY <2>2, <2>3
  <1>25. f.to = None => screen # Unknown /\ f.from <= screen.pos
    BY <1>1, <1>2, <1>5 DEF Resume, f
  <1>26. Resume'
    <2>1. toClient' # <<>> => toClient'[1].kind # "attached"
      BY <1>4, <1>14
    <2>2. screen' # Unknown => screen'.pos <= next'
      BY <1>1, <1>2, <1>12 DEF Resume
    <2>3. resume' # None => screen' # Unknown /\ resume' <= screen'.pos /\ ledger' = <<>> /\ resume' <= received'
      BY <1>5, <1>7, <1>9, <1>11, <1>13, <1>25
    <2>4. ~needsCheckpoint' => screen' # Unknown
      BY <1>11, <1>13, <1>25
    <2> QED BY <1>6, <2>1, <2>2, <2>3, <2>4 DEF Resume
  <1>27. ASSUME ~Interactive PROVE ScreenShown' /\ ScreenSent'
    <2>1. ScreenShown /\ ScreenSent /\ screen' = screen
      BY <1>1, <1>13, <1>27 DEF Shown
    <2>2. toClient' # <<>> => toClient'[1].kind # "attached"
      BY <1>4, <1>14
    <2>3. f.to = None => screen # Unknown /\ screen.pos = f.from
      BY <1>2, <1>5, <1>25, <2>1 DEF ScreenSent, f
    <2>4. screen # Unknown => screen.pos <= f.from
      BY <1>2, <1>5, <2>1 DEF ScreenSent, f
    <2>5. f.to # None => Covers(f.to, f.rev)
      <3> SUFFICES ASSUME f.to # None PROVE Covers(f.to, f.rev)
        OBVIOUS
      <3>1. applied = None
        BY <1>1, <1>3, <1>5, <1>6 DEF Streaming, f
      <3>2. Restoring(toClient[1])
        BY <1>5 DEF Restoring, f
      <3>3. f.to = sent /\ f.rev = revision
        BY <1>1, <1>3, <1>6, <3>1, <3>2 DEF Replacing, f
      <3> QED BY <1>6, <2>1, <3>1, <3>3 DEF ScreenSent
    <2>6. ScreenShown'
      <3>1. CASE f.to = None
        BY <1>2, <1>6, <1>7, <1>9, <2>1, <2>3, <3>1 DEF ScreenShown, Covers
      <3>2. CASE f.to # None
        <4>1. ledger'[1].to = f.from /\ Covers(ledger[1].to, ledger[1].rev)'
          BY <1>2, <1>5, <1>10, <2>5, <3>2 DEF Covers
        <4> QED BY <1>2, <1>6, <1>10, <2>1, <2>4, <3>2, <4>1 DEF ScreenShown, Covers
      <3> QED BY <3>1, <3>2
    <2>7. ScreenSent'
      BY <1>2, <1>6, <1>22, <2>1, <2>2 DEF ScreenSent, Covers
    <2> QED BY <2>6, <2>7
  <1> QED BY <1>15, <1>16, <1>17, <1>18, <1>19, <1>21, <1>23, <1>24, <1>26, <1>27 DEF DeliveryInv, Shown

\* Output or a checkpoint goes to the end of the ledger: what both do.
Queues(f) ==
    /\ running /\ toClient # <<>> /\ f = toClient[1] /\ f.kind \in {"output", "checkpoint"}
    /\ toClient' = Tail(toClient) /\ received' = f.to /\ ledger' = Append(ledger, f)
    /\ f.kind = "checkpoint" => resume' = None /\ needsCheckpoint' = TRUE
    /\ f.kind = "output" => resume' = resume /\ needsCheckpoint' = needsCheckpoint
    /\ UNCHANGED <<next, earliest, boundaries, checkpoint, fence, ended>>
    /\ UNCHANGED <<events, lagged, pc, requested, sent, revision, applied, inFlight,
                   pendingCheckpoint, pendingEnd, pinned, toServer>>
    /\ UNCHANGED <<running, presented, progress, progressDue, screen, ending, told>>

\* Both kinds of frames are queued like this.
LEMMA FramesQueue ==
    ASSUME DeliveryInv, ProcessOutput \/ ProcessCheckpoint
    PROVE  Queues(toClient[1])
  <1>1. toClient \in Seq(Frame)
    BY DEF DeliveryInv, Shaped
  <1>2. CASE ProcessOutput
    <2>1. toClient # <<>> /\ Head(toClient).kind = "output"
      BY <1>2 DEF ProcessOutput, TakesFrame
    <2>2. Head(toClient) = toClient[1]
      BY <1>1, <2>1, Rest
    <2> QED BY <1>2, <2>1, <2>2
            DEF ProcessOutput, TakesFrame, Queues, streamVars, driverVars, userVars
  <1>3. CASE ProcessCheckpoint
    <2>1. toClient # <<>> /\ Head(toClient).kind = "checkpoint"
      BY <1>3 DEF ProcessCheckpoint, TakesFrame
    <2>2. Head(toClient) = toClient[1]
      BY <1>1, <2>1, Rest
    <2> QED BY <1>3, <2>1, <2>2
            DEF ProcessCheckpoint, TakesFrame, Queues, streamVars, driverVars, userVars
  <1> QED BY <1>2, <1>3

\* The ledger stays in order.
LEMMA QueueKeeps ==
    ASSUME DeliveryInv, Queues(toClient[1])
    PROVE  DeliveryInv'
  <1> USE DEF None
  <1>1. Shaped /\ Stream /\ Task /\ Frames /\ Flow /\ Streaming /\ Replacing /\ Queue /\ Resume /\ Shown
    BY DEF DeliveryInv
  <1>2. PICK f : f = toClient[1]
    OBVIOUS
  <1>3. /\ UNCHANGED <<next, earliest, boundaries, checkpoint, fence, ended>>
        /\ UNCHANGED <<events, lagged, pc, requested, sent, revision, applied, inFlight,
                       pendingCheckpoint, pendingEnd, pinned, toServer>>
        /\ UNCHANGED <<running, presented, progress, progressDue, screen, ending, told>>
        /\ running /\ toClient # <<>> /\ f.kind \in {"output", "checkpoint"}
        /\ toClient' = Tail(toClient) /\ received' = f.to /\ ledger' = Append(ledger, f)
        /\ f.kind = "checkpoint" => resume' = None /\ needsCheckpoint' = TRUE
        /\ f.kind = "output" => resume' = resume /\ needsCheckpoint' = needsCheckpoint
    BY <1>2 DEF Queues
  <1>4. /\ toClient \in Seq(Frame) /\ Len(toClient) \in Nat /\ 1 \in 1..Len(toClient) /\ f \in Frame
        /\ toClient' \in Seq(Frame) /\ Len(toClient') = Len(toClient) - 1
        /\ \A i \in 1..Len(toClient') : i + 1 \in 1..Len(toClient) /\ 1 < i + 1 /\ toClient'[i] = toClient[i + 1]
    BY <1>1, <1>2, <1>3, Rest DEF Shaped
  <1>5. /\ ledger \in Seq(Frame) /\ Len(ledger) \in Nat /\ ledger' # <<>>
        /\ ledger' \in Seq(Frame) /\ Len(ledger') = Len(ledger) + 1
        /\ \A i \in 1..Len(ledger) : ledger'[i] = ledger[i]
        /\ ledger'[Len(ledger) + 1] = f
    <2>1. ledger \in Seq(Frame) /\ Len(ledger) \in Nat
      BY <1>1 DEF Shaped
    <2>2. ledger' = Append(ledger, f) /\ f \in Frame
      BY <1>3, <1>4
    <2> QED BY <2>1, <2>2, Appended
  <1>6. \A k \in 1..Len(ledger') :
            \/ k \in 1..Len(ledger) /\ ledger'[k] = ledger[k]
            \/ k = Len(ledger) + 1 /\ ledger'[k] = f
    BY <1>3, <1>4, <1>5, AppendedCases
  <1>7. /\ Sound(f) /\ f.to \in Nat /\ f.to <= sent /\ sent \in Nat /\ received \in Nat /\ received <= f.to
        /\ f.kind = "output" => f.from = received /\ f.from < f.to
    <2>1. Sound(f) /\ Pos(f) = f.to /\ f.to <= sent /\ After(f, received)
      BY <1>1, <1>2, <1>3, <1>4 DEF Frames, Pos
    <2>2. sent \in Nat /\ received \in Nat
      BY <1>1 DEF Shaped
    <2> QED BY <1>3, <2>1, <2>2 DEF Sound, After
  <1>8. ~Waiting /\ ~Waiting' /\ ~ending /\ ~told
    BY <1>1, <1>3 DEF Task, Frames, Waiting
  <1>9. /\ f.kind = "output" => applied # None
        /\ f.kind = "checkpoint" => applied = None /\ ledger = <<>> /\ Silent /\ f.to = sent /\ f.rev = revision
    BY <1>1, <1>2, <1>3, <1>4, <1>8 DEF Streaming, Replacing, Restoring
  <1>10. f.kind = "output" => \A k \in 1..Len(ledger) : ledger[k].kind = "output"
    BY <1>1, <1>8, <1>9 DEF Streaming
  <1>11. \A k \in 1..Len(toClient') : toClient'[k].kind # "attached"
    BY <1>1, <1>4 DEF Frames
  <1>12. Shaped'
    <2>1. received' \in Nat /\ resume' \in Nat \cup {None} /\ needsCheckpoint' \in BOOLEAN
      BY <1>1, <1>3, <1>7 DEF Shaped
    <2> QED BY <1>1, <1>3, <1>4, <1>5, <2>1 DEF Shaped, StreamTypeOK
  <1>13. Stream'
    BY <1>1, <1>3 DEF Stream, Revision
  <1>14. Task'
    BY <1>1, <1>3, <1>8 DEF Task
  <1>15. Frames'
    <2>1. toClient[1].kind # "ended" /\ received' = Pos(toClient[1])
      BY <1>2, <1>3 DEF Pos
    <2>2. running' = TRUE
      BY <1>1, <1>3 DEF Shaped
    <2> QED BY <1>1, <1>3, <2>1, <2>2, FrameTaken
  <1>16. Flow'
    BY <1>1, <1>3, <1>8 DEF Flow, InFlight
  <1>17. Streaming'
    <2> SUFFICES ASSUME applied # None PROVE Streaming'
      BY <1>3 DEF Streaming
    <2>1. f.kind = "output" /\ Pending(f)
      BY <1>1, <1>2, <1>3, <1>4, <1>8, <1>9 DEF Streaming
    <2>2. ASSUME NEW k \in 1..Len(toClient')
          PROVE  /\ toClient'[k].kind # "checkpoint"
                 /\ toClient'[k].kind = "output" => Pending(toClient[k])'
      <3>1. k + 1 \in 1..Len(toClient) /\ toClient'[k] = toClient[k + 1]
        BY <1>4
      <3>2. /\ toClient[k + 1].kind # "checkpoint"
            /\ toClient[k + 1].kind = "output" => Pending(toClient[k + 1])
        BY <1>1, <1>8, <3>1 DEF Streaming
      <3> QED BY <1>3, <3>1, <3>2 DEF Pending, InFlight, Behind
    <2>3. ASSUME NEW k \in 1..Len(ledger')
          PROVE  ledger'[k].kind = "output" /\ Pending(ledger[k])'
      <3>1. ledger'[k].kind = "output" /\ Pending(ledger'[k])
        BY <1>1, <1>6, <1>8, <2>1 DEF Streaming
      <3> QED BY <1>3, <3>1 DEF Pending, InFlight, Behind
    <2> QED BY <1>11, <2>2, <2>3 DEF Streaming
  <1>18. Silent => Silent'
    BY <1>3 DEF Silent
  <1>19. Replacing'
    <2> SUFFICES ASSUME applied = None PROVE Replacing'
      BY <1>3 DEF Replacing
    <2>1. f.kind = "checkpoint" /\ ledger = <<>> /\ Silent' /\ f.to = sent /\ f.rev = revision /\ revision \in Nat
      BY <1>1, <1>3, <1>8, <1>9, <1>18 DEF Replacing
    <2>2. Len(ledger') = 1 /\ ledger'[1] = f
      BY <1>5, <2>1
    <2>3. ASSUME NEW k \in 1..Len(toClient')
          PROVE  toClient'[k].kind \notin {"output", "checkpoint", "attached"}
      <3>1. k + 1 \in 1..Len(toClient) /\ toClient'[k] = toClient[k + 1] /\ k + 1 # 1
        BY <1>4
      <3>2. toClient[k + 1].kind # "output" /\ toClient[k + 1].kind # "checkpoint"
        BY <1>1, <1>2, <1>8, <2>1, <3>1 DEF Replacing
      <3> QED BY <1>11, <3>1, <3>2
    <2> QED BY <1>3, <2>1, <2>2, <2>3 DEF Replacing, Restoring
  <1>20. Queue'
    <2>1. received' <= next'
      BY <1>1, <1>3, <1>7 DEF Task, Shaped, StreamTypeOK
    <2>2. CASE f.kind = "checkpoint"
      <3>1. Len(ledger) = 0 /\ Len(ledger') = 1 /\ ledger'[1] = f
        BY <1>5, <1>9, <2>2
      <3>2. ~presented
        BY <1>1, <1>9, <2>2 DEF Queue
      <3>3. \A k \in 1..Len(ledger') : k = 1 /\ ledger'[k] = f
        BY <3>1
      <3>4. Sound(f)'
        BY <1>7 DEF Sound
      <3> QED BY <1>3, <1>5, <1>7, <2>1, <2>2, <3>1, <3>2, <3>3, <3>4 DEF Queue, Sound
    <2>3. CASE f.kind = "output"
      <3>1. ASSUME NEW k \in 1..Len(ledger')
            PROVE  /\ ledger'[k].kind = "output"
                   /\ Sound(ledger[k])'
                   /\ ledger'[k].to <= received'
                   /\ k = Len(ledger') => ledger'[k].to = received'
        <4>1. CASE k \in 1..Len(ledger) /\ ledger'[k] = ledger[k]
          <5>1. k # Len(ledger')
            BY <1>5, <4>1
          <5>2. Sound(ledger[k]) /\ ledger[k].kind = "output" /\ ledger[k].to <= received
            BY <1>1, <1>10, <2>3, <4>1 DEF Queue
          <5> QED BY <1>3, <1>7, <4>1, <5>1, <5>2 DEF Sound
        <4>2. CASE k = Len(ledger) + 1 /\ ledger'[k] = f
          BY <1>3, <1>7, <2>3, <4>2 DEF Sound
        <4> QED BY <1>6, <4>1, <4>2
      <3>2. ASSUME NEW k \in 1..Len(ledger'), k < Len(ledger')
            PROVE  ledger'[k + 1].from = ledger'[k].to
        <4>1. k \in 1..Len(ledger) /\ ledger'[k] = ledger[k]
          BY <1>5, <3>2
        <4>2. CASE k = Len(ledger)
          BY <1>1, <1>5, <1>7, <2>3, <4>1, <4>2 DEF Queue
        <4>3. CASE k # Len(ledger)
          <5>1. k < Len(ledger) /\ k + 1 \in 1..Len(ledger) /\ ledger'[k + 1] = ledger[k + 1]
            BY <1>5, <4>1, <4>3
          <5> QED BY <1>1, <4>1, <5>1 DEF Queue
        <4> QED BY <4>2, <4>3
      <3>3. ASSUME NEW i \in 1..Len(ledger'), NEW j \in 1..Len(ledger'), i < j
            PROVE  ledger'[i].to <= ledger'[j].from
        <4>1. i \in 1..Len(ledger) /\ ledger'[i] = ledger[i]
          BY <1>5, <3>3
        <4>2. CASE j \in 1..Len(ledger) /\ ledger'[j] = ledger[j]
          BY <1>1, <3>3, <4>1, <4>2 DEF Queue
        <4>3. CASE j = Len(ledger) + 1 /\ ledger'[j] = f
          BY <1>1, <1>7, <2>3, <4>1, <4>3 DEF Queue
        <4> QED BY <1>6, <4>2, <4>3
      <3>4. presented /\ screen # Unknown => screen.pos = ledger'[1].to
        BY <1>1, <1>5 DEF Queue
      <3>5. 1 \in 1..Len(ledger') /\ ledger'[1].kind = "output"
        BY <1>5, <3>1
      <3> QED BY <1>3, <1>5, <2>1, <3>1, <3>2, <3>3, <3>4, <3>5, <1>1 DEF Queue
    <2> QED BY <1>3, <2>2, <2>3
  <1>21. toClient' # <<>> => toClient'[1].kind # "attached"
    BY <1>4, <1>11
  <1>22. f.kind = "output" /\ ledger = <<>> => ledger'[1] = f
    BY <1>5
  <1>23. ledger # <<>> => ledger'[1] = ledger[1]
    BY <1>5
  <1>24. Resume'
    <2>1. CASE f.kind = "checkpoint"
      BY <1>1, <1>3, <1>8, <1>21, <2>1 DEF Resume
    <2>2. CASE f.kind = "output"
      <3>1. resume # None => ledger'[1].kind = "output" /\ resume <= ledger'[1].from /\ resume <= f.to
        <4>1. resume \in Nat \cup {None}
          BY <1>1 DEF Shaped
        <4>2. resume # None => resume <= received
          BY <1>1, <1>3 DEF Resume
        <4>3. CASE ledger = <<>>
          BY <1>7, <1>22, <2>2, <4>1, <4>2, <4>3
        <4>4. CASE ledger # <<>>
          BY <1>1, <1>7, <1>23, <4>1, <4>2, <4>4 DEF Resume
        <4> QED BY <4>3, <4>4
      <3> QED BY <1>1, <1>3, <1>8, <1>21, <2>2, <3>1 DEF Resume
    <2> QED BY <1>3, <2>1, <2>2
  <1>25. ASSUME ~Interactive PROVE ScreenShown' /\ ScreenSent'
    <2>1. ScreenShown /\ ScreenSent
      BY <1>1, <1>25 DEF Shown
    <2>2. ScreenSent'
      BY <1>3, <1>8, <1>18, <1>21, <2>1 DEF ScreenSent, Covers, Silent
    <2>3. CASE f.kind = "checkpoint"
      <3>1. ledger = <<>> /\ ledger'[1] = f /\ ~presented
        BY <1>1, <1>5, <1>9, <2>3 DEF Queue
      <3>2. Covers(ledger[1].to, ledger[1].rev)'
        BY <1>3, <1>8, <1>9, <2>1, <2>3, <3>1 DEF ScreenSent, Covers
      <3>3. screen # Unknown /\ screen.pos = received
        BY <1>3, <2>1, <3>1 DEF ScreenShown
      <3> QED BY <1>3, <1>5, <1>7, <1>8, <2>1, <2>2, <2>3, <3>1, <3>2, <3>3 DEF ScreenShown, Covers
    <2>4. CASE f.kind = "output"
      <3>1. screen # Unknown /\ Covers(sent, screen.rev) /\ screen \in [pos : Nat, rev : Nat]
        BY <1>1, <1>8, <1>9, <2>1, <2>4 DEF ScreenSent, Shaped
      <3>2. Covers(received, screen.rev)'
        <4>1. boundaries \in Seq(Nat) /\ \A r \in 1..Len(boundaries) : boundaries[r] \in Nat
          BY <1>1, Elements DEF Shaped, StreamTypeOK
        <4> QED BY <1>3, <1>7, <3>1, <4>1 DEF Covers
      <3>3. CASE ledger = <<>>
        <4>1. ~presented /\ screen.pos = f.from /\ ledger'[1] = f
          BY <1>1, <1>3, <1>7, <1>22, <2>1, <2>4, <3>3 DEF ScreenShown, Queue
        <4> QED BY <1>3, <1>5, <1>8, <2>1, <2>2, <2>4, <3>1, <3>2, <4>1 DEF ScreenShown, Covers
      <3>4. CASE ledger # <<>>
        <4>1. ledger'[1] = ledger[1] /\ ledger[1].kind = "output"
          BY <1>5, <1>10, <1>23, <2>4, <3>4
        <4> QED BY <1>3, <1>5, <1>8, <2>1, <2>2, <3>1, <3>2, <3>4, <4>1 DEF ScreenShown, Covers
      <3> QED BY <3>3, <3>4
    <2> QED BY <1>3, <2>3, <2>4
  <1> QED BY <1>12, <1>13, <1>14, <1>15, <1>16, <1>17, <1>19, <1>20, <1>24, <1>25 DEF DeliveryInv, Shown

\* The end: the controller returns, and a renderer that goes on keeps its queue.
LEMMA TakesEnd ==
    ASSUME DeliveryInv, ProcessSessionEnded
    PROVE  DeliveryInv'
  <1> USE DEF None
  <1>1. Shaped /\ Stream /\ Task /\ Frames /\ Flow /\ Streaming /\ Replacing /\ Queue /\ Resume /\ Shown
    BY DEF DeliveryInv
  <1>2. /\ UNCHANGED <<next, earliest, boundaries, checkpoint, fence, ended>>
        /\ UNCHANGED <<events, lagged, pc, requested, sent, revision, applied, inFlight,
                       pendingCheckpoint, pendingEnd, pinned, toServer>>
        /\ UNCHANGED <<received, resume, needsCheckpoint, progress, screen>>
        /\ running /\ toClient # <<>> /\ Head(toClient).kind = "ended" /\ toClient' = Tail(toClient)
        /\ ~running' /\ ~presented' /\ ~progressDue'
    BY DEF ProcessSessionEnded, TakesFrame, streamVars, driverVars
  <1>3. /\ running' = FALSE /\ presented' = FALSE /\ progressDue' = FALSE
         /\ ledger' = (IF Interactive THEN <<>> ELSE Queued)
         /\ ending' = ~Interactive /\ told' = Interactive
    BY DEF ProcessSessionEnded
  <1>4. /\ toClient \in Seq(Frame) /\ 1 \in 1..Len(toClient) /\ Head(toClient) = toClient[1]
    BY <1>1, <1>2, Rest DEF Shaped
  <1>5. toClient[1].kind = "ended" /\ 1 = Len(toClient) /\ pc = "closed" /\ received = sent
    BY <1>1, <1>2, <1>4 DEF Frames, After
  <1>6. toClient' = <<>> /\ Len(toClient') = 0 /\ toClient' \in Seq(Frame)
    BY <1>2, <1>4, <1>5, Rest
  <1>7. ended /\ sent = next /\ ~Waiting /\ ~Waiting'
    BY <1>1, <1>2, <1>5 DEF Task, Waiting
  <1>8. ledger \in Seq(Frame) /\ Len(ledger) \in Nat /\ presented \in BOOLEAN
    BY <1>1 DEF Shaped
  <1>9. \/ ledger' = ledger /\ ~presented /\ ~Interactive
        \/ ledger' = Tail(ledger) /\ presented /\ ~Interactive /\ ledger # <<>>
        \/ ledger' = <<>> /\ Interactive
    <2>1. CASE Interactive
      BY <1>3, <2>1
    <2>2. CASE ~Interactive /\ presented
      BY <1>1, <1>3, <2>2 DEF Queued, Queue
    <2>3. CASE ~Interactive /\ ~presented
      BY <1>3, <2>3 DEF Queued
    <2> QED BY <1>8, <2>1, <2>2, <2>3, ControllerAssumption
  <1>10. ASSUME ledger' = Tail(ledger), ledger # <<>>
        PROVE  /\ ledger' \in Seq(Frame) /\ Len(ledger') = Len(ledger) - 1
               /\ \A i \in 1..Len(ledger') : i + 1 \in 1..Len(ledger) /\ ledger'[i] = ledger[i + 1]
    BY <1>8, <1>10, Rest
  <1>11. ledger' \in Seq(Frame)
    <2>1. <<>> \in Seq(Frame)
      OBVIOUS
    <2> QED BY <1>8, <1>9, <1>10, <2>1
  <1>12. \A k \in 1..Len(ledger') : \E i \in 1..Len(ledger) : ledger'[k] = ledger[i]
    <2>1. CASE ledger' = ledger
      BY <2>1
    <2>2. CASE ledger' = Tail(ledger) /\ ledger # <<>>
      BY <1>10, <2>2
    <2>3. CASE ledger' = <<>>
      BY <2>3
    <2> QED BY <1>9, <2>1, <2>2, <2>3
  <1>13. Shaped'
    <2>1. running' \in BOOLEAN /\ presented' \in BOOLEAN /\ progressDue' \in BOOLEAN
          /\ ending' \in BOOLEAN /\ told' \in BOOLEAN
      BY <1>3, ControllerAssumption
    <2> QED BY <1>1, <1>2, <1>6, <1>11, <2>1 DEF Shaped, StreamTypeOK
  <1>14. Stream'
    BY <1>1, <1>2 DEF Stream, Revision
  <1>15. Task'
    BY <1>1, <1>2, <1>7 DEF Task
  <1>16. ending' \/ told'
    BY <1>3, ControllerAssumption
  <1>17. pc' = "closed" /\ ended'
    BY <1>2, <1>5, <1>7
  <1>18. Frames'
    BY <1>2, <1>6, <1>7, <1>16, <1>17 DEF Frames
  <1>19. Flow'
    BY <1>1, <1>2, <1>7 DEF Flow, InFlight
  <1>20. Streaming'
    <2> SUFFICES ASSUME applied # None PROVE Streaming'
      BY <1>2 DEF Streaming
    <2>2. Len(toClient') = 0
      BY <1>6
    <2>1. ASSUME NEW k \in 1..Len(ledger')
          PROVE  ledger'[k].kind = "output" /\ Pending(ledger[k])'
      <3>1. PICK i \in 1..Len(ledger) : ledger'[k] = ledger[i]
        BY <1>12
      <3>2. ledger[i].kind = "output" /\ Pending(ledger[i])
        BY <1>1, <1>7, <2>1 DEF Streaming
      <3> QED BY <1>2, <3>1, <3>2 DEF Pending, InFlight, Behind
    <2> QED BY <2>1, <2>2 DEF Streaming
  <1>21. Silent => Silent'
    BY <1>2 DEF Silent
  <1>22. Replacing'
    <2> SUFFICES ASSUME applied = None PROVE Replacing'
      BY <1>2 DEF Replacing
    <2>1. ledger # <<>> => Len(ledger) = 1 /\ ledger[1].kind = "checkpoint" /\ ledger[1].to = sent
                           /\ ledger[1].rev = revision /\ Silent
      BY <1>1, <1>7 DEF Replacing
    <2>2. ledger' = ledger \/ ledger' = <<>>
      BY <1>9, <1>8, <2>1, Rest
    <2>3. revision \in Nat
      BY <1>1, <1>7 DEF Replacing
    <2> QED BY <1>2, <1>6, <1>21, <2>1, <2>2, <2>3 DEF Replacing
  <1>23. CASE ~Interactive /\ ~presented /\ ledger' = ledger
    <2>1. Queue'
      BY <1>1, <1>2, <1>3, <1>23 DEF Queue, Sound
    <2>2. Resume'
      BY <1>1, <1>2, <1>6, <1>7, <1>23 DEF Resume
    <2>3. Shown'
      BY <1>1, <1>2, <1>5, <1>6, <1>7, <1>21, <1>23, <1>3 DEF Shown, ScreenShown, ScreenSent, Covers
    <2> QED BY <1>13, <1>14, <1>15, <1>18, <1>19, <1>20, <1>22, <2>1, <2>2, <2>3 DEF DeliveryInv
  <1>24. CASE Interactive /\ ledger' = <<>>
    <2>1. Queue'
      BY <1>1, <1>2, <1>3, <1>24 DEF Queue
    <2>2. Resume'
      BY <1>1, <1>2, <1>6, <1>7, <1>24 DEF Resume
    <2>3. Shown'
      BY <1>24 DEF Shown
    <2> QED BY <1>13, <1>14, <1>15, <1>18, <1>19, <1>20, <1>22, <2>1, <2>2, <2>3 DEF DeliveryInv
  <1>25. CASE ~Interactive /\ presented /\ ledger # <<>> /\ ledger' = Tail(ledger)
    <2>1. /\ Len(ledger') = Len(ledger) - 1 /\ 1 \in 1..Len(ledger)
          /\ \A i \in 1..Len(ledger') : i + 1 \in 1..Len(ledger) /\ ledger'[i] = ledger[i + 1]
      BY <1>8, <1>10, <1>25
    <2>2. \A i \in 1..Len(ledger') :
            /\ 1 < i + 1 /\ (i = Len(ledger') <=> i + 1 = Len(ledger)) /\ Len(ledger) # 1
            /\ i < Len(ledger') => i + 1 < Len(ledger) /\ i + 1 \in 1..Len(ledger')
      BY <1>8, <2>1
    <2>3. ASSUME NEW k \in 1..Len(ledger')
          PROVE  /\ ledger'[k].kind = "output"
                 /\ Sound(ledger[k])'
                 /\ ledger'[k].to <= received'
                 /\ k = Len(ledger') => ledger'[k].to = received'
                 /\ k < Len(ledger') => ledger'[k + 1].from = ledger'[k].to
      <3>1. k + 1 \in 1..Len(ledger) /\ ledger'[k] = ledger[k + 1]
        BY <2>1
      <3>2. Sound(ledger[k + 1]) /\ ledger[k + 1].kind = "output"
        BY <1>1, <2>2, <3>1 DEF Queue
      <3> QED BY <1>1, <1>2, <2>1, <2>2, <3>1, <3>2 DEF Queue, Sound
    <2>4. ASSUME NEW i \in 1..Len(ledger'), NEW j \in 1..Len(ledger'), i < j
          PROVE  ledger'[i].to <= ledger'[j].from
      <3>1. i + 1 < j + 1
        BY <2>4
      <3> QED BY <1>1, <2>1, <3>1 DEF Queue
    <2>5. Queue'
      BY <1>1, <1>2, <1>3, <2>3, <2>4 DEF Queue
    <2>6. ledger' # <<>> =>
            /\ ledger'[1] = ledger[2] /\ ledger[1].to = ledger[2].from /\ ledger[2].kind = "output"
            /\ ledger[1].kind = "output" /\ 2 \in 1..Len(ledger)
      <3> SUFFICES ASSUME ledger' # <<>>
                   PROVE  /\ ledger'[1] = ledger[2] /\ ledger[1].to = ledger[2].from /\ ledger[2].kind = "output"
                          /\ ledger[1].kind = "output" /\ 2 \in 1..Len(ledger)
        OBVIOUS
      <3>1. 1 \in 1..Len(ledger')
        BY <1>11
      <3>2. ledger'[1] = ledger[2] /\ 2 \in 1..Len(ledger) /\ 1 < Len(ledger)
        BY <2>1, <2>2, <3>1
      <3> QED BY <1>1, <2>1, <3>2 DEF Queue
    <2>7. ledger' = <<>> => ledger[1].to = received
      <3> SUFFICES ASSUME ledger' = <<>> PROVE ledger[1].to = received
        OBVIOUS
      <3>1. Len(ledger) = 1
        BY <1>8, <2>1
      <3> QED BY <1>1, <2>1, <3>1 DEF Queue
    <2>8. Resume'
      <3>1. resume # None /\ ledger' # <<>> => ledger'[1].kind = "output" /\ resume <= ledger'[1].from
        <4> SUFFICES ASSUME resume # None, ledger' # <<>>
                     PROVE  ledger[2].kind = "output" /\ resume <= ledger[2].from
          BY <2>6
        <4>1. ledger[1].kind = "output" /\ resume <= ledger[1].from /\ resume \in Nat
          BY <1>1, <1>25 DEF Resume, Shaped
        <4>2. ledger[1].from \in Nat /\ ledger[1].to \in Nat /\ ledger[1].from < ledger[1].to
          BY <1>1, <2>1, <4>1 DEF Queue, Sound
        <4> QED BY <2>6, <4>1, <4>2
      <3> QED BY <1>1, <1>2, <1>6, <1>7, <3>1 DEF Resume
    <2>9. ScreenShown /\ ScreenSent /\ screen # Unknown /\ screen.pos = ledger[1].to
      BY <1>1, <1>25 DEF Shown, ScreenShown, Queue
    <2>10. ScreenShown'
      <3>1. CASE ledger' = <<>>
        BY <1>2, <1>5, <1>7, <1>25, <1>3, <2>7, <2>9, <3>1 DEF ScreenShown, Covers
      <3>2. CASE ledger' # <<>>
        BY <1>2, <1>5, <1>7, <1>25, <1>3, <2>6, <2>9, <3>2 DEF ScreenShown, Covers
      <3> QED BY <3>1, <3>2
    <2>11. ScreenSent'
      BY <1>2, <1>6, <1>7, <1>21, <2>9 DEF ScreenSent, Covers
    <2> QED BY <1>13, <1>14, <1>15, <1>18, <1>19, <1>20, <1>22, <2>5, <2>8, <2>10, <2>11
            DEF DeliveryInv, Shown
  <1> QED BY <1>9, <1>23, <1>24, <1>25

(***************************************************************************)
(* Acknowledgements and requests.                                           *)
(***************************************************************************)
\* The controller accepts the acknowledgement of the head of its ledger.
LEMMA AcknowledgementKeeps ==
    ASSUME DeliveryInv, AcceptAcknowledgement
    PROVE  DeliveryInv'
  <1> USE DEF None
  <1>1. Shaped /\ Stream /\ Task /\ Frames /\ Flow /\ Streaming /\ Replacing /\ Queue /\ Resume /\ Shown
    BY DEF DeliveryInv
  <1>2. /\ UNCHANGED <<next, earliest, boundaries, checkpoint, fence, ended>>
        /\ UNCHANGED <<events, lagged, pc, requested, sent, revision, applied, inFlight,
                       pendingCheckpoint, pendingEnd, pinned, toClient, toServer>>
        /\ UNCHANGED <<running, received, screen, ending, told>>
        /\ running /\ presented /\ ~presented' /\ progressDue'
        /\ presented' \in BOOLEAN /\ progressDue' \in BOOLEAN
        /\ ledger' = Tail(ledger)
    BY DEF AcceptAcknowledgement, deliveryVars, streamVars, driverVars, transport, userVars
  <1>3. PICK f : f = ledger[1]
    OBVIOUS
  <1>4. ledger \in Seq(Frame) /\ Len(ledger) \in Nat /\ ledger # <<>> /\ 1 \in 1..Len(ledger)
    BY <1>1, <1>2 DEF Shaped, Queue
  <1>5. /\ ledger' \in Seq(Frame) /\ Len(ledger') = Len(ledger) - 1 /\ Head(ledger) = f
        /\ \A i \in 1..Len(ledger') : i + 1 \in 1..Len(ledger) /\ ledger'[i] = ledger[i + 1]
    BY <1>2, <1>3, <1>4, Rest
  <1>6. /\ progress' = f.to
        /\ needsCheckpoint' = (IF f.kind = "checkpoint" THEN screen = Unknown ELSE needsCheckpoint)
        /\ resume' = None \/ (resume' = f.to /\ ~needsCheckpoint')
    BY <1>5 DEF AcceptAcknowledgement
  <1>7. /\ f.kind \in {"output", "checkpoint"} /\ Sound(f) /\ f.to \in Nat /\ f.to <= received
        /\ f.kind = "checkpoint" => Len(ledger) = 1
        /\ received \in Nat /\ sent \in Nat /\ received <= sent
    BY <1>1, <1>2, <1>3, <1>4 DEF Queue, Sound, Shaped, Frames
  <1>8. ~Waiting /\ ~Waiting' /\ ~ending /\ ~told
    BY <1>1, <1>2 DEF Task, Frames, Waiting
  <1>9. Len(ledger') \in Nat /\ \A i \in 1..Len(ledger') :
            /\ 1 < i + 1 /\ (i = Len(ledger') <=> i + 1 = Len(ledger)) /\ Len(ledger) # 1
            /\ i < Len(ledger') => i + 1 < Len(ledger) /\ i + 1 \in 1..Len(ledger')
    BY <1>4, <1>5
  <1>10. \A k \in 1..Len(ledger') :
           /\ ledger'[k] = ledger[k + 1] /\ k + 1 \in 1..Len(ledger)
           /\ ledger[k + 1].kind = "output" /\ f.to <= ledger[k + 1].from
           /\ Sound(ledger[k + 1]) /\ f.kind = "output"
    BY <1>1, <1>3, <1>4, <1>5, <1>7, <1>9 DEF Queue
  <1>11. screen # Unknown => screen.pos = f.to
    BY <1>1, <1>2, <1>3 DEF Queue
  <1>12. needsCheckpoint' \in BOOLEAN /\ (~needsCheckpoint' => screen # Unknown)
    <2>1. CASE f.kind = "checkpoint"
      BY <1>6, <2>1
    <2>2. CASE f.kind = "output"
      BY <1>1, <1>2, <1>6, <2>2 DEF Shaped, Resume
    <2> QED BY <1>7, <2>1, <2>2
  <1>13. Shaped'
    <2>1. progress' \in Nat \cup {None} /\ resume' \in Nat \cup {None}
      BY <1>6, <1>7
    <2> QED BY <1>1, <1>2, <1>5, <1>12, <2>1 DEF Shaped, StreamTypeOK
  <1>14. Stream'
    BY <1>1, <1>2 DEF Stream, Revision
  <1>15. Task'
    BY <1>1, <1>2, <1>8 DEF Task
  <1>16. Frames'
    BY <1>1, <1>2, <1>8 DEF Frames, After, Sound, Pos
  <1>17. ASSUME applied # None PROVE Flow' /\ Streaming' /\ Replacing'
    <2>1. f.kind = "output" /\ Pending(f) /\ applied \in Nat
      BY <1>1, <1>3, <1>4, <1>8, <1>17 DEF Streaming, Shaped
    <2>2. f.from \in Nat /\ f.from < f.to
      BY <1>7, <2>1 DEF Sound
    <2>3. applied < f.to /\ InFlight(f.to)
      BY <1>7, <2>1, <2>2 DEF Pending
    <2>4. ASSUME NEW i \in 1..Len(toServer), toServer[i] # None
          PROVE  toServer[i] <= f.from /\ toServer[i] < f.to
      <3>1. toServer[i] \in Nat
        BY <1>1, <2>4, Elements DEF Shaped
      <3>2. toServer[i] <= f.from
        BY <2>1, <2>4 DEF Pending, Behind
      <3> QED BY <1>7, <2>2, <3>1, <3>2
    <2>5. Flow'
      BY <1>1, <1>2, <1>6, <1>7, <1>8, <1>17, <2>3, <2>4 DEF Flow, InFlight
    <2>6. ASSUME NEW g, Pending(g), g.from \in Nat, f.to <= g.from
          PROVE  Pending(g)'
      <3>1. InFlight(g.to)' /\ applied' <= g.from
        BY <1>2, <2>6 DEF Pending, InFlight
      <3> QED BY <1>2, <1>6, <2>6, <3>1 DEF Pending, Behind
    <2>7. ASSUME NEW k \in 1..Len(ledger')
          PROVE  ledger'[k].kind = "output" /\ Pending(ledger[k])'
      <3>1. Pending(ledger[k + 1])
        BY <1>1, <1>8, <1>10, <1>17 DEF Streaming
      <3>2. ledger[k + 1].from \in Nat
        BY <1>10 DEF Sound
      <3> QED BY <1>10, <2>6, <3>1, <3>2 DEF Pending, InFlight, Behind
    <2>8. ASSUME NEW k \in 1..Len(toClient')
          PROVE  /\ toClient'[k].kind # "checkpoint"
                 /\ toClient'[k].kind = "attached" => toClient'[k].to = None
                 /\ toClient'[k].kind = "output" => Pending(toClient[k])'
      <3>1. /\ toClient[k].kind # "checkpoint"
            /\ toClient[k].kind = "attached" => toClient[k].to = None
            /\ toClient[k].kind = "output" =>
                  Pending(toClient[k]) /\ received <= toClient[k].from /\ toClient[k].from \in Nat
        BY <1>1, <1>2, <1>8, <1>17 DEF Streaming, Frames, Sound
      <3>2. toClient[k].kind = "output" => f.to <= toClient[k].from
        BY <1>7, <3>1
      <3> QED BY <1>2, <2>6, <3>1, <3>2 DEF Pending, InFlight, Behind
    <2>9. Streaming' /\ Replacing'
      BY <1>2, <1>17, <2>7, <2>8 DEF Streaming, Replacing
    <2> QED BY <2>5, <2>9
  <1>18. ASSUME applied = None PROVE Flow' /\ Streaming' /\ Replacing'
    <2>1. /\ Len(ledger) = 1 /\ f.kind = "checkpoint" /\ f.to = sent /\ f.rev = revision /\ Silent
          /\ revision \in Nat
      BY <1>1, <1>3, <1>4, <1>8, <1>18 DEF Replacing
    <2>2. ledger' = <<>>
      BY <1>4, <1>5, <2>1
    <2>3. Flow'
      BY <1>1, <1>2, <1>6, <1>8, <1>18, <2>1 DEF Flow, Silent
    <2>4. \A k \in 1..Len(toClient) : ~Restoring(toClient[k])
      BY <1>1, <1>4, <1>8, <1>18 DEF Replacing
    <2>5. Streaming' /\ Replacing'
      BY <1>1, <1>2, <1>8, <1>18, <2>1, <2>2, <2>4 DEF Streaming, Replacing, Restoring
    <2> QED BY <2>3, <2>5
  <1>19. Queue'
    <2>1. ASSUME NEW k \in 1..Len(ledger')
          PROVE  /\ ledger'[k].kind = "output"
                 /\ Sound(ledger[k])'
                 /\ ledger'[k].to <= received'
                 /\ k = Len(ledger') => ledger'[k].to = received'
                 /\ k < Len(ledger') => ledger'[k + 1].from = ledger'[k].to
      <3>1. ledger'[k] = ledger[k + 1] /\ k + 1 \in 1..Len(ledger)
        BY <1>10
      <3>2. ledger'[k].kind = "output" /\ Sound(ledger[k])'
        BY <1>10, <3>1 DEF Sound
      <3>3. /\ ledger[k + 1].to <= received
            /\ k + 1 = Len(ledger) => ledger[k + 1].to = received
            /\ k + 1 < Len(ledger) => ledger[(k + 1) + 1].from = ledger[k + 1].to
        BY <1>1, <3>1 DEF Queue
      <3>4. ASSUME k < Len(ledger') PROVE ledger'[k + 1].from = ledger'[k].to
        <4>1. k + 1 < Len(ledger) /\ k + 1 \in 1..Len(ledger')
          BY <1>9, <3>4
        <4>2. ledger'[k + 1] = ledger[(k + 1) + 1]
          BY <1>10, <4>1
        <4> QED BY <3>1, <3>3, <4>1, <4>2
      <3>5. k = Len(ledger') => k + 1 = Len(ledger)
        BY <1>9
      <3> QED BY <1>2, <3>1, <3>2, <3>3, <3>4, <3>5
    <2>2. ASSUME NEW i \in 1..Len(ledger'), NEW j \in 1..Len(ledger'), i < j
          PROVE  ledger'[i].to <= ledger'[j].from
      <3>1. i + 1 < j + 1
        BY <2>2
      <3> QED BY <1>1, <1>5, <3>1 DEF Queue
    <2>3. ledger' # <<>> => ledger'[1].kind = "output"
      BY <1>5, <2>1
    <2> QED BY <1>1, <1>2, <2>1, <2>2, <2>3 DEF Queue
  <1>20. ledger' # <<>> =>
           ledger'[1].kind = "output" /\ ledger'[1].from = f.to /\ f.kind = "output"
    <2> SUFFICES ASSUME ledger' # <<>>
                 PROVE  ledger'[1].kind = "output" /\ ledger'[1].from = f.to /\ f.kind = "output"
      OBVIOUS
    <2>1. 1 \in 1..Len(ledger') /\ 1 < Len(ledger)
      BY <1>4, <1>5
    <2> QED BY <1>1, <1>3, <1>4, <1>10, <2>1 DEF Queue
  <1>21. ledger' = <<>> => f.to = received
    <2> SUFFICES ASSUME ledger' = <<>> PROVE f.to = received
      OBVIOUS
    <2>1. Len(ledger) = 1
      BY <1>4, <1>5
    <2> QED BY <1>1, <1>3, <1>4, <2>1 DEF Queue
  <1>22. Resume'
    <2>1. resume' # None => /\ screen # Unknown /\ resume' <= screen.pos /\ resume' <= received
                            /\ resume' = f.to
      BY <1>6, <1>7, <1>11, <1>12
    <2>2. resume' # None /\ ledger' # <<>> => ledger'[1].kind = "output" /\ resume' <= ledger'[1].from
      BY <1>7, <1>20, <2>1
    <2> QED BY <1>1, <1>2, <1>8, <1>12, <2>1, <2>2 DEF Resume
  <1>23. ASSUME ~Interactive PROVE ScreenShown' /\ ScreenSent'
    <2>1. ScreenShown /\ ScreenSent
      BY <1>1, <1>23 DEF Shown
    <2>2. /\ screen # Unknown /\ screen.pos = f.to
          /\ f.kind = "checkpoint" => screen.rev = f.rev
          /\ f.kind = "output" => Covers(received, screen.rev)
      BY <1>2, <1>3, <1>4, <1>11, <2>1 DEF ScreenShown
    <2>3. ScreenShown'
      <3>1. CASE ledger' = <<>>
        BY <1>2, <1>8, <1>21, <2>1, <2>2, <3>1 DEF ScreenShown, Covers
      <3>2. CASE ledger' # <<>>
        BY <1>2, <1>8, <1>20, <2>1, <2>2, <3>2 DEF ScreenShown, Covers
      <3> QED BY <3>1, <3>2
    <2>4. ~Waiting /\ applied = None => screen.rev = revision
      <3>1. applied = None => f.kind = "checkpoint" /\ f.rev = revision
        BY <1>1, <1>3, <1>4, <1>8 DEF Replacing
      <3> QED BY <2>2, <3>1
    <2>5. ScreenSent'
      BY <1>2, <1>8, <2>1, <2>2, <2>4 DEF ScreenSent, Covers
    <2> QED BY <2>3, <2>5
  <1> QED BY <1>13, <1>14, <1>15, <1>16, <1>17, <1>18, <1>19, <1>22, <1>23 DEF DeliveryInv, Shown

\* The writer sends it, or a request.
LEMMA MessageKeeps ==
    ASSUME DeliveryInv, SendProgress \/ RequestCheckpoint
    PROVE  DeliveryInv'
  <1> USE DEF None
  <1>1. Shaped /\ Stream /\ Task /\ Frames /\ Flow /\ Streaming /\ Replacing /\ Queue /\ Resume /\ Shown
    BY DEF DeliveryInv
  <1>2. PICK m \in Nat \cup {None} :
          /\ \/ m = progress /\ progressDue /\ ~progressDue' /\ progressDue' \in BOOLEAN
             \/ m = None /\ progressDue' = progressDue
          /\ toServer' = Append(toServer, m)
    <2>1. CASE SendProgress
      BY <1>1, <2>1 DEF SendProgress, Shaped
    <2>2. CASE RequestCheckpoint
      BY <2>2 DEF RequestCheckpoint, controllerVars
    <2> QED BY <2>1, <2>2
  <1>3. /\ UNCHANGED <<next, earliest, boundaries, checkpoint, fence, ended>>
        /\ UNCHANGED <<events, lagged, pc, requested, sent, revision, applied, inFlight,
                       pendingCheckpoint, pendingEnd, pinned, toClient>>
        /\ UNCHANGED <<running, received, resume, needsCheckpoint, ledger, presented, progress, screen,
                       ending, told>>
        /\ running
    BY DEF SendProgress, RequestCheckpoint, streamVars, driverVars, controllerVars, userVars
  <1>4. /\ toServer \in Seq(Nat \cup {None}) /\ Len(toServer) \in Nat
        /\ toServer' \in Seq(Nat \cup {None}) /\ Len(toServer') = Len(toServer) + 1
        /\ \A i \in 1..Len(toServer) : toServer'[i] = toServer[i]
        /\ toServer'[Len(toServer) + 1] = m
    <2>1. toServer \in Seq(Nat \cup {None}) /\ Len(toServer) \in Nat
      BY <1>1 DEF Shaped
    <2> QED BY <1>2, <2>1, Appended
  <1>5. \A k \in 1..Len(toServer') :
            \/ k \in 1..Len(toServer) /\ toServer'[k] = toServer[k]
            \/ k = Len(toServer) + 1 /\ toServer'[k] = m
    BY <1>2, <1>4, AppendedCases
  <1>6. ~Waiting /\ ~Waiting'
    BY <1>1, <1>3 DEF Task, Waiting
  <1>7. progressDue' => progressDue /\ m = None
    BY <1>2
  <1>8. m # None => m = progress /\ progressDue /\ ~progressDue'
    BY <1>2
  <1>9. progressDue' \in BOOLEAN
    BY <1>1, <1>2 DEF Shaped
  <1>10. Shaped'
    BY <1>1, <1>3, <1>4, <1>9 DEF Shaped, StreamTypeOK
  <1>11. Stream'
    BY <1>1, <1>3 DEF Stream, Revision
  <1>12. Task'
    BY <1>1, <1>3, <1>6 DEF Task
  <1>13. Frames'
    BY <1>1, <1>3, <1>6 DEF Frames, After, Sound, Pos
  <1>14. Flow'
    <2>1. ASSUME NEW i \in 1..Len(toServer'), toServer'[i] # None
          PROVE  /\ applied # None => /\ applied < toServer'[i] /\ InFlight(toServer'[i])
                                      /\ (progressDue' => toServer'[i] < progress)
                 /\ applied = None => toServer'[i] = sent /\ ~progressDue'
      <3>1. CASE i \in 1..Len(toServer) /\ toServer'[i] = toServer[i]
        BY <1>1, <1>6, <1>7, <2>1, <3>1 DEF Flow
      <3>2. CASE i = Len(toServer) + 1 /\ toServer'[i] = m
        BY <1>1, <1>6, <1>8, <2>1, <3>2 DEF Flow
      <3> QED BY <1>5, <3>1, <3>2
    <2>2. ASSUME NEW i \in 1..Len(toServer'), NEW j \in 1..Len(toServer'), i < j,
                 toServer'[i] # None, toServer'[j] # None
          PROVE  toServer'[i] < toServer'[j]
      <3>1. i \in 1..Len(toServer) /\ toServer'[i] = toServer[i]
        BY <1>4, <2>2
      <3>2. CASE j \in 1..Len(toServer) /\ toServer'[j] = toServer[j]
        BY <1>1, <2>2, <3>1, <3>2 DEF Flow
      <3>3. CASE j = Len(toServer) + 1 /\ toServer'[j] = m
        BY <1>1, <1>6, <1>8, <2>2, <3>1, <3>3 DEF Flow
      <3> QED BY <1>5, <3>2, <3>3
    <2>3. \A n : InFlight(n) => \E i \in 1..Len(inFlight') : inFlight'[i].end = n
      BY <1>3 DEF InFlight
    <2>4. progressDue' => progressDue
      BY <1>7
    <2> QED BY <1>1, <1>3, <1>6, <2>1, <2>2, <2>3, <2>4 DEF Flow, InFlight
  <1>15. ASSUME NEW p, Behind(p) PROVE Behind(p)'
    <2>1. m # None => m <= p
      BY <1>8, <1>15 DEF Behind
    <2>2. progressDue' => progress' <= p
      BY <1>3, <1>7, <1>15 DEF Behind
    <2>3. \A i \in 1..Len(toServer') : toServer'[i] # None => toServer'[i] <= p
      BY <1>5, <1>15, <2>1 DEF Behind
    <2> QED BY <2>2, <2>3 DEF Behind
  <1>16. ASSUME NEW f, Pending(f) PROVE Pending(f)'
    BY <1>3, <1>15, <1>16 DEF Pending, InFlight
  <1>17. Streaming'
    <2>1. ASSUME applied # None, NEW k \in 1..Len(toClient), toClient[k].kind = "output"
          PROVE  Pending(toClient[k])'
      <3>1. Pending(toClient[k])
        BY <1>1, <1>6, <2>1 DEF Streaming
      <3> QED BY <1>3, <1>16, <3>1 DEF Pending, InFlight, Behind
    <2>2. ASSUME applied # None, NEW k \in 1..Len(ledger)
          PROVE  Pending(ledger[k])'
      <3>1. Pending(ledger[k])
        BY <1>1, <1>6, <2>2 DEF Streaming
      <3> QED BY <1>3, <1>16, <3>1 DEF Pending, InFlight, Behind
    <2> QED BY <1>1, <1>3, <1>6, <2>1, <2>2 DEF Streaming
  <1>18. Silent => Silent'
    BY <1>2, <1>5 DEF Silent
  <1>19. Replacing'
    BY <1>1, <1>3, <1>6, <1>18 DEF Replacing, Restoring
  <1>20. Queue'
    BY <1>1, <1>3 DEF Queue, Sound
  <1>21. Resume'
    BY <1>1, <1>3, <1>6 DEF Resume
  <1>22. Shown'
    BY <1>1, <1>3, <1>6, <1>18 DEF Shown, ScreenShown, ScreenSent, Covers
  <1> QED BY <1>10, <1>11, <1>12, <1>13, <1>14, <1>17, <1>19, <1>20, <1>21, <1>22 DEF DeliveryInv

(***************************************************************************)
(* The renderer.                                                            *)
(***************************************************************************)
\* It applies the head of the ledger to a screen that shows what precedes it.
LEMMA PresentKeeps ==
    ASSUME DeliveryInv, NEW compatible \in BOOLEAN, Interactive \/ compatible, Present(compatible)
    PROVE  DeliveryInv'
  <1> USE DEF None
  <1>1. Shaped /\ Stream /\ Task /\ Frames /\ Flow /\ Streaming /\ Replacing /\ Queue /\ Resume /\ Shown
    BY DEF DeliveryInv
  <1>2. /\ UNCHANGED <<next, earliest, boundaries, checkpoint, fence, ended>>
        /\ UNCHANGED <<events, lagged, pc, requested, sent, revision, applied, inFlight,
                       pendingCheckpoint, pendingEnd, pinned, toClient, toServer>>
        /\ UNCHANGED <<running, received, resume, needsCheckpoint, progress, progressDue, ending, told>>
        /\ ledger # <<>> /\ ~presented
    BY DEF Present, deliveryVars, streamVars, driverVars, transport
  <1>3. PICK f : f = ledger[1]
    OBVIOUS
  <1>4. ledger \in Seq(Frame) /\ Len(ledger) \in Nat /\ 1 \in 1..Len(ledger) /\ running \in BOOLEAN
    BY <1>1, <1>2 DEF Shaped
  <1>5. Head(ledger) = f
    BY <1>2, <1>3, <1>4, Rest
  <1>6. /\ f.kind \in {"output", "checkpoint"} /\ Sound(f) /\ f.to \in Nat /\ f.to <= received
        /\ f.kind = "checkpoint" => Len(ledger) = 1 /\ f.rev \in Nat
        /\ f.kind = "output" => f.from \in Nat /\ f.from < f.to
        /\ received \in Nat /\ received <= next /\ next \in Nat
    BY <1>1, <1>3, <1>4 DEF Queue, Sound, Shaped, StreamTypeOK
  <1>7. /\ screen' = Unknown => screen = Unknown \/ f.kind = "checkpoint"
        /\ screen' # Unknown => screen' \in [pos : Nat, rev : Nat] /\ screen'.pos = f.to
        /\ f.kind = "output" /\ screen' # Unknown => screen # Unknown /\ screen'.rev = screen.rev
        /\ f.kind = "checkpoint" /\ screen' # Unknown => screen'.rev = f.rev
        /\ f.kind = "checkpoint" /\ compatible => screen' # Unknown
    <2>1. CASE f.kind = "checkpoint" /\ compatible
      <3>1. screen' = [pos |-> f.to, rev |-> f.rev]
        BY <1>5, <2>1 DEF Present, Applied
      <3>2. screen' # Unknown
        BY <1>6, <3>1 DEF Unknown
      <3> QED BY <1>6, <2>1, <3>1, <3>2
    <2>2. CASE f.kind = "checkpoint" /\ ~compatible
      <3>1. screen' = Unknown
        BY <1>5, <2>2 DEF Present, Applied
      <3> QED BY <2>2, <3>1
    <2>3. CASE f.kind = "output" /\ screen = Unknown
      <3>1. screen' = Unknown
        BY <1>5, <2>3 DEF Present, Applied
      <3> QED BY <2>3, <3>1
    <2>4. CASE f.kind = "output" /\ screen # Unknown
      <3>1. screen \in [pos : Nat, rev : Nat]
        BY <1>1, <2>4 DEF Shaped
      <3>2. screen' = [screen EXCEPT !.pos = f.to]
        BY <1>5, <2>4 DEF Present, Applied
      <3>3. screen' \in [pos : Nat, rev : Nat] /\ screen'.pos = f.to /\ screen'.rev = screen.rev
        BY <1>6, <3>1, <3>2
      <3>4. screen' # Unknown
        BY <1>6, <3>3 DEF Unknown
      <3> QED BY <2>4, <3>3, <3>4
    <2> QED BY <1>6, <2>1, <2>2, <2>3, <2>4
  <1>8. ending \in BOOLEAN /\ (~running => ending)
    BY <1>1, <1>2 DEF Queue, Shaped
  <1>9. ~(Waiting /\ pc # "detached") /\ (Waiting <=> Waiting') /\ (running => ~Waiting)
    <2>1. CASE running
      BY <1>1, <1>2, <2>1 DEF Task, Waiting
    <2>2. CASE ~running
      BY <1>1, <1>2, <1>8, <2>2 DEF Frames, Waiting
    <2> QED BY <2>1, <2>2
  <1>10. toClient # <<>> => running /\ toClient[1].kind # "attached"
    <2>1. toClient \in Seq(Frame)
      BY <1>1 DEF Shaped
    <2>2. toClient # <<>> => 1 \in 1..Len(toClient)
      BY <2>1
    <2> QED BY <1>1, <1>8, <2>2 DEF Frames
  <1>11. \/ running /\ ledger' = ledger /\ presented' /\ presented' \in BOOLEAN
         \/ ~running /\ ending /\ ledger' = Tail(ledger) /\ ~presented' /\ presented' \in BOOLEAN
    <2>1. presented' = running /\ ledger' = IF running THEN ledger ELSE Tail(ledger)
      BY DEF Present
    <2> QED BY <1>4, <1>8, <2>1
  <1>12. /\ Tail(ledger) \in Seq(Frame) /\ Len(Tail(ledger)) = Len(ledger) - 1
         /\ \A i \in 1..Len(Tail(ledger)) : i + 1 \in 1..Len(ledger) /\ Tail(ledger)[i] = ledger[i + 1]
    BY <1>2, <1>4, Rest
  <1>13. Shaped'
    <2>1. ledger' \in Seq(Frame) /\ presented' \in BOOLEAN
      BY <1>4, <1>11, <1>12
    <2>2. screen' \in [pos : Nat, rev : Nat] \cup {Unknown}
      BY <1>7
    <2> QED BY <1>1, <1>2, <2>1, <2>2 DEF Shaped, StreamTypeOK
  <1>14. Stream'
    BY <1>1, <1>2 DEF Stream, Revision
  <1>15. Task'
    BY <1>1, <1>2, <1>9 DEF Task
  <1>16. Frames'
    BY <1>1, <1>2, <1>9 DEF Frames, After, Sound, Pos
  <1>17. Flow'
    BY <1>1, <1>2, <1>9 DEF Flow, InFlight
  <1>18. Silent' <=> Silent
    BY <1>2 DEF Silent
  <1>19. \A k \in 1..Len(ledger') : \E i \in 1..Len(ledger) : ledger'[k] = ledger[i]
    <2>1. CASE ledger' = ledger
      BY <2>1
    <2>2. CASE ledger' = Tail(ledger)
      BY <1>12, <2>2
    <2> QED BY <1>11, <2>1, <2>2
  <1>20. Streaming'
    <2> SUFFICES ASSUME ~Waiting, applied # None PROVE Streaming'
      BY <1>2, <1>9 DEF Streaming
    <2>1. ASSUME NEW k \in 1..Len(ledger')
          PROVE  ledger'[k].kind = "output" /\ Pending(ledger[k])'
      <3>1. PICK i \in 1..Len(ledger) : ledger'[k] = ledger[i]
        BY <1>19
      <3>2. ledger[i].kind = "output" /\ Pending(ledger[i])
        BY <1>1, <2>1 DEF Streaming
      <3> QED BY <1>2, <3>1, <3>2 DEF Pending, InFlight, Behind
    <2>2. ASSUME NEW k \in 1..Len(toClient')
          PROVE  /\ toClient'[k].kind # "checkpoint"
                 /\ toClient'[k].kind = "attached" => toClient'[k].to = None
                 /\ toClient'[k].kind = "output" => Pending(toClient[k])'
      BY <1>1, <1>2 DEF Streaming, Pending, InFlight, Behind
    <2> QED BY <2>1, <2>2 DEF Streaming
  <1>21. Replacing'
    <2> SUFFICES ASSUME ~Waiting, applied = None PROVE Replacing'
      BY <1>2, <1>9 DEF Replacing
    <2>1. Len(ledger) = 1
      BY <1>1, <1>2 DEF Replacing
    <2>2. ledger' = ledger \/ ledger' = <<>>
      BY <1>11, <1>12, <2>1
    <2>3. CASE ledger' = ledger
      BY <1>1, <1>2, <1>9, <1>18, <2>3 DEF Replacing, Restoring
    <2>4. CASE ledger' = <<>>
      BY <1>1, <1>2, <1>9, <1>18, <2>4 DEF Replacing, Restoring
    <2> QED BY <2>2, <2>3, <2>4
  <1>22. /\ resume # None => f.kind = "output" /\ resume \in Nat /\ resume < f.to /\ screen' # Unknown
         /\ screen' # Unknown => screen'.pos <= next
         /\ running /\ ~needsCheckpoint => screen' # Unknown
    <2>1. resume # None => f.kind = "output" /\ resume \in Nat /\ resume <= f.from /\ screen # Unknown
      BY <1>1, <1>2, <1>3 DEF Resume, Shaped
    <2>2. resume # None => screen' # Unknown
      BY <1>7, <2>1
    <2>3. resume # None => resume < f.to
      BY <1>6, <2>1
    <2>4. screen' # Unknown => screen'.pos <= next
      BY <1>6, <1>7
    <2>5. running /\ ~needsCheckpoint => screen # Unknown /\ f.kind # "checkpoint"
      BY <1>1, <1>2, <1>3 DEF Resume, Queue
    <2>6. running /\ ~needsCheckpoint => screen' # Unknown
      BY <1>7, <2>5
    <2> QED BY <2>1, <2>2, <2>3, <2>4, <2>6
  <1>23. ASSUME ~Interactive
        PROVE  /\ screen' # Unknown /\ Covers(screen'.pos, screen'.rev)
               /\ f.kind = "output" => /\ screen # Unknown /\ screen'.rev = screen.rev
                                       /\ Covers(received, screen.rev) /\ screen.pos = f.from
               /\ told => f.to = next
    <2>1. ScreenShown
      BY <1>1, <1>23 DEF Shown
    <2>2. f.kind = "output" => screen # Unknown /\ Covers(received, screen.rev) /\ screen.pos = f.from
      BY <1>2, <1>3, <2>1 DEF ScreenShown
    <2>3. f.kind = "checkpoint" => (screen # Unknown => screen.pos <= f.to) /\ Covers(f.to, f.rev)
      BY <1>2, <1>3, <2>1 DEF ScreenShown
    <2>4. screen' # Unknown
      BY <1>6, <1>7, <1>23, <2>2
    <2>5. boundaries \in Seq(Nat) /\ \A r \in 1..Len(boundaries) : boundaries[r] \in Nat
      BY <1>1, Elements DEF Shaped, StreamTypeOK
    <2>6. f.kind = "output" => Covers(f.to, screen.rev)
      BY <1>6, <2>2, <2>5 DEF Covers
    <2>7. Covers(screen'.pos, screen'.rev)
      BY <1>6, <1>7, <2>3, <2>4, <2>6
    <2>8. told => f.to = next
      <3>1. told => screen # Unknown /\ screen.pos = next
        BY <2>1 DEF ScreenShown
      <3> QED BY <1>6, <2>2, <2>3, <3>1
    <2> QED BY <1>7, <2>2, <2>4, <2>7, <2>8
  <1>24. ASSUME ~Interactive PROVE ScreenSent'
    <2>1. ScreenSent
      BY <1>1, <1>24 DEF Shown
    <2>2. ~Waiting /\ applied # None => f.kind = "output"
      BY <1>1, <1>3, <1>4 DEF Streaming
    <2>3. ~Waiting /\ applied = None => Silent
      BY <1>1, <1>2 DEF Replacing
    <2>4. pc # "refreshed"
      BY <1>9 DEF Waiting
    <2> QED BY <1>2, <1>9, <1>10, <1>18, <1>23, <1>24, <2>1, <2>2, <2>3, <2>4 DEF ScreenSent, Covers
  <1>25. CASE running /\ ledger' = ledger /\ presented'
    <2>1. Queue'
      BY <1>1, <1>2, <1>3, <1>7, <1>25 DEF Queue, Sound
    <2>2. Resume'
      BY <1>1, <1>2, <1>6, <1>7, <1>9, <1>10, <1>22, <1>25 DEF Resume
    <2>3. ASSUME ~Interactive PROVE ScreenShown'
      <3>1. ScreenShown /\ ~told
        BY <1>1, <1>25, <2>3 DEF Shown, Frames
      <3> QED BY <1>2, <1>3, <1>7, <1>23, <1>25, <2>3, <3>1 DEF ScreenShown, Covers
    <2> QED BY <1>13, <1>14, <1>15, <1>16, <1>17, <1>20, <1>21, <1>24, <2>1, <2>2, <2>3
            DEF DeliveryInv, Shown
  <1>26. CASE ~running /\ ending /\ ledger' = Tail(ledger) /\ ~presented'
    <2>1. \A i \in 1..Len(ledger') :
            /\ 1 < i + 1 /\ (i = Len(ledger') <=> i + 1 = Len(ledger)) /\ Len(ledger) # 1
            /\ i < Len(ledger') => i + 1 < Len(ledger) /\ i + 1 \in 1..Len(ledger')
      BY <1>4, <1>12, <1>26
    <2>2. ASSUME NEW k \in 1..Len(ledger')
          PROVE  /\ ledger'[k].kind = "output"
                 /\ Sound(ledger[k])'
                 /\ ledger'[k].to <= received'
                 /\ k = Len(ledger') => ledger'[k].to = received'
                 /\ k < Len(ledger') => ledger'[k + 1].from = ledger'[k].to
      <3>1. k + 1 \in 1..Len(ledger) /\ ledger'[k] = ledger[k + 1]
        BY <1>12, <1>26
      <3>2. Sound(ledger[k + 1]) /\ ledger[k + 1].kind = "output"
        BY <1>1, <2>1, <3>1 DEF Queue
      <3> QED BY <1>1, <1>2, <1>12, <1>26, <2>1, <3>1, <3>2 DEF Queue, Sound
    <2>3. ASSUME NEW i \in 1..Len(ledger'), NEW j \in 1..Len(ledger'), i < j
          PROVE  ledger'[i].to <= ledger'[j].from
      <3>1. i + 1 < j + 1
        BY <2>3
      <3> QED BY <1>1, <1>12, <1>26, <3>1 DEF Queue
    <2>4. Queue'
      BY <1>1, <1>2, <1>8, <1>26, <2>2, <2>3 DEF Queue
    <2>5. ledger' # <<>> => /\ ledger'[1].kind = "output" /\ ledger'[1].from = f.to
                            /\ f.kind = "output" /\ 1 < Len(ledger)
      <3> SUFFICES ASSUME ledger' # <<>>
                   PROVE  /\ ledger'[1].kind = "output" /\ ledger'[1].from = f.to
                          /\ f.kind = "output" /\ 1 < Len(ledger)
        OBVIOUS
      <3>1. 1 \in 1..Len(ledger') /\ 1 < Len(ledger) /\ ledger'[1] = ledger[2]
        BY <1>4, <1>12, <1>26
      <3>2. ledger[2].from = ledger[1].to
        BY <1>1, <1>4, <3>1 DEF Queue
      <3>3. f.kind = "output"
        BY <1>6, <3>1
      <3> QED BY <1>3, <2>2, <3>1, <3>2, <3>3
    <2>6. ledger' = <<>> => f.to = received
      <3> SUFFICES ASSUME ledger' = <<>> PROVE f.to = received
        OBVIOUS
      <3>1. Tail(ledger) = <<>>
        BY <1>26
      <3>2. Len(Tail(ledger)) = 0
        BY <1>12, <3>1, EmptySeq
      <3>3. Len(ledger) = 1
        <4>1. Len(Tail(ledger)) = Len(ledger) - 1
          BY <1>12
        <4>2. Len(ledger) \in Nat
          BY <1>4
        <4> QED BY <3>2, <4>1, <4>2
      <3> QED BY <1>1, <1>3, <1>4, <3>3 DEF Queue
    <2>7. Resume'
      <3>1. resume' # None => /\ screen' # Unknown /\ resume' <= screen'.pos
                              /\ (ledger' # <<>> => ledger'[1].kind = "output" /\ resume' <= ledger'[1].from)
        BY <1>2, <1>6, <1>7, <1>22, <2>5
      <3> QED BY <1>2, <1>9, <1>10, <1>22, <1>26, <3>1 DEF Resume
    <2>8. ASSUME ~Interactive PROVE ScreenShown'
      <3>1. ScreenShown
        BY <1>1, <2>8 DEF Shown
      <3> QED BY <1>2, <1>7, <1>23, <1>26, <2>5, <2>6, <2>8, <3>1 DEF ScreenShown, Covers
    <2> QED BY <1>13, <1>14, <1>15, <1>16, <1>17, <1>20, <1>21, <1>24, <2>4, <2>7, <2>8
            DEF DeliveryInv, Shown
  <1> QED BY <1>11, <1>25, <1>26

\* The end comes after everything else that is queued.
LEMMA EndKeeps ==
    ASSUME DeliveryInv, PresentEnd
    PROVE  DeliveryInv'
  <1> USE DEF None
  <1>1. Shaped /\ Stream /\ Task /\ Frames /\ Flow /\ Streaming /\ Replacing /\ Queue /\ Resume /\ Shown
    BY DEF DeliveryInv
  <1>2. /\ UNCHANGED <<next, earliest, boundaries, checkpoint, fence, ended>>
        /\ UNCHANGED <<events, lagged, pc, requested, sent, revision, applied, inFlight,
                       pendingCheckpoint, pendingEnd, pinned, toClient, toServer>>
        /\ UNCHANGED <<running, received, resume, needsCheckpoint, ledger, presented, progress,
                       progressDue, screen>>
        /\ ending /\ ledger = <<>> /\ ~ending' /\ told'
        /\ ending' \in BOOLEAN /\ told' \in BOOLEAN
    BY DEF PresentEnd, deliveryVars, streamVars, driverVars, transport, controllerVars
  <1>3. Waiting' <=> Waiting
    BY <1>2 DEF Waiting
  <1>4. Silent' <=> Silent
    BY <1>2 DEF Silent
  <1>5. Shaped'
    BY <1>1, <1>2 DEF Shaped, StreamTypeOK
  <1>6. Stream' /\ Task' /\ Flow'
    BY <1>1, <1>2, <1>3 DEF Stream, Revision, Task, Flow, InFlight
  <1>7. Frames'
    BY <1>1, <1>2, <1>3 DEF Frames, After, Sound, Pos
  <1>8. Streaming' /\ Replacing'
    BY <1>1, <1>2, <1>3, <1>4 DEF Streaming, Pending, InFlight, Behind, Replacing, Restoring
  <1>9. Queue' /\ Resume'
    BY <1>1, <1>2, <1>3 DEF Queue, Sound, Resume
  <1>10. Shown'
    BY <1>1, <1>2, <1>3, <1>4 DEF Shown, ScreenShown, ScreenSent, Covers
  <1> QED BY <1>5, <1>6, <1>7, <1>8, <1>9, <1>10 DEF DeliveryInv

(***************************************************************************)
(* The invariant.                                                           *)
(***************************************************************************)
\* A stream and a client that have not started.
LEMMA DeliveryStarts == Init => DeliveryInv
  <1> SUFFICES ASSUME Init PROVE DeliveryInv
    OBVIOUS
  <1> USE DEF Init, StreamInit, None
  <1>1. boundaries = <<>> /\ Len(boundaries) = 0 /\ Len(toClient) = 0 /\ Len(toServer) = 0
        /\ Len(inFlight) = 0 /\ Len(events) = 0 /\ Len(ledger) = 0 /\ Waiting
    BY DEF Waiting
  <1>2. Shaped
    <2>1. StreamTypeOK
      <3>1. next \in Nat /\ earliest \in Nat /\ boundaries \in Seq(Nat) /\ checkpoint \in Checkpoint
        BY DEF Checkpoint
      <3>2. ended \in BOOLEAN /\ fence \in Checkpoint \cup {NoCheckpoint}
        OBVIOUS
      <3> QED BY <3>1, <3>2 DEF StreamTypeOK
    <2>2. /\ events \in Seq(Event) /\ inFlight \in Seq([end : Nat, charge : Nat])
          /\ toClient \in Seq(Frame) /\ toServer \in Seq(Nat \cup {None}) /\ ledger \in Seq(Frame)
      OBVIOUS
    <2>3. pc \in Phases
      BY DEF Phases
    <2> QED BY <2>1, <2>2, <2>3 DEF Shaped
  <1>3. Stream
    BY <1>1 DEF Stream, Revision
  <1>4. Task /\ Frames /\ Flow /\ Streaming /\ Replacing
    BY <1>1 DEF Task, Frames, Flow, Streaming, Replacing
  <1>5. Queue /\ Resume
    BY <1>1 DEF Queue, Resume
  <1>6. Shown
    BY <1>1 DEF Shown, ScreenShown, ScreenSent, Covers
  <1> QED BY <1>2, <1>3, <1>4, <1>5, <1>6 DEF DeliveryInv

\* Nothing changes.
LEMMA DeliveryStutters ==
    ASSUME DeliveryInv, UNCHANGED vars
    PROVE  DeliveryInv'
  <1>1. Shaped /\ Stream /\ Task /\ Frames /\ Flow /\ Streaming /\ Replacing /\ Queue /\ Resume /\ Shown
    BY DEF DeliveryInv
  <1>2. /\ UNCHANGED <<next, earliest, boundaries, checkpoint, fence, ended>>
        /\ UNCHANGED <<events, lagged, pc, requested, sent, revision, applied, inFlight,
                       pendingCheckpoint, pendingEnd, pinned, toClient, toServer>>
        /\ UNCHANGED <<running, received, resume, needsCheckpoint, ledger, presented, progress,
                       progressDue, screen, ending, told>>
    BY DEF vars, clientVars, userVars, deliveryVars, streamVars, driverVars, transport, controllerVars
  <1>3. (Waiting' <=> Waiting) /\ (Silent' <=> Silent)
    BY <1>2 DEF Waiting, Silent
  <1>4. Shaped'
    BY <1>1, <1>2 DEF Shaped, StreamTypeOK
  <1>5. Stream' /\ Task'
    BY <1>1, <1>2, <1>3 DEF Stream, Revision, Task
  <1>6. Flow'
    BY <1>1, <1>2, <1>3 DEF Flow, InFlight
  <1>7. Frames' /\ Streaming' /\ Replacing'
    BY <1>1, <1>2, <1>3 DEF Frames, After, Sound, Pos, Streaming, Pending, InFlight, Behind,
                            Replacing, Restoring
  <1>8. Queue' /\ Resume' /\ Shown'
    BY <1>1, <1>2, <1>3 DEF Queue, Sound, Resume, Shown, ScreenShown, ScreenSent, Covers
  <1> QED BY <1>4, <1>5, <1>6, <1>7, <1>8 DEF DeliveryInv

\* Every step of the daemon's task and of the terminal keeps the invariant.
LEMMA DaemonKeeps ==
    ASSUME DeliveryInv, Terminal \/ Driver, UNCHANGED clientVars
    PROVE  DeliveryInv'
  <1>1. CASE Terminal
    BY <1>1, TerminalBackground, BackgroundKeeps
  <1>2. ASSUME NEW incomplete \in BOOLEAN,
               TakeInitialSnapshot(incomplete) \/ TakeFreshInitialSnapshot(incomplete)
        PROVE  DeliveryInv'
    BY <1>2, Starts, StartKeeps
  <1>3. ASSUME NEW incomplete \in BOOLEAN, SendFresh(incomplete) \/ SendReplacement(incomplete)
        PROVE  DeliveryInv'
    BY <1>3, CheckpointsSent, WritesCheckpoint
  <1>4. CASE RefreshInitial \/ RecoverFromLag \/ ProcessEvent \/ FinishHistory \/ EnterSend \/ StopSending
    BY <1>4, TaskBackground, BackgroundKeeps
  <1>5. CASE ProcessAcknowledgement
    BY <1>5, TakesAcknowledgement
  <1>6. CASE ProcessRequestCheckpoint
    BY <1>6, TakesRequest
  <1>7. CASE SendSessionEnd
    BY <1>7, WritesEnd
  <1>8. CASE SendOutput
    BY <1>8, OutputsSent, WritesOutput
  <1> QED BY <1>1, <1>2, <1>3, <1>4, <1>5, <1>6, <1>7, <1>8 DEF Driver

\* Every step of the client keeps it.
LEMMA ClientKeeps ==
    ASSUME DeliveryInv, Client
    PROVE  DeliveryInv'
  <1>1. ASSUME NEW compatible \in BOOLEAN, Interactive \/ compatible,
               ReceiveAttached(compatible) \/ Present(compatible)
        PROVE  DeliveryInv'
    BY <1>1, TakesAttached, PresentKeeps
  <1>2. CASE ProcessOutput \/ ProcessCheckpoint
    BY <1>2, FramesQueue, QueueKeeps
  <1>3. CASE ProcessSessionEnded
    BY <1>3, TakesEnd
  <1>4. CASE AcceptAcknowledgement
    BY <1>4, AcknowledgementKeeps
  <1>5. CASE SendProgress
    BY <1>5, MessageKeeps
  <1>6. CASE PresentEnd
    BY <1>6, EndKeeps
  <1> QED BY <1>1, <1>2, <1>3, <1>4, <1>5, <1>6 DEF Client

\* The invariant is inductive.
LEMMA DeliveryStep == DeliveryInv /\ [Next]_vars => DeliveryInv'
  <1> SUFFICES ASSUME DeliveryInv, [Next]_vars PROVE DeliveryInv'
    OBVIOUS
  <1>1. CASE (Terminal \/ Driver) /\ UNCHANGED clientVars
    BY <1>1, DaemonKeeps
  <1>2. CASE Client
    BY <1>2, ClientKeeps
  <1>3. ASSUME NEW from \in {None, Cursor}, Connect(from)
        PROVE  DeliveryInv'
    BY <1>3, ConnectKeeps
  <1>4. CASE LoseConnection
    BY <1>4, LossKeeps
  <1>5. CASE RequestCheckpoint
    BY <1>5, MessageKeeps
  <1>6. CASE UNCHANGED vars
    BY <1>6, DeliveryStutters
  <1> QED BY <1>1, <1>2, <1>3, <1>4, <1>5, <1>6 DEF Next

\* The relation between the two ends of an attachment, the terminal and the
\* screen holds in every reachable state.
THEOREM DeliveryInvariant == Spec => []DeliveryInv
  <1>1. Init => DeliveryInv
    BY DeliveryStarts
  <1>2. DeliveryInv /\ [Next]_vars => DeliveryInv'
    BY DeliveryStep
  <1> QED BY <1>1, <1>2, PTL DEF Spec

(***************************************************************************)
(* What it implies.                                                         *)
(***************************************************************************)
\* accept_output and accept_checkpoint never refuse a frame of this daemon:
\* output starts where the last frame ended, and no checkpoint goes back.
THEOREM FramesAreAccepted == Spec => []FramesAccepted
  <1>1. DeliveryInv => FramesAccepted
    <2> SUFFICES ASSUME DeliveryInv, running, toClient # <<>> PROVE Accepted(Head(toClient))
      BY DEF FramesAccepted
    <2>1. Shaped /\ Frames
      BY DEF DeliveryInv
    <2>2. Head(toClient) = toClient[1] /\ toClient[1] \in Frame
      BY <2>1, Rest DEF Shaped
    <2>3. After(toClient[1], received)
      BY <2>1 DEF Frames
    <2> QED BY <2>2, <2>3 DEF Accepted, After
  <1> QED BY <1>1, DeliveryInvariant, PTL

\* accept_presentation_progress never refuses an acknowledgement of this client:
\* it names a frame in flight or the pending checkpoint.
THEOREM AcknowledgementsAccepted == Spec => []AcknowledgementAccepted
  <1>1. DeliveryInv => AcknowledgementAccepted
    <2> SUFFICES ASSUME DeliveryInv, pc = "idle", toServer # <<>>, Head(toServer) # None
                 PROVE  Acceptable(Head(toServer))
      BY DEF AcknowledgementAccepted
    <2> USE DEF None
    <2>1. Shaped /\ Flow
      BY DEF DeliveryInv
    <2>2. PICK n : n = toServer[1]
      OBVIOUS
    <2>3. Head(toServer) = n /\ n \in Nat /\ 1 \in 1..Len(toServer)
      BY <2>1, <2>2, Rest DEF Shaped
    <2>4. ~Waiting
      BY DEF Waiting
    <2>5. CASE applied = None
      <3>1. n = sent
        BY <2>1, <2>2, <2>3, <2>4, <2>5 DEF Flow
      <3>2. inFlight = <<>>
        <4>1. inFlight \in Seq([end : Nat, charge : Nat])
          BY <2>1 DEF Shaped
        <4>2. ~(1 \in 1..Len(inFlight))
          BY <2>1, <2>5 DEF Flow
        <4> QED BY <4>1, <4>2
      <3> QED BY <2>3, <2>5, <3>1, <3>2 DEF Acceptable
    <2>6. CASE applied # None
      <3>1. applied < n /\ InFlight(n)
        BY <2>1, <2>2, <2>3, <2>4, <2>6 DEF Flow
      <3>2. PICK i \in 1..Len(inFlight) : inFlight[i].end = n
        BY <3>1 DEF InFlight
      <3>3. n <= sent /\ applied \in Nat
        BY <2>1, <2>6, <3>2 DEF Flow, Shaped
      <3>4. i \in DOMAIN inFlight
        <4>1. inFlight \in Seq([end : Nat, charge : Nat])
          BY <2>1 DEF Shaped
        <4> QED BY <3>2, <4>1
      <3>5. n > applied
        BY <2>3, <3>1, <3>3
      <3> QED BY <2>3, <2>6, <3>2, <3>3, <3>4, <3>5 DEF Acceptable
    <2> QED BY <2>5, <2>6
  <1> QED BY <1>1, DeliveryInvariant, PTL

\* The cursor a client may resume from never goes beyond what its screen shows.
THEOREM CursorIsSafe == Spec => []CursorSafe
  <1>1. DeliveryInv => CursorSafe
    BY DEF DeliveryInv, Resume, CursorSafe
  <1> QED BY <1>1, DeliveryInvariant, PTL

\* Output is applied to a screen that shows exactly what precedes it, for the
\* renderer that keeps its own cursor: reconnecting loses and repeats nothing.
THEOREM ReplayIsExact ==
    ASSUME ~Interactive
    PROVE  Spec => []ReplayExact
  <1>1. DeliveryInv => ReplayExact
    <2> SUFFICES ASSUME DeliveryInv, ledger # <<>>, ~presented, Head(ledger).kind = "output",
                        screen # Unknown
                 PROVE  Head(ledger).from = screen.pos
      BY DEF ReplayExact
    <2>1. Shaped /\ ScreenShown
      BY DEF DeliveryInv, Shown
    <2>2. Head(ledger) = ledger[1]
      BY <2>1, Rest DEF Shaped
    <2> QED BY <2>1, <2>2 DEF ScreenShown
  <1> QED BY <1>1, DeliveryInvariant, PTL

\* That renderer never shows output produced after a resize, a history clear or
\* a reflow on a screen that predates it.
THEOREM ScreenIsFaithful ==
    ASSUME ~Interactive
    PROVE  Spec => []ScreenFaithful
  <1>1. DeliveryInv => ScreenFaithful
    <2> SUFFICES ASSUME DeliveryInv, screen # Unknown
                 PROVE  /\ screen.pos <= next
                        /\ \A r \in DOMAIN boundaries : boundaries[r] < screen.pos => r <= screen.rev
      BY DEF ScreenFaithful
    <2>1. Shaped /\ ScreenShown /\ Resume
      BY DEF DeliveryInv, Shown
    <2>2. boundaries \in Seq(Nat)
      BY <2>1 DEF Shaped, StreamTypeOK
    <2>3. DOMAIN boundaries = 1..Len(boundaries)
      BY <2>2
    <2> QED BY <2>1, <2>3 DEF ScreenShown, Covers, Resume
  <1> QED BY <1>1, DeliveryInvariant, PTL

(***************************************************************************)
(* The refinement of TerminalView.                                          *)
(***************************************************************************)
\* The terminal produces output and ends; a resize is not visible here.
LEMMA TerminalImplements ==
    ASSUME DeliveryInv, Terminal, UNCHANGED clientVars
    PROVE  View!Produce \/ View!Close \/ UNCHANGED View!viewVars
  <1>1. UNCHANGED <<screen, told>> /\ next \in Nat
    BY DEF clientVars, userVars, DeliveryInv, Shaped, StreamTypeOK
  <1>2. ASSUME NEW n \in 1..MaxSequence, NEW replaced \in BOOLEAN, ReadPty(n, replaced)
        PROVE  View!Produce
    <2>1. next' = next + n /\ ~ended /\ UNCHANGED ended
      BY <1>2 DEF ReadPty, AppendOutput
    <2>2. next' \in Nat /\ next' > next
      BY <1>1, <2>1, StreamAssumption
    <2> QED BY <1>1, <2>1, <2>2 DEF View!Produce
  <1>3. CASE Resize
    BY <1>1, <1>3 DEF Resize, ResizePty, View!viewVars
  <1>4. CASE End
    BY <1>1, <1>4 DEF End, PublishEnded, View!Close
  <1> QED BY <1>2, <1>3, <1>4 DEF Terminal

\* The daemon's task changes nothing that is promised.
LEMMA DriverStutters ==
    ASSUME Driver, UNCHANGED clientVars
    PROVE  UNCHANGED View!viewVars
  <1>1. UNCHANGED <<screen, told>>
    BY DEF clientVars, userVars
  <1>2. UNCHANGED <<next, ended>>
    BY DEF Driver, TakeInitialSnapshot, TakeFreshInitialSnapshot, SendFresh, SendReplacement,
           SendCheckpoint, RefreshInitial, RefreshCheckpoint, RecoverFromLag, ProcessEvent,
           ProcessAcknowledgement, ProcessRequestCheckpoint, FinishHistory, SendSessionEnd,
           EnterSend, SendOutput, StopSending, ReturnToSelect, streamVars
  <1> QED BY <1>1, <1>2 DEF View!viewVars

\* The renderer moves the screen forward, within what was produced.
LEMMA PresentImplements ==
    ASSUME ~Interactive, DeliveryInv, Present(TRUE)
    PROVE  View!Show \/ UNCHANGED View!viewVars
  <1> DEFINE old == IF screen = Unknown THEN 0 ELSE screen.pos
  <1>1. Shaped /\ Queue /\ ScreenShown
    BY DEF DeliveryInv, Shown
  <1>2. UNCHANGED <<next, ended, told>> /\ ledger # <<>> /\ ~presented
    BY DEF Present, deliveryVars, streamVars
  <1>3. PICK f : f = ledger[1]
    OBVIOUS
  <1>4. Head(ledger) = f /\ 1 \in 1..Len(ledger)
    BY <1>1, <1>2, <1>3, Rest DEF Shaped
  <1>5. /\ f.kind \in {"output", "checkpoint"} /\ f.to \in Nat /\ f.to <= received
        /\ f.kind = "output" => f.from \in Nat /\ f.from < f.to
        /\ received \in Nat /\ received <= next /\ next \in Nat
    BY <1>1, <1>3, <1>4 DEF Queue, Sound, Shaped, StreamTypeOK
  <1>6. screen # Unknown => screen \in [pos : Nat, rev : Nat]
    BY <1>1 DEF Shaped
  <1>7. /\ f.kind = "output" => screen # Unknown /\ screen.pos = f.from
        /\ f.kind = "checkpoint" /\ screen # Unknown => screen.pos <= f.to
    BY <1>1, <1>2, <1>3 DEF ScreenShown
  <1>8. old \in Nat /\ old <= f.to /\ f.to <= next
    BY <1>5, <1>6, <1>7
  <1>9. screen' # Unknown /\ screen'.pos = f.to
    <2>1. CASE f.kind = "checkpoint"
      <3>1. screen' = [pos |-> f.to, rev |-> f.rev]
        BY <1>4, <2>1 DEF Present, Applied
      <3> QED BY <1>5, <3>1 DEF Unknown, None
    <2>2. CASE f.kind = "output"
      <3>1. screen' = [screen EXCEPT !.pos = f.to]
        BY <1>4, <1>7, <2>2 DEF Present, Applied
      <3>2. screen'.pos = f.to
        BY <1>6, <1>7, <2>2, <3>1
      <3> QED BY <1>5, <3>2 DEF Unknown, None
    <2> QED BY <1>5, <2>1, <2>2
  <1>10. old' = f.to
    BY <1>9
  <1>11. old' = old \/ old' \in (old + 1)..next
    BY <1>5, <1>8, <1>10
  <1>12. CASE old' = old
    BY <1>2, <1>12 DEF View!viewVars
  <1>13. CASE old' \in (old + 1)..next
    BY <1>2, <1>13 DEF View!Show
  <1> QED BY <1>11, <1>12, <1>13

\* The client says that the terminal ended when its screen shows everything.
LEMMA ClientImplements ==
    ASSUME ~Interactive, DeliveryInv, Client
    PROVE  View!Show \/ View!Finish \/ UNCHANGED View!viewVars
  <1>1. ASSUME NEW compatible \in BOOLEAN, Interactive \/ compatible, Present(compatible)
        PROVE  View!Show \/ UNCHANGED View!viewVars
    <2>1. compatible = TRUE
      BY <1>1
    <2> QED BY <1>1, <2>1, PresentImplements
  <1>2. ASSUME NEW compatible \in BOOLEAN, Interactive \/ compatible, ReceiveAttached(compatible)
        PROVE  UNCHANGED View!viewVars
    <2>1. compatible /\ screen' = (IF compatible THEN screen ELSE Unknown)
      BY <1>2 DEF ReceiveAttached
    <2>2. screen' = screen /\ UNCHANGED <<next, ended, told>>
      BY <1>2, <2>1 DEF ReceiveAttached, streamVars
    <2> QED BY <2>2 DEF View!viewVars
  <1>3. CASE ProcessSessionEnded
    <2>1. running /\ told' = Interactive /\ UNCHANGED <<next, ended, screen>>
      BY <1>3 DEF ProcessSessionEnded, TakesFrame, streamVars
    <2>2. ~told /\ told \in BOOLEAN
      BY <2>1 DEF DeliveryInv, Frames, Shaped
    <2>3. told' = told
      BY <2>1, <2>2, ControllerAssumption
    <2> QED BY <2>1, <2>3 DEF View!viewVars
  <1>4. CASE ProcessOutput \/ ProcessCheckpoint \/ AcceptAcknowledgement \/ SendProgress
    BY <1>4 DEF ProcessOutput, ProcessCheckpoint, AcceptAcknowledgement, SendProgress, userVars,
                deliveryVars, streamVars, View!viewVars
  <1>5. CASE PresentEnd
    <2>1. ending /\ ledger = <<>> /\ told' /\ UNCHANGED <<next, ended, screen>>
      BY <1>5 DEF PresentEnd, deliveryVars, streamVars
    <2>2. ended /\ screen # Unknown /\ screen.pos = next
      BY <2>1 DEF DeliveryInv, Frames, Shown, ScreenShown
    <2> QED BY <2>1, <2>2 DEF View!Finish
  <1> QED BY <1>1, <1>2, <1>3, <1>4, <1>5 DEF Client

\* Every step of an attachment is a step of the promise, or invisible.
LEMMA StepImplements ==
    ASSUME ~Interactive, DeliveryInv, [Next]_vars
    PROVE  [View!ViewNext]_(View!viewVars)
  <1>1. CASE (Terminal \/ Driver) /\ UNCHANGED clientVars
    BY <1>1, TerminalImplements, DriverStutters DEF View!ViewNext
  <1>2. CASE Client
    BY <1>2, ClientImplements DEF View!ViewNext
  <1>3. ASSUME NEW from \in {None, Cursor}, Connect(from)
        PROVE  UNCHANGED View!viewVars
    BY <1>3 DEF Connect, Attach, streamVars, View!viewVars
  <1>4. CASE LoseConnection
    BY <1>4 DEF LoseConnection, Disconnect, streamVars, userVars, View!viewVars
  <1>5. CASE RequestCheckpoint
    BY <1>5 DEF RequestCheckpoint, streamVars, View!viewVars
  <1>6. CASE UNCHANGED vars
    BY <1>6 DEF vars, deliveryVars, streamVars, clientVars, userVars, View!viewVars
  <1> QED BY <1>1, <1>2, <1>3, <1>4, <1>5, <1>6 DEF Next

\* With the renderer that keeps its own cursor, an attachment keeps the promise
\* of TerminalView through lag, eviction, resizes, lost connections and replays.
THEOREM ImplementsView ==
    ASSUME ~Interactive
    PROVE  Spec => ViewSpec
  <1>1. Init => View!ViewInit
    BY DEF Init, StreamInit, View!ViewInit
  <1>2. DeliveryInv /\ [Next]_vars => [View!ViewNext]_(View!viewVars)
    BY StepImplements
  <1> QED BY <1>1, <1>2, DeliveryInvariant, PTL DEF Spec, ViewSpec, View!ViewSpec

(***************************************************************************)
(* Sums.  The library's induction theorems take an operator, so induction   *)
(* is over the set of the numbers that have the property.                   *)
(***************************************************************************)
\* A set of numbers that is not empty has a least one.
LEMMA Least ==
    ASSUME NEW T \in SUBSET Nat, T # {}
    PROVE  \E x \in T : \A y \in T : ~(y < x)
  <1> DEFINE R == OpToRel(<, Nat)
  <1>1. IsWellFoundedOn(R, Nat)
    BY NatLessThanWellFounded DEF OpToRel
  <1>2. \A x, y \in Nat : y < x => <<y, x>> \in R
    BY DEF OpToRel
  <1> HIDE DEF R
  <1>3. \E x \in T : \A y \in T : ~(<<y, x>> \in R)
    BY <1>1, WFMin
  <1> QED BY <1>2, <1>3

\* Induction, over the set of the numbers that have the property.
LEMMA Induction ==
    ASSUME NEW P \in SUBSET Nat, 0 \in P, \A n \in P : n + 1 \in P
    PROVE  P = Nat
  <1> SUFFICES ASSUME Nat \ P # {} PROVE FALSE
    OBVIOUS
  <1>1. PICK x \in Nat \ P : \A y \in Nat \ P : ~(y < x)
    BY Least
  <1>2. x # 0 /\ x \in Nat
    OBVIOUS
  <1>3. x - 1 \in Nat /\ x - 1 < x /\ (x - 1) + 1 = x
    BY <1>2
  <1>4. x - 1 \in P
    BY <1>1, <1>3
  <1> QED BY <1>1, <1>3, <1>4

\* The element a fold takes next.
Pick(s) == CHOOSE x \in s : TRUE

\* One turn of a fold that adds up v.
Turn(v, g, s) == IF s = {} THEN 0 ELSE v[Pick(s)] + g[s \ {Pick(s)}]

\* Taking an element out.
LEMMA Smaller ==
    ASSUME NEW S, IsFiniteSet(S), NEW x \in S
    PROVE  Cardinality(S) \in Nat /\ Cardinality(S) > 0
           /\ Cardinality(S \ {x}) = Cardinality(S) - 1 /\ IsFiniteSet(S \ {x})
  BY FS_RemoveElement, FS_CardinalityType, FS_EmptySet

\* The element taken is one of them.
LEMMA Picked == ASSUME NEW s, s # {} PROVE Pick(s) \in s
  BY DEF Pick

\* There is a function that does what the fold's recursion says.
LEMMA FoldExists ==
    ASSUME NEW S, IsFiniteSet(S), NEW v \in [S -> Nat]
    PROVE  \E g : g = [s \in SUBSET S |-> Turn(v, g, s)]
  <1> DEFINE Good(n, g) == \A s \in SUBSET S : Cardinality(s) <= n => g[s] = Turn(v, g, s)
             P == {n \in Nat : \E g \in [SUBSET S -> Nat] : Good(n, g)}
  <1>0. \A s \in SUBSET S : /\ IsFiniteSet(s) /\ Cardinality(s) \in Nat
                            /\ Cardinality(s) <= Cardinality(S)
    BY FS_Subset, FS_CardinalityType
  <1>1. \A s \in SUBSET S : s # {} =>
           /\ Pick(s) \in s /\ s \ {Pick(s)} \in SUBSET S
           /\ Cardinality(s) > 0 /\ Cardinality(s \ {Pick(s)}) = Cardinality(s) - 1
    <2> TAKE s \in SUBSET S
    <2> HAVE s # {}
    <2>1. Pick(s) \in s
      BY Picked
    <2> QED BY <1>0, <2>1, Smaller
  <1>2. 0 \in P
    <2> DEFINE z == [s \in SUBSET S |-> 0]
    <2>1. z \in [SUBSET S -> Nat]
      OBVIOUS
    <2>2. ASSUME NEW s \in SUBSET S, Cardinality(s) <= 0 PROVE z[s] = Turn(v, z, s)
      <3>1. Cardinality(s) \in Nat
        BY <1>0
      <3>2. s # {} => Cardinality(s) > 0
        BY <1>1
      <3>3. s = {}
        BY <2>2, <3>1, <3>2
      <3> QED BY <3>3 DEF Turn
    <2>3. Good(0, z)
      BY <2>2
    <2> QED BY <2>1, <2>3
  <1>3. ASSUME NEW n \in P PROVE n + 1 \in P
    <2>1. PICK g \in [SUBSET S -> Nat] : Good(n, g)
      OBVIOUS
    <2> DEFINE h == [s \in SUBSET S |-> Turn(v, g, s)]
    <2>2. \A s \in SUBSET S : Turn(v, g, s) \in Nat
      <3> TAKE s \in SUBSET S
      <3>1. s # {} => v[Pick(s)] \in Nat /\ g[s \ {Pick(s)}] \in Nat
        BY <1>1
      <3> QED BY <3>1 DEF Turn
    <2>3. h \in [SUBSET S -> Nat]
      BY <2>2
    <2>4. ASSUME NEW s \in SUBSET S, Cardinality(s) <= n + 1 PROVE h[s] = Turn(v, h, s)
      <3>1. CASE s = {}
        BY <3>1 DEF Turn
      <3>2. CASE s # {}
        <4> DEFINE r == s \ {Pick(s)}
        <4>1. r \in SUBSET S /\ Cardinality(r) <= n
          BY <1>0, <1>1, <2>4, <3>2
        <4>2. g[r] = Turn(v, g, r) /\ h[r] = Turn(v, g, r)
          BY <2>1, <4>1
        <4>3. h[s] = Turn(v, g, s)
          OBVIOUS
        <4> HIDE DEF h
        <4> QED BY <3>2, <4>2, <4>3 DEF Turn
      <3> QED BY <3>1, <3>2
    <2>5. Good(n + 1, h)
      BY <2>4
    <2> HIDE DEF Good, h
    <2>6. n + 1 \in Nat
      OBVIOUS
    <2> QED BY <2>3, <2>5, <2>6
  <1>4. P = Nat
    <2> HIDE DEF P
    <2>1. P \in SUBSET Nat
      BY DEF P
    <2> QED BY <1>2, <1>3, <2>1, Induction
  <1>5. PICK g \in [SUBSET S -> Nat] : Good(Cardinality(S), g)
    <2>1. Cardinality(S) \in P
      BY <1>4, FS_CardinalityType
    <2> QED BY <2>1
  <1>6. g = [s \in SUBSET S |-> Turn(v, g, s)]
    BY <1>0, <1>5
  <1> QED BY <1>6

\* The fold that SumFunction is.
Iter(v, S) == CHOOSE g : g = [s \in SUBSET S |-> Turn(v, g, s)]

\* SumFunction is this fold.
LEMMA SumIsFold ==
    ASSUME NEW n \in Nat, NEW v \in [1..n -> Nat]
    PROVE  SumFunction(v) = Iter(v, 1..n)[1..n]
  <1>1. DOMAIN v = 1..n
    OBVIOUS
  <1> QED BY <1>1 DEF SumFunction, SumFunctionOnSet, FoldFunctionOnSet, MapThenFoldSet, Iter, Turn, Pick

\* What the fold computes: it may take any element next.
LEMMA FoldTakesAny ==
    ASSUME NEW S, IsFiniteSet(S), NEW v \in [S -> Nat], NEW s \in SUBSET S
    PROVE  /\ Iter(v, S)[{}] = 0 /\ Iter(v, S)[s] \in Nat
           /\ \A x \in s : Iter(v, S)[s] = v[x] + Iter(v, S)[s \ {x}]
  <1> DEFINE g == Iter(v, S)
             AnyNext(r) == g[r] \in Nat /\ \A x \in r : g[r] = v[x] + g[r \ {x}]
             P == {n \in Nat : \A r \in SUBSET S : Cardinality(r) <= n => AnyNext(r)}
  <1>0. \A r \in SUBSET S : IsFiniteSet(r) /\ Cardinality(r) \in Nat
    BY FS_Subset, FS_CardinalityType
  <1>1. \A r \in SUBSET S : g[r] = Turn(v, g, r)
    <2>1. g = [r \in SUBSET S |-> Turn(v, g, r)]
      BY FoldExists DEF Iter
    <2> HIDE DEF g
    <2> QED BY <2>1
  <1> HIDE DEF g
  <1>2. g[{}] = 0
    BY <1>1 DEF Turn
  <1>3. 0 \in P
    <2> SUFFICES ASSUME NEW r \in SUBSET S, Cardinality(r) <= 0 PROVE AnyNext(r)
      OBVIOUS
    <2>1. Cardinality(r) = 0
      BY <1>0
    <2>2. r = {}
      BY <1>0, <2>1, FS_EmptySet
    <2> QED BY <1>2, <2>2
  <1>4. ASSUME NEW n \in P PROVE n + 1 \in P
    <2> SUFFICES ASSUME NEW r \in SUBSET S, Cardinality(r) <= n + 1, r # {} PROVE AnyNext(r)
      <3>1. AnyNext({})
        BY <1>2
      <3>2. n + 1 \in Nat
        OBVIOUS
      <3> HIDE DEF AnyNext
      <3> QED BY <3>1, <3>2
    <2>1. n \in Nat /\ \A q \in SUBSET S : Cardinality(q) <= n => AnyNext(q)
      OBVIOUS
    <2> DEFINE y == Pick(r)
    <2>3. y \in r /\ g[r] = v[y] + g[r \ {y}]
      BY <1>1, Picked DEF Turn
    <2> HIDE DEF y
    <2>4. ASSUME NEW x \in r PROVE r \ {x} \in SUBSET S /\ Cardinality(r \ {x}) <= n /\ v[x] \in Nat
      <3>1. /\ Cardinality(r) \in Nat /\ Cardinality(r \ {x}) = Cardinality(r) - 1
        BY <1>0, Smaller
      <3>2. Cardinality(r \ {x}) <= n
        BY <2>1, <3>1
      <3> QED BY <3>2
    <2>5. ASSUME NEW x \in r PROVE AnyNext(r \ {x})
      BY <2>1, <2>4
    <2>6. g[r \ {y}] \in Nat /\ g[r] \in Nat
      BY <2>3, <2>4, <2>5
    <2>7. ASSUME NEW x \in r PROVE g[r] = v[x] + g[r \ {x}]
      <3>1. CASE x = y
        BY <2>3, <3>1
      <3>2. CASE x # y
        <4>1. (r \ {y}) \ {x} = (r \ {x}) \ {y}
          OBVIOUS
        <4>2. g[r \ {y}] = v[x] + g[(r \ {y}) \ {x}]
          BY <2>3, <2>5, <3>2
        <4>3. g[r \ {x}] = v[y] + g[(r \ {x}) \ {y}]
          BY <2>3, <2>5, <3>2
        <4> DEFINE w == g[(r \ {x}) \ {y}]
        <4>4. w \in Nat
          <5>1. /\ r \ {x} \in SUBSET S /\ IsFiniteSet(r \ {x}) /\ Cardinality(r \ {x}) <= n
                /\ y \in r \ {x}
            BY <1>0, <2>3, <2>4, <3>2
          <5>2. /\ Cardinality(r \ {x}) \in Nat /\ (r \ {x}) \ {y} \in SUBSET S
                /\ Cardinality((r \ {x}) \ {y}) = Cardinality(r \ {x}) - 1
            BY <5>1, Smaller
          <5>3. Cardinality((r \ {x}) \ {y}) <= n
            BY <2>1, <5>1, <5>2
          <5> QED BY <2>1, <5>2, <5>3
        <4>5. g[r \ {y}] = v[x] + w /\ g[r \ {x}] = v[y] + w
          BY <4>1, <4>2, <4>3
        <4>6. v[x] \in Nat /\ v[y] \in Nat
          BY <2>3, <2>4
        <4> HIDE DEF w
        <4> QED BY <2>3, <4>4, <4>5, <4>6
      <3> QED BY <3>1, <3>2
    <2> QED BY <2>6, <2>7
  <1>5. P = Nat
    <2> HIDE DEF P
    <2>1. P \in SUBSET Nat
      BY DEF P
    <2> QED BY <1>3, <1>4, <2>1, Induction
  <1>6. AnyNext(s)
    <2>1. Cardinality(s) \in P
      BY <1>0, <1>5
    <2> QED BY <2>1
  <1> QED BY <1>2, <1>6 DEF g

\* p adds up the first elements of v, one after another.
Adds(p, v, n) == /\ p \in [0..n -> Nat] /\ p[0] = 0
                 /\ \A k \in 1..n : p[k] = p[k - 1] + v[k]

\* SumFunction adds up a sequence of numbers from its first to its last.
LEMMA PartialSums ==
    ASSUME NEW n \in Nat, NEW v \in [1..n -> Nat]
    PROVE  \E p : Adds(p, v, n) /\ SumFunction(v) = p[n]
  <1> DEFINE g == Iter(v, 1..n)
             p == [k \in 0..n |-> g[1..k]]
  <1>1. IsFiniteSet(1..n)
    BY FS_Interval
  <1>2. \A s \in SUBSET (1..n) :
           /\ g[{}] = 0 /\ g[s] \in Nat
           /\ \A x \in s : g[s] = v[x] + g[s \ {x}]
    BY <1>1, FoldTakesAny
  <1>3. SumFunction(v) = g[1..n]
    BY SumIsFold
  <1> HIDE DEF g
  <1>4. \A k \in 0..n : 1..k \in SUBSET (1..n)
    OBVIOUS
  <1>5. p \in [0..n -> Nat]
    BY <1>2, <1>4
  <1>6. p[0] = 0
    <2>1. 1..0 = {} /\ 0 \in 0..n
      OBVIOUS
    <2> QED BY <1>2, <2>1
  <1>7. ASSUME NEW k \in 1..n PROVE p[k] = p[k - 1] + v[k]
    <2>1. k \in 0..n /\ k - 1 \in 0..n /\ k \in 1..k /\ (1..k) \ {k} = 1..(k - 1)
      OBVIOUS
    <2>2. g[1..k] = v[k] + g[(1..k) \ {k}]
      BY <1>2, <1>4, <2>1
    <2>3. p[k] = v[k] + p[k - 1]
      BY <2>1, <2>2
    <2>4. v[k] \in Nat /\ p[k - 1] \in Nat
      BY <1>5, <2>1
    <2> HIDE DEF p
    <2> QED BY <2>3, <2>4
  <1>8. SumFunction(v) = p[n]
    BY <1>3
  <1> HIDE DEF p
  <1>9. Adds(p, v, n)
    BY <1>5, <1>6, <1>7 DEF Adds
  <1> QED BY <1>8, <1>9

\* Adding up a prefix gives the same on the way.
LEMMA SumsAgree ==
    ASSUME NEW n \in Nat, NEW l \in 0..n, NEW v, NEW a, NEW p, NEW q,
           Adds(p, v, n), Adds(q, a, l), \A k \in 1..l : a[k] = v[k]
    PROVE  p[l] = q[l]
  <1> DEFINE P == {k \in Nat : k <= l => p[k] = q[k]}
  <1>1. 0 \in P
    BY DEF Adds
  <1>2. ASSUME NEW k \in P PROVE k + 1 \in P
    <2> SUFFICES ASSUME k + 1 <= l PROVE p[k + 1] = q[k + 1]
      OBVIOUS
    <2>1. k + 1 \in 1..l /\ k + 1 \in 1..n /\ (k + 1) - 1 = k /\ p[k] = q[k]
      OBVIOUS
    <2>2. v[k + 1] = a[k + 1]
      BY <2>1
    <2>3. p[k + 1] = p[(k + 1) - 1] + v[k + 1] /\ q[k + 1] = q[(k + 1) - 1] + a[k + 1]
      BY <2>1 DEF Adds
    <2> QED BY <2>1, <2>2, <2>3
  <1>3. P = Nat
    <2> HIDE DEF P
    <2>1. P \in SUBSET Nat
      BY DEF P
    <2> QED BY <1>1, <1>2, <2>1, Induction
  <1>4. l \in P
    BY <1>3
  <1> QED BY <1>4

\* A sum is a number.
LEMMA SumType ==
    ASSUME NEW n \in Nat, NEW v \in [1..n -> Nat]
    PROVE  SumFunction(v) \in Nat /\ (n = 0 => SumFunction(v) = 0)
  <1>1. PICK p : Adds(p, v, n) /\ SumFunction(v) = p[n]
    BY PartialSums
  <1> QED BY <1>1 DEF Adds

\* The sum of a sequence is that of its two parts.
LEMMA SumParts ==
    ASSUME NEW n \in Nat, NEW l \in 0..n, NEW v \in [1..n -> Nat],
           NEW a \in [1..l -> Nat], NEW b \in [1..(n - l) -> Nat],
           \A k \in 1..l : a[k] = v[k],
           \A k \in 1..(n - l) : b[k] = v[l + k]
    PROVE  SumFunction(v) = SumFunction(a) + SumFunction(b)
  <1> DEFINE m == n - l
  <1>0. m \in Nat /\ l \in Nat /\ n = l + m
    OBVIOUS
  <1>1. PICK p : Adds(p, v, n) /\ SumFunction(v) = p[n]
    BY PartialSums
  <1>2. PICK q : Adds(q, a, l) /\ SumFunction(a) = q[l]
    BY <1>0, PartialSums
  <1>3. PICK r : Adds(r, b, m) /\ SumFunction(b) = r[m]
    BY <1>0, PartialSums
  <1>4. p[l] = q[l]
    BY <1>1, <1>2, SumsAgree
  <1> DEFINE P == {k \in Nat : k <= m => p[l + k] = p[l] + r[k]}
  <1> HIDE DEF m
  <1>5. 0 \in P
    <2>1. p[l] \in Nat /\ r[0] = 0 /\ l + 0 = l
      BY <1>0, <1>1, <1>3 DEF Adds
    <2> QED BY <2>1
  <1>6. ASSUME NEW k \in P PROVE k + 1 \in P
    <2> SUFFICES ASSUME k + 1 <= m PROVE p[l + (k + 1)] = p[l] + r[k + 1]
      OBVIOUS
    <2>0. k \in Nat /\ (k <= m => p[l + k] = p[l] + r[k])
      OBVIOUS
    <2>1. /\ k + 1 \in 1..m /\ (k + 1) - 1 = k /\ l + (k + 1) \in 1..n /\ l \in 0..n /\ k \in 0..m
          /\ (l + (k + 1)) - 1 = l + k
      BY <1>0, <2>0
    <2>2. p[l + (k + 1)] = p[l + k] + v[l + (k + 1)]
      BY <1>1, <2>1 DEF Adds
    <2>3. r[k + 1] = r[k] + b[k + 1]
      BY <1>3, <2>1 DEF Adds
    <2>4. b[k + 1] = v[l + (k + 1)] /\ b[k + 1] \in Nat
      BY <2>1 DEF m
    <2>5. p[l] \in Nat /\ r[k] \in Nat
      BY <1>1, <1>3, <2>1 DEF Adds
    <2>6. p[l + k] = p[l] + r[k]
      BY <1>0, <2>0, <2>1
    <2> QED BY <2>2, <2>3, <2>4, <2>5, <2>6
  <1>7. P = Nat
    <2> HIDE DEF P
    <2>1. P \in SUBSET Nat
      BY DEF P
    <2> QED BY <1>5, <1>6, <2>1, Induction
  <1>8. p[l + m] = p[l] + r[m]
    <2>1. m \in P
      BY <1>0, <1>7
    <2> QED BY <1>0, <2>1
  <1> QED BY <1>0, <1>1, <1>2, <1>3, <1>4, <1>8

\* A sum is at most what its elements span, ...
LEMMA SumAtMost ==
    ASSUME NEW n \in Nat, NEW v \in [1..n -> Nat], NEW b \in [0..n -> Nat],
           \A k \in 1..n : b[k - 1] + v[k] <= b[k]
    PROVE  b[0] + SumFunction(v) <= b[n]
  <1>1. PICK p : Adds(p, v, n) /\ SumFunction(v) = p[n]
    BY PartialSums
  <1> DEFINE P == {k \in Nat : k <= n => b[0] + p[k] <= b[k]}
  <1>5. 0 \in P
    <2>1. p[0] = 0 /\ b[0] \in Nat
      BY <1>1 DEF Adds
    <2> QED BY <2>1
  <1>6. ASSUME NEW k \in P PROVE k + 1 \in P
    <2> SUFFICES ASSUME k + 1 <= n PROVE b[0] + p[k + 1] <= b[k + 1]
      OBVIOUS
    <2>0. k \in Nat /\ (k <= n => b[0] + p[k] <= b[k])
      OBVIOUS
    <2>1. k + 1 \in 1..n /\ (k + 1) - 1 = k /\ k \in 0..n /\ k + 1 \in 0..n /\ 0 \in 0..n
      BY <2>0
    <2>2. p[k + 1] = p[k] + v[k + 1] /\ p[k] \in Nat
      BY <1>1, <2>1 DEF Adds
    <2>3. b[k] + v[k + 1] <= b[k + 1]
      BY <2>1
    <2>4. v[k + 1] \in Nat /\ b[k] \in Nat /\ b[k + 1] \in Nat /\ b[0] \in Nat
      BY <2>1
    <2>5. b[0] + p[k] <= b[k]
      BY <2>0, <2>1
    <2> QED BY <2>2, <2>3, <2>4, <2>5
  <1>7. P = Nat
    <2> HIDE DEF P
    <2>1. P \in SUBSET Nat
      BY DEF P
    <2> QED BY <1>5, <1>6, <2>1, Induction
  <1>8. n \in P
    BY <1>7
  <1> QED BY <1>1, <1>8

\* ... and at least what its elements cover.
LEMMA SumAtLeast ==
    ASSUME NEW n \in Nat, NEW v \in [1..n -> Nat], NEW b \in [0..n -> Nat],
           \A k \in 1..n : b[k] <= b[k - 1] + v[k]
    PROVE  b[n] <= b[0] + SumFunction(v)
  <1>1. PICK p : Adds(p, v, n) /\ SumFunction(v) = p[n]
    BY PartialSums
  <1> DEFINE P == {k \in Nat : k <= n => b[k] <= b[0] + p[k]}
  <1>5. 0 \in P
    <2>1. p[0] = 0 /\ b[0] \in Nat
      BY <1>1 DEF Adds
    <2> QED BY <2>1
  <1>6. ASSUME NEW k \in P PROVE k + 1 \in P
    <2> SUFFICES ASSUME k + 1 <= n PROVE b[k + 1] <= b[0] + p[k + 1]
      OBVIOUS
    <2>0. k \in Nat /\ (k <= n => b[k] <= b[0] + p[k])
      OBVIOUS
    <2>1. k + 1 \in 1..n /\ (k + 1) - 1 = k /\ k \in 0..n /\ k + 1 \in 0..n /\ 0 \in 0..n
      BY <2>0
    <2>2. p[k + 1] = p[k] + v[k + 1] /\ p[k] \in Nat
      BY <1>1, <2>1 DEF Adds
    <2>3. b[k + 1] <= b[k] + v[k + 1]
      BY <2>1
    <2>4. v[k + 1] \in Nat /\ b[k] \in Nat /\ b[k + 1] \in Nat /\ b[0] \in Nat
      BY <2>1
    <2>5. b[k] <= b[0] + p[k]
      BY <2>0, <2>1
    <2> QED BY <2>2, <2>3, <2>4, <2>5
  <1>7. P = Nat
    <2> HIDE DEF P
    <2>1. P \in SUBSET Nat
      BY DEF P
    <2> QED BY <1>5, <1>6, <2>1, Induction
  <1>8. n \in P
    BY <1>7
  <1> QED BY <1>1, <1>8

(***************************************************************************)
(* Flow control.                                                            *)
(***************************************************************************)
\* The charges of the deliveries, and the bytes of the frames, one by one.
ChargesOf(deliveries) == [i \in 1..Len(deliveries) |-> deliveries[i].charge]
SizesOf(frames) ==
    [i \in 1..Len(frames) |-> IF frames[i].kind = "output" THEN frames[i].to - frames[i].from ELSE 0]

\* Where the frame in flight number i starts.
StartOf(i) == IF i = 1 THEN applied ELSE inFlight[i - 1].end

\* The account of the credit is that of the frames in flight, it never exceeds
\* the window, and every frame is charged at least its bytes.
Credit ==
    /\ charge = SumCharges(inFlight)
    /\ charge <= Window
    /\ \A i \in 1..Len(inFlight) : inFlight[i].end <= inFlight[i].charge + StartOf(i)

\* The first k elements.
LEMMA Prefix ==
    ASSUME NEW S, NEW s \in Seq(S), NEW k \in 0..Len(s)
    PROVE  /\ SubSeq(s, 1, k) \in Seq(S) /\ Len(SubSeq(s, 1, k)) = k
           /\ \A i \in 1..k : SubSeq(s, 1, k)[i] = s[i]
  OBVIOUS

\* The charges are numbers, and so is their sum.
LEMMA ChargesTyped ==
    ASSUME NEW d \in Seq([end : Nat, charge : Nat])
    PROVE  /\ Len(d) \in Nat /\ ChargesOf(d) \in [1..Len(d) -> Nat]
           /\ SumCharges(d) = SumFunction(ChargesOf(d)) /\ SumCharges(d) \in Nat
           /\ (d = <<>> => SumCharges(d) = 0)
  <1>0. Len(d) \in Nat
    BY EmptySeq
  <1>a. \A i \in 1..Len(d) : d[i] \in [end : Nat, charge : Nat]
    BY Elements
  <1>1. Len(d) \in Nat /\ \A i \in 1..Len(d) : d[i] \in [end : Nat, charge : Nat]
    BY <1>0, <1>a
  <1>2. ChargesOf(d) \in [1..Len(d) -> Nat]
    BY <1>1 DEF ChargesOf
  <1>3. SumCharges(d) = SumFunction(ChargesOf(d))
    BY DEF SumCharges, ChargesOf
  <1>4. SumFunction(ChargesOf(d)) \in Nat /\ (Len(d) = 0 => SumFunction(ChargesOf(d)) = 0)
    BY <1>1, <1>2, SumType
  <1> QED BY <1>1, <1>2, <1>3, <1>4

\* One more delivery adds its charge.
LEMMA ChargesAppended ==
    ASSUME NEW d \in Seq([end : Nat, charge : Nat]), NEW e \in [end : Nat, charge : Nat]
    PROVE  SumCharges(Append(d, e)) = SumCharges(d) + e.charge
  <1> DEFINE r == Append(d, e)
             n == Len(d) + 1
             one == [i \in 1..1 |-> e.charge]
  <1>1. /\ r \in Seq([end : Nat, charge : Nat]) /\ Len(r) = n
        /\ \A i \in 1..Len(d) : r[i] = d[i]
        /\ r[Len(d) + 1] = e
    BY Appended
  <1>2. /\ Len(d) \in Nat /\ ChargesOf(d) \in [1..Len(d) -> Nat] /\ SumCharges(d) \in Nat
        /\ SumCharges(d) = SumFunction(ChargesOf(d))
    BY ChargesTyped
  <1>3. ChargesOf(r) \in [1..n -> Nat] /\ SumCharges(r) = SumFunction(ChargesOf(r))
    BY <1>1, ChargesTyped
  <1>4. \A i \in 1..Len(d) : ChargesOf(d)[i] = ChargesOf(r)[i]
    BY <1>1, <1>2 DEF ChargesOf
  <1>5. n \in Nat /\ Len(d) \in 0..n /\ n - Len(d) = 1
    BY <1>2
  <1>6. ChargesOf(r)[Len(d) + 1] = e.charge /\ e.charge \in Nat
    BY <1>1, <1>5 DEF ChargesOf
  <1>7. one \in [1..1 -> Nat] /\ \A i \in 1..1 : one[i] = ChargesOf(r)[Len(d) + i]
    BY <1>6
  <1>8. SumFunction(one) = e.charge
    <2>1. PICK p : Adds(p, one, 1) /\ SumFunction(one) = p[1]
      BY <1>7, PartialSums
    <2>2. 1 \in 1..1 /\ 1 - 1 = 0 /\ one[1] = e.charge
      OBVIOUS
    <2>3. p[1] = p[0] + one[1] /\ p[0] = 0
      BY <2>1, <2>2 DEF Adds
    <2> QED BY <1>6, <2>1, <2>2, <2>3
  <1> HIDE DEF n, r, one
  <1>b. one \in [1..(n - Len(d)) -> Nat] /\ \A i \in 1..(n - Len(d)) : one[i] = ChargesOf(r)[Len(d) + i]
    BY <1>5, <1>7
  <1>9. SumFunction(ChargesOf(r)) = SumFunction(ChargesOf(d)) + SumFunction(one)
    BY <1>2, <1>3, <1>4, <1>5, <1>b, SumParts
  <1> QED BY <1>2, <1>3, <1>8, <1>9 DEF r

\* The deliveries released, and the others.
LEMMA ChargesSplit ==
    ASSUME NEW d \in Seq([end : Nat, charge : Nat]), NEW k \in 0..Len(d)
    PROVE  /\ SumCharges(d) = SumCharges(SubSeq(d, 1, k)) + SumCharges(SubSeq(d, k + 1, Len(d)))
           /\ SumCharges(SubSeq(d, 1, k)) \in Nat
           /\ SumCharges(SubSeq(d, k + 1, Len(d))) \in Nat
  <1> DEFINE n == Len(d)
             a == SubSeq(d, 1, k)
             b == SubSeq(d, k + 1, n)
  <1>1. n \in Nat /\ k \in Nat /\ n - k \in Nat
    OBVIOUS
  <1>2. b \in Seq([end : Nat, charge : Nat]) /\ Len(b) = n - k
        /\ \A i \in 1..(n - k) : k + i \in 1..n /\ b[i] = d[k + i]
    BY Suffix
  <1>3. a \in Seq([end : Nat, charge : Nat]) /\ Len(a) = k /\ \A i \in 1..k : a[i] = d[i]
    BY Prefix
  <1> HIDE DEF a, b
  <1>4. ChargesOf(d) \in [1..n -> Nat] /\ SumCharges(d) = SumFunction(ChargesOf(d))
    BY ChargesTyped
  <1>5. /\ ChargesOf(a) \in [1..k -> Nat] /\ SumCharges(a) = SumFunction(ChargesOf(a))
        /\ SumCharges(a) \in Nat
    BY <1>3, ChargesTyped
  <1>6. /\ ChargesOf(b) \in [1..(n - k) -> Nat] /\ SumCharges(b) = SumFunction(ChargesOf(b))
        /\ SumCharges(b) \in Nat
    BY <1>2, ChargesTyped
  <1>7. \A i \in 1..k : ChargesOf(a)[i] = ChargesOf(d)[i]
    BY <1>1, <1>3 DEF ChargesOf
  <1>8. \A i \in 1..(n - k) : ChargesOf(b)[i] = ChargesOf(d)[k + i]
    BY <1>1, <1>2 DEF ChargesOf
  <1> HIDE DEF n
  <1>9. k \in 0..n
    BY DEF n
  <1>10. SumFunction(ChargesOf(d)) = SumFunction(ChargesOf(a)) + SumFunction(ChargesOf(b))
    BY <1>1, <1>4, <1>5, <1>6, <1>7, <1>8, <1>9, SumParts
  <1> QED BY <1>4, <1>5, <1>6, <1>10 DEF a, b, n

\* An acknowledgement gives back the credit of the frames it releases.
LEMMA CreditReturned ==
    ASSUME DeliveryInv, Credit, ProcessAcknowledgement
    PROVE  Credit'
  <1> USE DEF None
  <1> DEFINE n == toServer[1]
             k == Released(n)
             L == Len(inFlight)
  <1>1. Shaped /\ Flow /\ toServer # <<>> /\ pc = "idle" /\ ~Waiting
    BY DEF DeliveryInv, ProcessAcknowledgement, Waiting
  <1>2. /\ toServer \in Seq(Nat \cup {None}) /\ 1 \in 1..Len(toServer) /\ Head(toServer) = n
        /\ inFlight \in Seq([end : Nat, charge : Nat]) /\ L \in Nat
        /\ sent \in Nat /\ applied \in Nat \cup {None}
    BY <1>1 DEF Shaped
  <1>3. n # None /\ n \in Nat
    BY <1>2 DEF ProcessAcknowledgement
  <1>4. Acked(n) /\ pc' = "enter"
    BY AcknowledgementAcked
  <1>5. /\ applied' = n
        /\ inFlight' = SubSeq(inFlight, k + 1, L)
        /\ charge' = Larger(0, charge - SumCharges(SubSeq(inFlight, 1, k)))
    BY <1>1, <1>2, <1>4 DEF ProcessAcknowledgement
  <1>6. InFlight(n) \/ inFlight = <<>>
    <2>1. applied # None => InFlight(n)
      BY <1>1, <1>2, <1>3 DEF Flow
    <2>2. applied = None => L = 0
      BY <1>1, <1>2 DEF Flow
    <2> QED BY <1>2, <2>1, <2>2
  <1>7. /\ k \in 0..L
        /\ \A i \in 1..k : inFlight[i].end <= n
        /\ k < L => inFlight[k + 1].end > n
    BY <1>1, <1>3, <1>6, ReleasedPrefix
  <1> HIDE DEF k, n
  <1>8. /\ SumCharges(inFlight) = SumCharges(SubSeq(inFlight, 1, k)) + SumCharges(inFlight')
        /\ SumCharges(SubSeq(inFlight, 1, k)) \in Nat /\ SumCharges(inFlight') \in Nat
    BY <1>2, <1>5, <1>7, ChargesSplit
  <1>9. charge' = SumCharges(inFlight') /\ charge' <= Window
    <2>1. charge = SumCharges(inFlight) /\ charge <= Window /\ Window \in Nat
      BY DeliveryAssumption DEF Credit
    <2> QED BY <1>5, <1>8, <2>1 DEF Larger
  <1>10. /\ Len(inFlight') = L - k /\ inFlight' \in Seq([end : Nat, charge : Nat])
         /\ \A i \in 1..(L - k) : k + i \in 1..L /\ inFlight'[i] = inFlight[k + i]
    BY <1>2, <1>5, <1>7, Suffix
  <1>11. \A i \in 1..L : inFlight[i].end \in Nat /\ inFlight[i].charge \in Nat
    <2>1. \A i \in 1..L : inFlight[i] \in [end : Nat, charge : Nat]
      BY <1>2, Elements
    <2> QED BY <2>1
  <1>12. ASSUME NEW i \in 1..Len(inFlight')
         PROVE  inFlight'[i].end <= inFlight'[i].charge + StartOf(i)'
    <2>1. k \in Nat /\ L \in Nat /\ i \in Nat /\ i >= 1 /\ i <= L - k /\ k <= L
      BY <1>2, <1>7, <1>10
    <2>2. k + i \in 1..L /\ inFlight'[i] = inFlight[k + i]
      BY <1>10, <2>1
    <2>3. inFlight[k + i].end <= inFlight[k + i].charge + StartOf(k + i)
      BY <2>2 DEF Credit
    <2>4. CASE i = 1
      <3>1. inFlight # <<>>
        BY <1>2, <2>1
      <3>2. PICK j \in 1..L : inFlight[j].end = n
        BY <1>6, <3>1 DEF InFlight
      <3>3. k < L /\ k + 1 \in 1..L
        BY <2>1, <2>4
      <3>4. j <= k
        <4> SUFFICES ASSUME j >= k + 1 PROVE FALSE
          BY <2>1, <3>2
        <4>1. j = k + 1 \/ inFlight[k + 1].end < inFlight[j].end
          BY <1>1, <2>1, <3>2, <3>3 DEF Flow
        <4> QED BY <1>3, <1>7, <1>11, <3>2, <3>3, <4>1
      <3>5. k \in 1..L /\ k + 1 # 1 /\ (k + 1) - 1 = k
        BY <2>1, <3>2, <3>4
      <3>6. inFlight[k].end = n
        <4>1. inFlight[k].end <= n
          BY <1>7, <2>1, <3>5
        <4>2. j = k \/ inFlight[j].end < inFlight[k].end
          BY <1>1, <3>2, <3>4, <3>5 DEF Flow
        <4> QED BY <1>3, <1>11, <3>2, <3>5, <4>1, <4>2
      <3>7. StartOf(k + 1) = n
        BY <3>5, <3>6 DEF StartOf
      <3>8. StartOf(i)' = n
        BY <1>5, <2>4 DEF StartOf
      <3> QED BY <2>2, <2>3, <2>4, <3>7, <3>8
    <2>5. CASE i # 1
      <3>1. k + i # 1 /\ i - 1 \in 1..(L - k) /\ (k + i) - 1 = k + (i - 1)
        BY <2>1, <2>5
      <3>2. inFlight'[i - 1] = inFlight[k + (i - 1)]
        BY <1>10, <3>1
      <3>3. StartOf(i)' = inFlight'[i - 1].end
        BY <2>5 DEF StartOf
      <3>4. StartOf(k + i) = inFlight[(k + i) - 1].end
        BY <3>1 DEF StartOf
      <3> QED BY <2>2, <2>3, <3>1, <3>2, <3>3, <3>4
    <2> QED BY <2>4, <2>5
  <1> QED BY <1>9, <1>12 DEF Credit

\* A frame is sent only when the window has room for its charge.
LEMMA CreditTaken ==
    ASSUME DeliveryInv, Credit, SendOutput
    PROVE  Credit'
  <1> USE DEF None
  <1> DEFINE L == Len(inFlight)
  <1>1. /\ Shaped /\ Flow /\ Task /\ pc = "loop" /\ ~Waiting /\ applied # None
    BY DEF DeliveryInv, SendOutput, Waiting, Task
  <1>2. /\ inFlight \in Seq([end : Nat, charge : Nat]) /\ L \in Nat
        /\ sent \in Nat /\ next \in Nat /\ applied \in Nat
    BY <1>1 DEF Shaped, StreamTypeOK
  <1>3. PICK to \in (sent + 1)..next :
           /\ FrameCharge(to - sent) <= Available
           /\ charge' = charge + FrameCharge(to - sent)
           /\ inFlight' = Append(inFlight, [end |-> to, charge |-> FrameCharge(to - sent)])
    BY DEF SendOutput
  <1>4. Available > 0 /\ applied' = applied
    BY DEF SendOutput
  <1> DEFINE c == FrameCharge(to - sent)
             e == [end |-> to, charge |-> c]
  <1>5. to \in Nat /\ c \in Nat /\ to <= c + sent
    BY <1>2, DeliveryAssumption DEF FrameCharge, Larger
  <1>6. charge = SumCharges(inFlight) /\ charge \in Nat /\ charge <= Window /\ Window \in Nat
    BY <1>2, ChargesTyped, DeliveryAssumption DEF Credit
  <1>7. charge' = charge + c /\ c <= Available /\ inFlight' = Append(inFlight, e)
        /\ e \in [end : Nat, charge : Nat] /\ e.charge = c /\ e.end = to
    BY <1>3, <1>5
  <1> HIDE DEF c, e
  <1>8. charge' <= Window
    BY <1>4, <1>5, <1>6, <1>7 DEF Available, Larger
  <1>9. charge' = SumCharges(inFlight')
    BY <1>2, <1>6, <1>7, ChargesAppended
  <1>10. /\ Len(inFlight') = L + 1 /\ \A i \in 1..L : inFlight'[i] = inFlight[i]
         /\ inFlight'[L + 1] = e
    BY <1>2, <1>7, Appended
  <1>11. ASSUME NEW i \in 1..Len(inFlight')
         PROVE  inFlight'[i].end <= inFlight'[i].charge + StartOf(i)'
    <2>1. CASE i \in 1..L
      <3>1. i - 1 \in 1..L \/ i = 1
        BY <1>2, <2>1
      <3>2. StartOf(i)' = StartOf(i)
        BY <1>4, <1>10, <3>1 DEF StartOf
      <3> QED BY <1>10, <2>1, <3>2 DEF Credit
    <2>2. CASE i = L + 1
      <3>1. StartOf(i)' = sent
        <4>1. CASE L = 0
          <5>1. applied = sent
            BY <1>1, <1>2, <4>1 DEF Flow
          <5> QED BY <1>4, <2>2, <4>1, <5>1 DEF StartOf
        <4>2. CASE L # 0
          <5>1. L \in 1..L /\ i # 1 /\ i - 1 = L
            BY <1>2, <2>2, <4>2
          <5>2. inFlight[L].end = sent
            BY <1>1, <5>1 DEF Flow
          <5> QED BY <1>10, <5>1, <5>2 DEF StartOf
        <4> QED BY <4>1, <4>2
      <3> QED BY <1>5, <1>7, <1>10, <2>2, <3>1
    <2>3. i \in 1..L \/ i = L + 1
      BY <1>2, <1>10
    <2> QED BY <2>1, <2>2, <2>3
  <1> QED BY <1>8, <1>9, <1>11 DEF Credit

\* With nothing in flight there is nothing to account for.
LEMMA CreditEmpty ==
    ASSUME inFlight' = <<>>, charge' = 0
    PROVE  Credit'
  <1>1. SumCharges(inFlight') = 0
    <2>1. <<>> \in Seq([end : Nat, charge : Nat])
      OBVIOUS
    <2> QED BY <2>1, ChargesTyped
  <1>2. Len(inFlight') = 0 /\ Window \in Nat
    BY DeliveryAssumption
  <1> QED BY <1>1, <1>2 DEF Credit

\* The account is kept by every step.
LEMMA CreditStep == DeliveryInv /\ Credit /\ [Next]_vars => Credit'
  <1> SUFFICES ASSUME DeliveryInv, Credit, [Next]_vars PROVE Credit'
    OBVIOUS
  <1>1. ASSUME UNCHANGED <<inFlight, charge, applied>> PROVE Credit'
    BY <1>1 DEF Credit, SumCharges, StartOf
  <1>2. CASE Terminal
    BY <1>1, <1>2 DEF Terminal, ReadPty, Resize, End, driverVars
  <1>3. CASE Driver
    <2>1. ASSUME NEW incomplete \in BOOLEAN,
                 TakeInitialSnapshot(incomplete) \/ TakeFreshInitialSnapshot(incomplete)
          PROVE  Credit'
      BY <2>1, CreditEmpty DEF TakeInitialSnapshot, TakeFreshInitialSnapshot, Start
    <2>2. ASSUME NEW incomplete \in BOOLEAN, SendFresh(incomplete) \/ SendReplacement(incomplete)
          PROVE  Credit'
      <3>1. inFlight = <<>> /\ UNCHANGED <<inFlight, charge>>
        BY <2>2 DEF SendFresh, SendReplacement, SendCheckpoint, DeliveryInv, Task
      <3>2. charge = 0
        <4>1. inFlight \in Seq([end : Nat, charge : Nat])
          BY DEF DeliveryInv, Shaped
        <4> QED BY <3>1, <4>1, ChargesTyped DEF Credit
      <3> QED BY <3>1, <3>2, CreditEmpty
    <2>3. CASE RefreshInitial \/ RecoverFromLag \/ ProcessEvent \/ ProcessRequestCheckpoint
               \/ FinishHistory \/ SendSessionEnd \/ EnterSend \/ StopSending
      BY <1>1, <2>3 DEF RefreshInitial, RecoverFromLag, ProcessEvent, ProcessRequestCheckpoint,
         FinishHistory, SendSessionEnd, EnterSend, StopSending, ReturnToSelect, driverVars
    <2> QED BY <1>3, <2>1, <2>2, <2>3, CreditReturned, CreditTaken DEF Driver
  <1>4. CASE Client
    BY <1>1, <1>4 DEF Client, ReceiveAttached, Present, ProcessOutput, ProcessCheckpoint,
       ProcessSessionEnded, AcceptAcknowledgement, SendProgress, PresentEnd, deliveryVars, driverVars
  <1>5. ASSUME NEW from \in {None, Cursor}, Connect(from) PROVE Credit'
    BY <1>1, <1>5 DEF Connect, Attach
  <1>6. CASE LoseConnection
    BY <1>6, CreditEmpty DEF LoseConnection, Disconnect, ForgetDriver
  <1>7. CASE RequestCheckpoint \/ UNCHANGED vars
    BY <1>1, <1>7 DEF RequestCheckpoint, vars, deliveryVars, driverVars
  <1> QED BY <1>2, <1>3, <1>4, <1>5, <1>6, <1>7 DEF Next

\* The bytes of sound frames are numbers, and so is their sum.
LEMMA SizesTyped ==
    ASSUME NEW q \in Seq(Frame), \A i \in 1..Len(q) : Sound(q[i])
    PROVE  /\ Len(q) \in Nat /\ SizesOf(q) \in [1..Len(q) -> Nat]
           /\ Bytes(q) = SumFunction(SizesOf(q)) /\ Bytes(q) \in Nat
           /\ \A i \in 1..Len(q) : SizesOf(q)[i] =
                 IF q[i].kind = "output" THEN q[i].to - q[i].from ELSE 0
  <1>0. Len(q) \in Nat
    BY EmptySeq
  <1>1. \A i \in 1..Len(q) : SizesOf(q)[i] = IF q[i].kind = "output" THEN q[i].to - q[i].from ELSE 0
    BY DEF SizesOf
  <1>2. \A i \in 1..Len(q) :
           (IF q[i].kind = "output" THEN q[i].to - q[i].from ELSE 0) \in Nat
    BY DEF Sound
  <1>3. SizesOf(q) \in [1..Len(q) -> Nat]
    BY <1>2 DEF SizesOf
  <1>4. Bytes(q) = SumFunction(SizesOf(q))
    BY DEF Bytes, SizesOf
  <1>5. SumFunction(SizesOf(q)) \in Nat
    BY <1>0, <1>3, SumType
  <1> QED BY <1>0, <1>1, <1>3, <1>4, <1>5

\* Frames of which none is output carry no bytes.
LEMMA NoBytes ==
    ASSUME NEW q \in Seq(Frame), \A i \in 1..Len(q) : Sound(q[i]) /\ q[i].kind # "output"
    PROVE  Bytes(q) = 0
  <1> DEFINE b == [k \in 0..Len(q) |-> 0]
  <1>1. /\ Len(q) \in Nat /\ SizesOf(q) \in [1..Len(q) -> Nat]
        /\ Bytes(q) = SumFunction(SizesOf(q)) /\ Bytes(q) \in Nat
        /\ \A i \in 1..Len(q) : SizesOf(q)[i] =
              IF q[i].kind = "output" THEN q[i].to - q[i].from ELSE 0
    BY SizesTyped
  <1>2. b \in [0..Len(q) -> Nat] /\ b[0] = 0 /\ b[Len(q)] = 0
    BY <1>1
  <1>3. \A k \in 1..Len(q) : b[k - 1] + SizesOf(q)[k] <= b[k]
    <2> TAKE k \in 1..Len(q)
    <2>1. SizesOf(q)[k] = 0
      BY <1>1
    <2>2. b[k - 1] = 0 /\ b[k] = 0
      BY <1>1
    <2> QED BY <2>1, <2>2
  <1> HIDE DEF b
  <1>4. b[0] + SumFunction(SizesOf(q)) <= b[Len(q)]
    BY <1>1, <1>2, <1>3, SumAtMost
  <1> QED BY <1>1, <1>2, <1>4

\* Output whose frames follow one another from p on carries no more bytes than
\* there are between p and where the last frame ends.
LEMMA OutputSpan ==
    ASSUME NEW q \in Seq(Frame), NEW p \in Nat, NEW r \in Nat, p <= r,
           \A i \in 1..Len(q) : Sound(q[i]) /\ q[i].kind = "output" /\ p <= q[i].from /\ q[i].to <= r,
           \A i, j \in 1..Len(q) : i < j => q[i].to <= q[j].from
    PROVE  p + Bytes(q) <= r
  <1> DEFINE b == [k \in 0..Len(q) |-> IF k = 0 THEN p ELSE q[k].to]
  <1>1. /\ Len(q) \in Nat /\ SizesOf(q) \in [1..Len(q) -> Nat]
        /\ Bytes(q) = SumFunction(SizesOf(q)) /\ Bytes(q) \in Nat
        /\ \A i \in 1..Len(q) : SizesOf(q)[i] =
              IF q[i].kind = "output" THEN q[i].to - q[i].from ELSE 0
    BY SizesTyped
  <1>2. \A i \in 1..Len(q) : q[i].from \in Nat /\ q[i].to \in Nat /\ q[i].from < q[i].to
    BY DEF Sound
  <1>3. b \in [0..Len(q) -> Nat] /\ b[0] = p
    BY <1>1, <1>2
  <1>4. b[Len(q)] <= r
    BY <1>1, <1>2
  <1>5. \A k \in 1..Len(q) : b[k - 1] + SizesOf(q)[k] <= b[k]
    <2> TAKE k \in 1..Len(q)
    <2>1. SizesOf(q)[k] = q[k].to - q[k].from
      BY <1>1
    <2>2. k \in Nat /\ k # 0 /\ k \in 0..Len(q) /\ k - 1 \in 0..Len(q)
      BY <1>1
    <2>3. b[k] = q[k].to
      BY <2>2
    <2>4. b[k - 1] <= q[k].from /\ b[k - 1] \in Nat
      <3>1. CASE k = 1
        BY <2>2, <3>1
      <3>2. CASE k # 1
        <4>1. k - 1 \in 1..Len(q) /\ k - 1 < k /\ k - 1 # 0
          BY <2>2, <3>2
        <4>2. b[k - 1] = q[k - 1].to
          BY <2>2, <4>1
        <4>3. q[k - 1].to <= q[k].from
          BY <4>1
        <4> QED BY <1>2, <4>1, <4>2, <4>3
      <3> QED BY <3>1, <3>2
    <2>5. q[k].from \in Nat /\ q[k].to \in Nat
      BY <1>2
    <2> HIDE DEF b
    <2> QED BY <2>1, <2>3, <2>4, <2>5
  <1> HIDE DEF b
  <1>6. b[0] + SumFunction(SizesOf(q)) <= b[Len(q)]
    BY <1>1, <1>3, <1>5, SumAtMost
  <1>7. b[Len(q)] \in Nat
    BY <1>1, <1>3
  <1> QED BY <1>1, <1>3, <1>4, <1>6, <1>7

\* The frames in flight cover what is sent and not acknowledged.
LEMMA CreditCovers ==
    ASSUME DeliveryInv, Credit, ~Waiting, applied # None
    PROVE  sent <= applied + charge
  <1> USE DEF None
  <1> DEFINE L == Len(inFlight)
             b == [k \in 0..L |-> IF k = 0 THEN applied ELSE inFlight[k].end]
  <1>1. Shaped /\ Flow
    BY DEF DeliveryInv
  <1>2. /\ inFlight \in Seq([end : Nat, charge : Nat]) /\ L \in Nat
        /\ sent \in Nat /\ applied \in Nat
    BY <1>1 DEF Shaped
  <1>3. /\ ChargesOf(inFlight) \in [1..L -> Nat] /\ charge \in Nat
        /\ charge = SumFunction(ChargesOf(inFlight))
    BY <1>2, ChargesTyped DEF Credit
  <1>4. \A i \in 1..L : inFlight[i].end \in Nat
    BY <1>1, EndsTyped
  <1>5. b \in [0..L -> Nat] /\ b[0] = applied
    BY <1>2, <1>4
  <1>6. b[L] = sent
    <2>1. CASE L = 0
      <3>1. applied = sent
        BY <1>1, <1>2, <2>1 DEF Flow
      <3> QED BY <2>1, <3>1
    <2>2. CASE L # 0
      <3>1. L \in 1..L
        BY <1>2, <2>2
      <3>2. inFlight[L].end = sent
        BY <1>1, <3>1 DEF Flow
      <3> QED BY <1>2, <2>2, <3>2
    <2> QED BY <2>1, <2>2
  <1>7. \A k \in 1..L : b[k] <= b[k - 1] + ChargesOf(inFlight)[k]
    <2> TAKE k \in 1..L
    <2>1. k \in Nat /\ k # 0 /\ k \in 0..L /\ k - 1 \in 0..L /\ (k = 1 \/ k - 1 # 0)
      BY <1>2
    <2>2. b[k] = inFlight[k].end
      BY <2>1
    <2>3. b[k - 1] = StartOf(k)
      BY <2>1 DEF StartOf
    <2>4. ChargesOf(inFlight)[k] = inFlight[k].charge /\ ChargesOf(inFlight)[k] \in Nat
      BY <1>3 DEF ChargesOf
    <2>5. inFlight[k].end <= inFlight[k].charge + StartOf(k)
      BY DEF Credit
    <2>6. b[k - 1] \in Nat /\ inFlight[k].end \in Nat
      BY <1>4, <1>5, <2>1
    <2> HIDE DEF b
    <2> QED BY <2>2, <2>3, <2>4, <2>5, <2>6
  <1> HIDE DEF b
  <1>8. b[L] <= b[0] + SumFunction(ChargesOf(inFlight))
    BY <1>2, <1>3, <1>5, <1>7, SumAtLeast
  <1> QED BY <1>3, <1>5, <1>6, <1>8

\* Output on the transport carries no more bytes than there are between where
\* it starts and what was sent.
LEMMA TransportSpan ==
    ASSUME DeliveryInv, ~Waiting, applied # None, NEW c \in Nat, c <= sent,
           \A k \in 1..Len(toClient) : toClient[k].kind = "output" => c <= toClient[k].from
    PROVE  c + Bytes(toClient) <= sent
  <1> USE DEF None
  <1> DEFINE L == Len(toClient)
             At(k) == IF k = 0 THEN c
                      ELSE IF toClient[k].kind = "output" THEN toClient[k].to
                      ELSE IF toClient[k].kind = "attached" THEN c ELSE sent
             b == [k \in 0..L |-> At(k)]
  <1>1. Shaped /\ Frames /\ Streaming
    BY DEF DeliveryInv
  <1>2. toClient \in Seq(Frame) /\ L \in Nat /\ sent \in Nat
    BY <1>1 DEF Shaped
  <1>3. \A k \in 1..L : /\ Sound(toClient[k])
                        /\ toClient[k].kind = "attached" => k = 1
                        /\ toClient[k].kind = "ended" => k = L
                        /\ toClient[k].kind = "output" => toClient[k].to <= sent
    BY <1>1 DEF Frames, Pos
  <1>4. \A k \in 1..L : toClient[k].kind \in {"output", "attached", "ended"}
    <2>1. \A k \in 1..L : toClient[k] \in Frame
      BY <1>2, Elements
    <2>2. \A k \in 1..L : toClient[k].kind # "checkpoint"
      BY <1>1 DEF Streaming
    <2> QED BY <2>1, <2>2 DEF Frame
  <1>5. /\ L \in Nat /\ SizesOf(toClient) \in [1..L -> Nat]
        /\ Bytes(toClient) = SumFunction(SizesOf(toClient)) /\ Bytes(toClient) \in Nat
        /\ \A i \in 1..L : SizesOf(toClient)[i] =
              IF toClient[i].kind = "output" THEN toClient[i].to - toClient[i].from ELSE 0
    BY <1>2, <1>3, SizesTyped
  <1>6. \A k \in 1..L : toClient[k].kind = "output" =>
           toClient[k].from \in Nat /\ toClient[k].to \in Nat /\ toClient[k].from < toClient[k].to
    BY <1>3 DEF Sound
  <1>7. \A k \in 0..L : At(k) \in Nat /\ At(k) <= sent
    <2> TAKE k \in 0..L
    <2>1. k = 0 \/ k \in 1..L
      BY <1>2
    <2> QED BY <1>2, <1>3, <1>6, <2>1
  <1>8. \A k \in 1..L : At(k - 1) + SizesOf(toClient)[k] <= At(k)
    <2> TAKE k \in 1..L
    <2>1. k \in Nat /\ k # 0 /\ k - 1 \in 0..L /\ (k = 1 \/ k - 1 \in 1..L)
      BY <1>2
    <2>2. At(k - 1) \in Nat /\ At(k - 1) <= sent
      BY <1>7, <2>1
    <2>3. CASE toClient[k].kind = "output"
      <3>1. At(k) = toClient[k].to
        BY <2>1, <2>3
      <3>2. SizesOf(toClient)[k] = toClient[k].to - toClient[k].from
        BY <1>5, <2>3
      <3>3. At(k - 1) <= toClient[k].from
        <4>1. CASE k = 1
          <5>1. At(k - 1) = c
            BY <4>1
          <5> QED BY <2>3, <5>1
        <4>2. CASE k - 1 \in 1..L
          <5>0. k - 1 # 0 /\ k - 1 < k /\ k - 1 # L
            BY <1>2, <2>1, <4>2
          <5>1. CASE toClient[k - 1].kind = "output"
            <6>1. Pos(toClient[k - 1]) <= toClient[k].from
              BY <1>1, <2>3, <4>2, <5>0 DEF Frames
            <6> QED BY <5>0, <5>1, <6>1 DEF Pos
          <5>2. CASE toClient[k - 1].kind = "attached"
            <6>1. At(k - 1) = c
              BY <5>0, <5>2
            <6> QED BY <2>3, <6>1
          <5>3. toClient[k - 1].kind # "ended"
            BY <1>3, <4>2, <5>0
          <5> QED BY <1>4, <4>2, <5>1, <5>2, <5>3
        <4> QED BY <2>1, <4>1, <4>2
      <3> HIDE DEF At
      <3> QED BY <1>6, <2>2, <2>3, <3>1, <3>2, <3>3
    <2>4. CASE toClient[k].kind = "attached"
      <3>1. k = 1 /\ SizesOf(toClient)[k] = 0
        BY <1>3, <1>5, <2>4
      <3>2. At(k) = c /\ At(k - 1) = c
        BY <2>4, <3>1
      <3> QED BY <3>1, <3>2
    <2>5. CASE toClient[k].kind = "ended"
      <3>1. SizesOf(toClient)[k] = 0 /\ At(k) = sent
        BY <1>5, <2>1, <2>5
      <3> HIDE DEF At
      <3> QED BY <1>2, <2>2, <3>1
    <2> QED BY <1>4, <2>3, <2>4, <2>5
  <1>9. At(0) = c
    OBVIOUS
  <1> HIDE DEF At
  <1>10. b \in [0..L -> Nat] /\ b[0] = c /\ b[L] = At(L) /\ At(L) <= sent /\ At(L) \in Nat
    BY <1>2, <1>7, <1>9
  <1>11. \A k \in 1..L : b[k - 1] + SizesOf(toClient)[k] <= b[k]
    <2> TAKE k \in 1..L
    <2>1. k \in 0..L /\ k - 1 \in 0..L
      BY <1>2
    <2> QED BY <1>8, <2>1
  <1> HIDE DEF b
  <1>12. b[0] + SumFunction(SizesOf(toClient)) <= b[L]
    BY <1>2, <1>5, <1>10, <1>11, SumAtMost
  <1> QED BY <1>2, <1>5, <1>10, <1>12

\* What is queued for the renderer, by its elements.
LEMMA QueuedElements ==
    ASSUME Shaped, Queue
    PROVE  /\ Queued \in Seq(Frame) /\ Len(Queued) \in Nat
           /\ \E o \in {0, 1} : /\ Len(Queued) = Len(ledger) - o
                                /\ \A i \in 1..Len(Queued) :
                                      i + o \in 1..Len(ledger) /\ Queued[i] = ledger[i + o]
  <1>1. ledger \in Seq(Frame) /\ presented \in BOOLEAN
    BY DEF Shaped
  <1>2. CASE presented
    <2>1. ledger # <<>> /\ Queued = Tail(ledger)
      BY <1>2 DEF Queue, Queued
    <2>2. /\ Tail(ledger) \in Seq(Frame) /\ Len(Tail(ledger)) = Len(ledger) - 1
          /\ \A i \in 1..Len(Tail(ledger)) : i + 1 \in 1..Len(ledger) /\ Tail(ledger)[i] = ledger[i + 1]
      BY <1>1, <2>1, Rest
    <2>3. Len(Tail(ledger)) \in Nat
      BY <2>2, EmptySeq
    <2> QED BY <2>1, <2>2, <2>3
  <1>3. CASE ~presented
    <2>1. Queued = ledger /\ Len(ledger) \in Nat
      BY <1>1, <1>3, EmptySeq DEF Queued
    <2>2. Len(Queued) = Len(ledger) - 0
      BY <2>1
    <2>3. \A i \in 1..Len(Queued) : i + 0 \in 1..Len(ledger) /\ Queued[i] = ledger[i + 0]
      BY <2>1
    <2> QED BY <1>1, <2>1, <2>2, <2>3
  <1> QED BY <1>1, <1>2, <1>3

\* Output on the transport and in the queue never exceeds the window.
LEMMA WindowKept ==
    ASSUME DeliveryInv, Credit
    PROVE  Bytes(toClient) + (IF running THEN Bytes(Queued) ELSE 0) <= Window
  <1> USE DEF None
  <1>1. Shaped /\ Task /\ Frames /\ Flow /\ Streaming /\ Replacing /\ Queue
    BY DEF DeliveryInv
  <1>2. /\ toClient \in Seq(Frame) /\ running \in BOOLEAN /\ sent \in Nat /\ received \in Nat
        /\ applied \in Nat \cup {None} /\ ledger \in Seq(Frame) /\ Window \in Nat
    BY <1>1, DeliveryAssumption DEF Shaped
  <1>3. \A k \in 1..Len(toClient) : Sound(toClient[k])
    BY <1>1 DEF Frames
  <1>4. PICK o \in {0, 1} : /\ Len(Queued) = Len(ledger) - o
                            /\ \A i \in 1..Len(Queued) :
                                  i + o \in 1..Len(ledger) /\ Queued[i] = ledger[i + o]
    BY <1>1, QueuedElements
  <1>5. Queued \in Seq(Frame) /\ Len(Queued) \in Nat
    BY <1>1, QueuedElements
  <1>6. \A i \in 1..Len(Queued) : Sound(Queued[i])
    BY <1>1, <1>4 DEF Queue
  <1>7. Bytes(toClient) \in Nat /\ Bytes(Queued) \in Nat
    BY <1>2, <1>3, <1>5, <1>6, SizesTyped
  <1>8. CASE Waiting
    <2>1. toClient = <<>> /\ ~running
      BY <1>1, <1>8 DEF Task
    <2>2. \A k \in 1..Len(toClient) : Sound(toClient[k]) /\ toClient[k].kind # "output"
      BY <2>1
    <2>3. Bytes(toClient) = 0
      BY <1>2, <2>2, NoBytes
    <2> QED BY <1>2, <2>1, <2>3
  <1>9. CASE ~Waiting /\ applied = None
    <2>1. \A k \in 1..Len(toClient) : Sound(toClient[k]) /\ toClient[k].kind # "output"
      BY <1>1, <1>3, <1>9 DEF Replacing
    <2>2. \A k \in 1..Len(ledger) : ledger[k].kind # "output"
      <3> TAKE k \in 1..Len(ledger)
      <3>1. ledger # <<>>
        BY <1>2
      <3>2. Len(ledger) = 1 /\ ledger[1].kind = "checkpoint"
        BY <1>1, <1>9, <3>1 DEF Replacing
      <3>3. k = 1
        BY <3>2
      <3> QED BY <3>2, <3>3
    <2>3. \A k \in 1..Len(Queued) : Sound(Queued[k]) /\ Queued[k].kind # "output"
      BY <1>4, <1>6, <2>2
    <2>4. Bytes(toClient) = 0 /\ Bytes(Queued) = 0
      BY <1>2, <1>5, <2>1, <2>3, NoBytes
    <2> QED BY <1>2, <2>4
  <1>10. CASE ~Waiting /\ applied # None
    <2>1. /\ applied \in Nat /\ applied <= sent
          /\ \A k \in 1..Len(toClient) : toClient[k].kind = "output" => applied <= toClient[k].from
      BY <1>1, <1>2, <1>10 DEF Flow, Streaming, Pending
    <2>2. sent <= applied + charge /\ charge <= Window /\ charge \in Nat
      <3>1. inFlight \in Seq([end : Nat, charge : Nat])
        BY <1>1 DEF Shaped
      <3> QED BY <1>10, <3>1, CreditCovers, ChargesTyped DEF Credit
    <2>3. CASE ~running
      <3>1. applied + Bytes(toClient) <= sent
        BY <1>10, <2>1, TransportSpan
      <3> QED BY <1>2, <1>7, <2>1, <2>2, <2>3, <3>1
    <2>4. CASE running
      <3>1. \A i \in 1..Len(Queued) :
               /\ Queued[i].kind = "output" /\ applied <= Queued[i].from /\ Queued[i].to <= received
               /\ Queued[i].from \in Nat /\ Queued[i].to \in Nat /\ Queued[i].from < Queued[i].to
        <4> TAKE i \in 1..Len(Queued)
        <4>1. i + o \in 1..Len(ledger) /\ Queued[i] = ledger[i + o]
          BY <1>4
        <4>2. /\ ledger[i + o].kind = "output" /\ applied <= ledger[i + o].from
              /\ ledger[i + o].to <= received
          BY <1>1, <1>10, <4>1 DEF Streaming, Pending, Queue
        <4>3. Sound(Queued[i])
          BY <1>6
        <4> QED BY <4>1, <4>2, <4>3 DEF Sound
      <3>2. \A i, j \in 1..Len(Queued) : i < j => Queued[i].to <= Queued[j].from
        <4> TAKE i, j \in 1..Len(Queued)
        <4>1. /\ i + o \in 1..Len(ledger) /\ Queued[i] = ledger[i + o]
              /\ j + o \in 1..Len(ledger) /\ Queued[j] = ledger[j + o]
          BY <1>4
        <4>2. i < j => i + o < j + o
          BY <1>5
        <4> QED BY <1>1, <4>1, <4>2 DEF Queue
      <3>3. CASE Len(Queued) = 0
        <4>0. \A k \in 1..Len(Queued) : Sound(Queued[k]) /\ Queued[k].kind # "output"
          BY <3>3
        <4>1. Bytes(Queued) = 0
          BY <1>5, <4>0, NoBytes
        <4>2. applied + Bytes(toClient) <= sent
          BY <1>10, <2>1, TransportSpan
        <4> QED BY <1>2, <1>7, <2>1, <2>2, <4>1, <4>2
      <3>4. CASE Len(Queued) # 0
        <4>1. 1 \in 1..Len(Queued)
          BY <1>5, <3>4
        <4>2. applied <= received
          BY <1>2, <2>1, <3>1, <4>1
        <4>3. applied + Bytes(Queued) <= received
          BY <1>2, <1>5, <1>6, <2>1, <3>1, <3>2, <4>2, OutputSpan
        <4>4. /\ received <= sent
              /\ \A k \in 1..Len(toClient) : toClient[k].kind = "output" => received <= toClient[k].from
          BY <1>1, <2>4 DEF Frames
        <4>5. received + Bytes(toClient) <= sent
          BY <1>2, <1>10, <4>4, TransportSpan
        <4> QED BY <1>2, <1>7, <2>1, <2>2, <2>4, <4>3, <4>5
      <3> QED BY <3>3, <3>4
    <2> QED BY <1>2, <2>3, <2>4
  <1> QED BY <1>8, <1>9, <1>10

\* The account of the credit agrees with the frames in flight in every state.
THEOREM CreditInvariant == Spec => []Credit
  <1>1. Init => Credit
    <2> SUFFICES ASSUME Init PROVE Credit
      OBVIOUS
    <2>1. inFlight = <<>> /\ charge = 0 /\ Len(inFlight) = 0 /\ Window \in Nat
      BY DeliveryAssumption DEF Init
    <2>2. SumCharges(inFlight) = 0
      <3>1. <<>> \in Seq([end : Nat, charge : Nat])
        OBVIOUS
      <3> QED BY <2>1, <3>1, ChargesTyped
    <2> QED BY <2>1, <2>2 DEF Credit
  <1> QED BY <1>1, CreditStep, DeliveryInvariant, PTL DEF Spec

\* Flow control agrees at both ends.
THEOREM FlowIsControlled == Spec => []FlowControl
  <1>1. DeliveryInv /\ Credit /\ AcknowledgementAccepted => FlowControl
    BY WindowKept DEF FlowControl, Credit
  <1> QED BY <1>1, DeliveryInvariant, CreditInvariant, AcknowledgementsAccepted, PTL

\* What the bounds of the client say.
Bounds ==
    /\ Len(ledger) <= QueueCapacity
    /\ connections \in 0..MaxConnections /\ requests \in 0..MaxRequests

\* The ledger never holds more than the queue of the renderer has room for.
LEMMA BoundsStep == DeliveryInv /\ Bounds /\ [Next]_vars => Bounds'
  <1> SUFFICES ASSUME DeliveryInv, Bounds, [Next]_vars PROVE Bounds'
    OBVIOUS
  <1>0. /\ ledger \in Seq(Frame) /\ toClient \in Seq(Frame) /\ Len(ledger) \in Nat
        /\ QueueCapacity \in Nat \ {0} /\ MaxConnections \in Nat /\ MaxRequests \in Nat
    BY ControllerAssumption DEF DeliveryInv, Shaped
  <1>1. ASSUME UNCHANGED <<connections, requests>>, Len(ledger') <= QueueCapacity PROVE Bounds'
    BY <1>1 DEF Bounds
  <1>2. CASE (Terminal \/ Driver) /\ UNCHANGED clientVars
    BY <1>1, <1>2 DEF clientVars, controllerVars, userVars, Bounds
  <1>3. CASE Client
    <2>1. UNCHANGED <<connections, requests>>
      BY <1>3 DEF Client, ReceiveAttached, Present, ProcessOutput, ProcessCheckpoint,
         ProcessSessionEnded, AcceptAcknowledgement, SendProgress, PresentEnd, userVars
    <2>2. ASSUME ledger # <<>> PROVE Len(Tail(ledger)) <= QueueCapacity
      <3>1. Len(Tail(ledger)) = Len(ledger) - 1
        BY <1>0, <2>2, Rest
      <3> QED BY <1>0, <3>1 DEF Bounds
    <2>3. ASSUME NEW compatible \in BOOLEAN, ReceiveAttached(compatible)
          PROVE  Len(ledger') <= QueueCapacity
      <3>1. \/ ledger' = <<>>
            \/ ledger' = <<Replace([seq |-> Head(toClient).to, rev |-> Head(toClient).rev])>>
        BY <2>3 DEF ReceiveAttached
      <3>2. Len(ledger') = 0 \/ Len(ledger') = 1
        BY <3>1
      <3>3. 0 <= QueueCapacity /\ 1 <= QueueCapacity
        BY <1>0
      <3> QED BY <3>2, <3>3
    <2>4. ASSUME NEW compatible \in BOOLEAN, Present(compatible)
          PROVE  Len(ledger') <= QueueCapacity
      BY <2>2, <2>4 DEF Present, Bounds
    <2>5. ASSUME ProcessOutput \/ ProcessCheckpoint PROVE Len(ledger') <= QueueCapacity
      <3>1. /\ Len(ledger) < QueueCapacity /\ toClient # <<>>
            /\ ledger' = Append(ledger, Head(toClient))
        BY <2>5 DEF ProcessOutput, ProcessCheckpoint, TakesFrame
      <3>2. Head(toClient) \in Frame
        BY <1>0, <3>1, Rest
      <3>3. Len(ledger') = Len(ledger) + 1
        BY <1>0, <3>1, <3>2, Appended
      <3> QED BY <1>0, <3>1, <3>3
    <2>6. ASSUME ProcessSessionEnded PROVE Len(ledger') <= QueueCapacity
      <3>1. ledger' = <<>> \/ ledger' = ledger \/ (ledger # <<>> /\ ledger' = Tail(ledger))
        BY <2>6 DEF ProcessSessionEnded, Queued, DeliveryInv, Queue
      <3>2. Len(<<>>) = 0
        OBVIOUS
      <3> QED BY <1>0, <2>2, <3>1, <3>2 DEF Bounds
    <2>7. ASSUME AcceptAcknowledgement PROVE Len(ledger') <= QueueCapacity
      <3>1. ledger # <<>> /\ ledger' = Tail(ledger)
        BY <2>7 DEF AcceptAcknowledgement, DeliveryInv, Queue
      <3> QED BY <2>2, <3>1
    <2>8. ASSUME SendProgress \/ PresentEnd PROVE Len(ledger') <= QueueCapacity
      BY <2>8 DEF SendProgress, PresentEnd, controllerVars, Bounds
    <2> QED BY <1>1, <1>3, <2>1, <2>3, <2>4, <2>5, <2>6, <2>7, <2>8 DEF Client
  <1>4. ASSUME NEW from \in {None, Cursor}, Connect(from) PROVE Bounds'
    <2>1. ledger' = ledger /\ requests' = requests /\ connections' = connections + 1
          /\ connections < MaxConnections
      BY <1>4 DEF Connect, controllerVars
    <2> QED BY <1>0, <2>1 DEF Bounds
  <1>5. CASE LoseConnection
    <2>1. UNCHANGED <<connections, requests>> /\ (ledger' = ledger \/ ledger' = <<>>)
      BY <1>5 DEF LoseConnection, userVars
    <2>2. Len(<<>>) = 0
      OBVIOUS
    <2> QED BY <1>0, <1>1, <2>1, <2>2 DEF Bounds
  <1>6. CASE RequestCheckpoint
    <2>1. ledger' = ledger /\ connections' = connections /\ requests' = requests + 1
          /\ requests < MaxRequests
      BY <1>6 DEF RequestCheckpoint, controllerVars
    <2> QED BY <1>0, <2>1 DEF Bounds
  <1>7. CASE UNCHANGED vars
    BY <1>1, <1>7 DEF vars, clientVars, controllerVars, userVars, Bounds
  <1> QED BY <1>2, <1>3, <1>4, <1>5, <1>6, <1>7 DEF Next

\* Every state of the attachment has the declared types, the account of the
\* credit and the room of the ledger included.
THEOREM DeliveryTypeCorrect == Spec => []TypeOK
  <1>1. Init => Bounds
    BY ControllerAssumption DEF Init, Bounds
  <1>2. Spec => []Bounds
    BY <1>1, BoundsStep, DeliveryInvariant, PTL DEF Spec
  <1>3. DeliveryInv /\ Credit /\ Bounds => TypeOK
    <2> SUFFICES ASSUME DeliveryInv, Credit, Bounds PROVE TypeOK
      OBVIOUS
    <2>1. Shaped /\ Queue
      BY DEF DeliveryInv
    <2>2. charge \in Nat
      <3>1. inFlight \in Seq([end : Nat, charge : Nat])
        BY <2>1 DEF Shaped
      <3> QED BY <3>1, ChargesTyped DEF Credit
    <2>3. DeliveryTypeOK
      BY <2>1, <2>2 DEF DeliveryTypeOK, Shaped
    <2>4. presented => ledger # <<>>
      BY <2>1 DEF Queue
    <2> QED BY <2>1, <2>3, <2>4 DEF TypeOK, Shaped, Bounds
  <1> QED BY <1>2, <1>3, DeliveryInvariant, CreditInvariant, PTL
=============================================================================
