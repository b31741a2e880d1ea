------------------------ MODULE HostConnectionProofs ------------------------
(***************************************************************************)
(* Proofs about HostConnection, for every set of clients, whatever each of  *)
(* them asks for: that a disconnect is final, that no master is lost or     *)
(* taken from somebody else, and that a connect that is answered is         *)
(* complete.                                                                *)
(***************************************************************************)
EXTENDS HostConnection, TLAPS

(***************************************************************************)
(* The inductive invariant.                                                 *)
(***************************************************************************)
\* The phases of a connect that has the lock of the host, and those of a
\* request that has the mutex of the forwards.
Established == {"resumed", "inspect", "attach", "start", "waiting", "saving", "activate",
                "publish", "replying"}
Admitted == Established \cup {"admitted", "cleanup"}
Working == Admitted \cup {"releasing"}
Configuring == {"changing", "cancelling", "adding"}

Request == [kind : Kind \cup {None}, phase : Phase, gen : Nat, auth : Nat, pending : BOOLEAN,
            pinned : Master \cup {None}, reply : {None, "ok", "error"}]

\* HostTypeOK without the queue.
RequestsTyped ==
    /\ generation \in Nat /\ authorization \in Nat /\ paused \in BOOLEAN /\ blocked \in BOOLEAN
    /\ req \in [Client -> Request] /\ forwards \in Client \cup {None}

MastersTyped ==
    /\ master \in [Master -> {"none", "starting", "up", "gone"}]
    /\ socket \in Master \cup {None} /\ lease \in Master \cup {None}
    /\ listening \in Master \cup {None}

RulesTyped ==
    /\ rule \in {"none", "waiting", "active", "error"} /\ present \in BOOLEAN /\ held \in BOOLEAN
    /\ consents \in 0 .. MaxConsents
    /\ deaths \in Nat /\ failures \in Nat /\ deaths + failures <= MaxFaults

StateTyped == RequestsTyped /\ MastersTyped /\ RulesTyped

\* The phases of a request are those of its kind, and what it has noted is of
\* the past.
Kinds ==
    \A c \in Client :
        /\ req[c].phase \in Admitted => req[c].kind \in Connects
        /\ req[c].phase \in {"pausing", "releasing"} => req[c].kind = "disconnect"
        /\ req[c].phase \in Configuring => req[c].kind \in {"enable", "disable"}
        /\ req[c].phase = "new" => req[c].kind = None /\ req[c].reply = None
        /\ req[c].kind = "disconnect" /\ req[c].reply = "ok" => req[c].phase = "done"
        /\ req[c].gen <= generation

\* Nobody queues twice, and those who work have the lock.
Queued(c) == \E n \in DOMAIN queue : queue[n] = c
Distinct == \A m, n \in DOMAIN queue : queue[m] = queue[n] => m = n

Locked ==
    /\ Distinct
    /\ \A c \in Client : Queued(c) =>
         /\ req[c].phase \in Working \cup {"queued"}
         /\ req[c].kind \in Connects \cup {"disconnect"}
    /\ \A c \in Client : req[c].phase \in Working => Holds(c)

\* The mutex of the forwards.
ForwardsHeld == \A c \in Client : forwards = c <=> req[c].phase \in Configuring

\* A process that starts belongs to the connect that waits for it; there is no
\* socket then, and none when a process is about to be started.
Pending ==
    /\ \A c \in Client :
         /\ req[c].phase \in {"waiting", "saving", "cleanup"} => req[c].pending
         /\ req[c].pending =>
              req[c].phase \in {"waiting", "saving", "activate", "publish", "cleanup"}
         /\ master[c] = "starting" => req[c].phase = "waiting"
         /\ req[c].phase = "start" \/ master[c] = "starting" => socket = None /\ ~present
    /\ master[Old] # "starting"

\* The socket is that of a connect that has come so far; a master that is up
\* has it.
Sockets ==
    /\ \A c \in Client : socket = c =>
         req[c].phase \in {"waiting", "saving", "activate", "publish", "replying", "cleanup", "done"}
    /\ \A m \in Master : master[m] = "up" => socket = m

\* What a lease or somebody else's connect has pinned is published.
Pins ==
    \A m \in Client :
        lease = m \/ (\E d \in Client \ {m} : req[d].pinned = m) => req[m].phase \in {"replying", "done"}

\* The master of the control path is pinned once its connect has found it.
Pinned ==
    \A c \in Client : socket # None =>
        /\ req[c].phase \in {"saving", "activate", "publish"} =>
             IF req[c].pinned # None THEN req[c].pinned = socket ELSE lease = socket
        /\ req[c].phase = "replying" => lease = socket
\* A disconnect that has the lock has released the lease.
Released == \A c \in Client : req[c].phase = "releasing" => lease = None

\* A connect of the current generation finds the host neither paused nor held.
Resumed ==
    \A c \in Client : req[c].gen = generation =>
        /\ req[c].phase \in Established => ~paused
        /\ req[c].phase \in Established \ {"resumed"} => ~held

\* The listener is in a master that is up, and in the one of the control path
\* unless a configure has just cancelled it.
Listener ==
    /\ listening # None => master[listening] = "up"
    /\ rule = "active" => present
    /\ present /\ Live /\ (\A e \in Client : req[e].phase # "adding") => listening = socket

\* A forward that waits although its listener is there: a command failed, or a
\* configure of a paused host is about to take the listener away.
Forwarded ==
    /\ present /\ Live /\ rule \in {"waiting", "error"} => failures > 0 \/ (held /\ forwards # None)
    /\ \A c \in Client :
         /\ req[c].phase \in {"publish", "replying"} /\ req[c].gen = generation
         /\ Live /\ rule \in {"waiting", "error"}
         => failures > 0

Newer == \E c \in Client : req[c].kind = "connect" /\ req[c].gen = generation

\* After the latest disconnect has come, and before a newer connect has, the
\* host is paused and no quiet connect gets in.
Paused ==
    (\E d \in Client : req[d].kind = "disconnect" /\ req[d].gen = generation) /\ ~Newer =>
        /\ paused
        /\ \A c \in Client : req[c].kind = "quiet" /\ req[c].gen = generation =>
             req[c].phase \in {"queued", "admitted", "done"}

\* Once it is answered nothing is left of earlier connects, and those that
\* still wait will be refused.
Final ==
    (\E d \in Client : req[d].kind = "disconnect" /\ req[d].gen = generation /\ req[d].reply = "ok")
    /\ ~Newer =>
        /\ held /\ lease = None /\ listening = None
        /\ \A m \in Master : master[m] \notin {"starting", "up"}
        /\ \A c \in Client : req[c].phase \notin Admitted \ {"admitted"}

HostInv ==
    /\ StateTyped /\ queue \in Seq(Client) /\ Kinds /\ Locked /\ ForwardsHeld
    /\ Pending /\ Sockets /\ Pins /\ Pinned /\ Released
    /\ Resumed /\ Listener /\ Forwarded /\ Paused /\ Final

(***************************************************************************)
(* The queue.                                                               *)
(***************************************************************************)
\* Whoever comes takes the last place.
LEMMA JoinStep ==
    ASSUME queue \in Seq(Client), Distinct, NEW c \in Client, ~Queued(c), queue' = Append(queue, c)
    PROVE  /\ queue' \in Seq(Client) /\ Distinct'
           /\ \A d : Queued(d)' <=> Queued(d) \/ d = c
           /\ \A d : Holds(d) => Holds(d)'
<1>1. /\ queue' \in Seq(Client) /\ Len(queue') = Len(queue) + 1
      /\ \A n \in 1 .. Len(queue) : queue'[n] = queue[n]
      /\ queue'[Len(queue) + 1] = c
  OBVIOUS
<1>2. Distinct'
  BY <1>1 DEF Distinct, Queued
<1>3. \A d : Queued(d)' <=> Queued(d) \/ d = c
  BY <1>1 DEF Queued
<1>4. \A d : Holds(d) => Holds(d)'
  BY <1>1 DEF Holds
<1> QED BY <1>1, <1>2, <1>3, <1>4

\* Whoever leaves, from any place, is gone; nobody else loses the lock.
LEMMA LeaveStep ==
    ASSUME queue \in Seq(Client), Distinct, NEW c \in Client, queue' = Left(c)
    PROVE  /\ queue' \in Seq(Client) /\ Distinct'
           /\ \A d : Queued(d)' <=> Queued(d) /\ d # c
           /\ \A d \in Client : d # c /\ Holds(d) => Holds(d)'
<1>1. CASE ~Queued(c)
  <2>1. queue' = queue
    BY <1>1 DEF Left, Queued
  <2> QED BY <1>1, <2>1 DEF Distinct, Queued, Holds
<1>2. CASE Queued(c)
  <2> DEFINE n == CHOOSE i \in DOMAIN queue : queue[i] = c
  <2>1. n \in 1 .. Len(queue) /\ queue[n] = c
    BY <1>2 DEF Queued
  <2>2. queue' = [i \in 1 .. Len(queue) - 1 |-> IF i < n THEN queue[i] ELSE queue[i + 1]]
    BY <1>2 DEF Left, Queued
  <2> HIDE DEF n
  <2>3. Len(queue) \in Nat
    OBVIOUS
  <2>4. /\ queue' \in Seq(Client) /\ Len(queue') = Len(queue) - 1
        /\ \A i \in 1 .. Len(queue) - 1 : queue'[i] = IF i < n THEN queue[i] ELSE queue[i + 1]
    <3>1. \A i \in 1 .. Len(queue) - 1 : (IF i < n THEN queue[i] ELSE queue[i + 1]) \in Client
      BY <2>1, <2>3
    <3>2. Len(queue) - 1 \in Nat
      BY <2>1, <2>3
    <3> QED BY <2>2, <3>1, <3>2
  <2>5. Distinct'
    <3> SUFFICES ASSUME NEW i \in 1 .. Len(queue) - 1, NEW j \in 1 .. Len(queue) - 1,
                        queue'[i] = queue'[j]
                 PROVE  i = j
      BY <2>4 DEF Distinct
    <3>1. \A x, y \in 1 .. Len(queue) : queue[x] = queue[y] => x = y
      BY DEF Distinct
    <3>2. /\ i \in 1 .. Len(queue) /\ i + 1 \in 1 .. Len(queue)
          /\ j \in 1 .. Len(queue) /\ j + 1 \in 1 .. Len(queue)
      BY <2>3
    <3> HIDE DEF Distinct
    <3>3. CASE i < n /\ j < n
      BY <2>4, <3>1, <3>2, <3>3
    <3>4. CASE i < n /\ ~(j < n)
      <4>1. i = j + 1
        BY <2>4, <3>1, <3>2, <3>4
      <4> QED BY <2>1, <2>3, <3>4, <4>1
    <3>5. CASE ~(i < n) /\ j < n
      <4>1. i + 1 = j
        BY <2>4, <3>1, <3>2, <3>5
      <4> QED BY <2>1, <2>3, <3>5, <4>1
    <3>6. CASE ~(i < n) /\ ~(j < n)
      <4>1. i + 1 = j + 1
        BY <2>4, <3>1, <3>2, <3>6
      <4> QED BY <4>1
    <3> QED BY <3>3, <3>4, <3>5, <3>6
  <2>6. \A d : Queued(d)' <=> Queued(d) /\ d # c
    <3>1. ASSUME NEW d, Queued(d)' PROVE Queued(d) /\ d # c
      <4>1. PICK i \in 1 .. Len(queue) - 1 : queue'[i] = d
        BY <3>1, <2>4 DEF Queued
      <4>2. CASE i < n
        <5>1. i \in 1 .. Len(queue) /\ queue[i] = d /\ i # n
          BY <4>1, <4>2, <2>1, <2>3, <2>4
        <5> QED BY <5>1, <2>1 DEF Queued, Distinct
      <4>3. CASE ~(i < n)
        <5>1. i + 1 \in 1 .. Len(queue) /\ queue[i + 1] = d /\ i + 1 # n
          BY <4>1, <4>3, <2>1, <2>4
        <5> QED BY <5>1, <2>1 DEF Queued, Distinct
      <4> QED BY <4>2, <4>3
    <3>2. ASSUME NEW d, Queued(d), d # c PROVE Queued(d)'
      <4>1. PICK i \in 1 .. Len(queue) : queue[i] = d
        BY <3>2 DEF Queued
      <4>2. CASE i < n
        BY <4>1, <4>2, <2>1, <2>3, <2>4 DEF Queued
      <4>3. CASE i > n
        <5>1. i - 1 \in 1 .. Len(queue) - 1 /\ ~(i - 1 < n) /\ queue'[i - 1] = d
          BY <4>1, <4>3, <2>1, <2>3, <2>4
        <5> QED BY <5>1, <2>4 DEF Queued
      <4> QED BY <4>1, <4>2, <4>3, <3>2, <2>1
    <3> QED BY <3>1, <3>2
  <2>7. ASSUME NEW d \in Client, d # c, Holds(d) PROVE Holds(d)'
    <3>1. queue # <<>> /\ queue[1] = d /\ n # 1 /\ Len(queue) >= 2
      BY <2>7, <2>1 DEF Holds
    <3>2. 1 \in 1 .. Len(queue) - 1 /\ 1 < n
      BY <3>1, <2>1
    <3>3. queue'[1] = d
      BY <3>1, <3>2, <2>4
    <3> QED BY <3>2, <3>3, <2>4 DEF Holds
  <2> QED BY <2>4, <2>5, <2>6, <2>7
<1> QED BY <1>1, <1>2

\* Nobody comes or leaves.
LEMMA SameQueue ==
    ASSUME queue' = queue
    PROVE  /\ Distinct' <=> Distinct
           /\ \A d : Queued(d)' <=> Queued(d)
           /\ \A d : Holds(d)' <=> Holds(d)
BY DEF Distinct, Queued, Holds

\* Every action of HostNext, one by one.
LEMMA HostCases ==
    ASSUME [HostNext]_hostVars
    PROVE  \/ \E c \in Client, k \in Kind : Arrive(c, k)
           \/ \E c \in Client :
                \/ Acquire(c) \/ Enqueue(c) \/ BeginDisconnect(c) \/ Cancel(c) \/ Close(c)
                \/ Resume(c) \/ Attach(c) \/ Start(c) \/ FindReady(c) \/ Publish(c)
                \/ ReplyReady(c) \/ Cleanup(c) \/ Configure(c) \/ CancelForward(c)
                \/ AddForward(c) \/ ResumeForwards(c) \/ Inspect(c) \/ Activate(c)
                \/ EndDisconnect(c) \/ BeginConfigure(c) \/ Authenticate(c) \/ StartFails(c)
                \/ WaitFails(c) \/ Save(c)
           \/ \E m \in Master : MasterDies(m)
           \/ Consent
           \/ UNCHANGED hostVars
BY DEF HostNext, Wait, Work

(***************************************************************************)
(* What a step does to a request, the locks, the masters and the forward.   *)
(***************************************************************************)
\* The request of c goes on to p; it keeps what it has noted.
Goes(c, p) ==
    /\ req' \in [Client -> Request]
    /\ \A d \in Client \ {c} : req'[d] = req[d]
    /\ req'[c].phase = p /\ req'[c].kind = req[c].kind /\ req'[c].gen = req[c].gen

Keeps(c) ==
    /\ req'[c].pending = req[c].pending /\ req'[c].pinned = req[c].pinned
    /\ req'[c].reply = req[c].reply

\* It is answered and gives up what it has.
Answered(c, answer) ==
    /\ Goes(c, "done")
    /\ req'[c].pending = req[c].pending /\ req'[c].pinned = None /\ req'[c].reply = answer
    /\ queue' = Left(c) /\ forwards' = Unless(forwards, c)

\* Master m is gone; its socket may stay.
Ends(m) ==
    /\ \A d \in Master : master'[d] = IF d = m THEN "gone" ELSE master[d]
    /\ socket' \in {socket, IF socket = m THEN None ELSE socket}
    /\ listening' = Unless(listening, m)

\* What an answer does to the requests.
LEMMA ReplyStep ==
    ASSUME req \in [Client -> Request], forwards \in Client \cup {None},
           NEW c \in Client, NEW answer \in {"ok", "error"}, Reply(c, answer)
    PROVE  /\ req' \in [Client -> Request] /\ forwards' \in Client \cup {None}
           /\ forwards' = Unless(forwards, c) /\ queue' = Left(c)
           /\ \A d \in Client \ {c} : req'[d] = req[d]
           /\ req'[c].phase = "done" /\ req'[c].kind = req[c].kind /\ req'[c].gen = req[c].gen
           /\ req'[c].pending = req[c].pending /\ req'[c].pinned = None
           /\ req'[c].reply = answer
<1>1. "done" \in Phase /\ 0 \in Nat
  BY DEF Phase
<1> DEFINE r == [req[c] EXCEPT !.phase = "done", !.reply = answer, !.pinned = None, !.auth = 0]
<1>2. req[c] \in Request
  OBVIOUS
<1>3. /\ r \in Request /\ r.phase = "done" /\ r.kind = req[c].kind /\ r.gen = req[c].gen
      /\ r.pending = req[c].pending /\ r.pinned = None /\ r.reply = answer
  BY <1>1, <1>2 DEF Request
<1>4. req' = [req EXCEPT ![c] = r]
  BY DEF Reply
<1>5. forwards' = Unless(forwards, c) /\ queue' = Left(c) /\ forwards' \in Client \cup {None}
  BY DEF Reply, Unless
<1> HIDE DEF r
<1> QED BY <1>3, <1>4, <1>5

\* The phases that a request goes on to.
LEMMA PhaseNames ==
    {"queued", "admitted", "inspect", "attach", "start", "activate", "publish", "replying",
     "saving", "resumed", "releasing", "changing", "cancelling", "adding"} \subseteq Phase
BY DEF Phase

\* A request that only moves on.
LEMMA PhaseStep ==
    ASSUME req \in [Client -> Request], NEW c \in Client, NEW p \in Phase,
           req' = [req EXCEPT ![c].phase = p]
    PROVE  /\ req' \in [Client -> Request]
           /\ \A d \in Client \ {c} : req'[d] = req[d]
           /\ req'[c].phase = p /\ req'[c].kind = req[c].kind /\ req'[c].gen = req[c].gen
           /\ req'[c].pending = req[c].pending /\ req'[c].pinned = req[c].pinned
           /\ req'[c].reply = req[c].reply
BY DEF Request

\* A request that arrives.
ArriveEffect(c, k) ==
    /\ req[c].phase = "new"
    /\ req' \in [Client -> Request]
    /\ \A d \in Client \ {c} : req'[d] = req[d]
    /\ req'[c].kind = k
    /\ req'[c].phase = IF k = "disconnect" THEN "pausing" ELSE "queued"
    /\ req'[c].gen = IF k \in {"enable", "disable"} THEN 0 ELSE generation'
    /\ req'[c].pending = req[c].pending
    /\ req'[c].pinned = req[c].pinned /\ req'[c].reply = req[c].reply
    /\ generation' = IF k = "disconnect" THEN generation + 1 ELSE generation
    /\ paused' = (k = "disconnect" \/ paused)
    /\ queue' = IF k \in Connects THEN Append(queue, c) ELSE queue
    /\ UNCHANGED <<forwards, master, socket, lease, rule, present, held, listening, failures>>

\* Arrive has that effect.
LEMMA ArriveStep ==
    ASSUME StateTyped, NEW c \in Client, NEW k \in Kind, Arrive(c, k)
    PROVE  ArriveEffect(c, k)
<1> DEFINE p == IF k = "disconnect" THEN "pausing" ELSE "queued"
           g == IF k \in {"enable", "disable"} THEN 0 ELSE generation'
           a == IF k \in Connects THEN authorization ELSE 0
           r == [req[c] EXCEPT !.kind = k, !.phase = p, !.gen = g, !.auth = a]
<1>1. p \in Phase /\ g \in Nat /\ a \in Nat
  BY DEF Arrive, Phase, StateTyped, RequestsTyped
<1>2. req' = [req EXCEPT ![c] = r]
  BY DEF Arrive
<1>3. req[c] \in Request /\ req \in [Client -> Request]
  BY DEF StateTyped, RequestsTyped
<1>8. /\ req[c].phase = "new"
      /\ generation' = IF k = "disconnect" THEN generation + 1 ELSE generation
      /\ paused' = (k = "disconnect" \/ paused)
      /\ queue' = IF k \in Connects THEN Append(queue, c) ELSE queue
      /\ UNCHANGED <<forwards, master, socket, lease, rule, present, held, listening, failures>>
  BY DEF Arrive, ssh, rules, bounds
<1> HIDE DEF p, g, a
<1>4. r \in Request
  BY <1>1, <1>3 DEF Request
<1>5. /\ r.kind = k /\ r.phase = p /\ r.gen = g /\ r.pending = req[c].pending
      /\ r.pinned = req[c].pinned /\ r.reply = req[c].reply
  BY <1>3 DEF Request
<1> HIDE DEF r
<1>6. req' \in [Client -> Request] /\ req'[c] = r
  BY <1>2, <1>3, <1>4
<1>7. \A d \in Client \ {c} : req'[d] = req[d]
  BY <1>2, <1>3
<1> QED BY <1>5, <1>6, <1>7, <1>8 DEF p, g, ArriveEffect

\* A connect that resumes the host; the disjunct of Resume.
Resumes(c) ==
    /\ req[c].kind = "connect" /\ req[c].gen = generation
    /\ req' = [req EXCEPT ![c].phase = "resumed", ![c].auth = authorization + 1]

\* It is neither paused nor blocked then.
LEMMA ResumesStep ==
    ASSUME StateTyped, NEW c \in Client, Resumes(c)
    PROVE  /\ req[c].kind = "connect" /\ req[c].gen = generation
           /\ Goes(c, "resumed") /\ req'[c].pending = req[c].pending
           /\ req'[c].pinned = req[c].pinned /\ req'[c].reply = req[c].reply
<1> DEFINE r == [req[c] EXCEPT !.phase = "resumed", !.auth = authorization + 1]
<1>1. req[c] \in Request /\ req \in [Client -> Request]
  BY DEF StateTyped, RequestsTyped
<1>2. r \in Request
  <2>1. authorization + 1 \in Nat
    BY DEF StateTyped, RequestsTyped
  <2> QED BY <1>1, <2>1, HostAssumption DEF Request, Phase
<1>3. /\ r.kind = req[c].kind /\ r.phase = "resumed"
      /\ r.gen = req[c].gen /\ r.pending = req[c].pending
      /\ r.pinned = req[c].pinned /\ r.reply = req[c].reply
  BY <1>1 DEF Request
<1>4. req' = [req EXCEPT ![c] = r]
  BY DEF Resumes
<1>5. /\ req[c].kind = "connect" /\ req[c].gen = generation
  BY DEF Resumes, revision, mutexes, ssh, rules, bounds
<1> HIDE DEF r
<1>6. req' \in [Client -> Request] /\ req'[c] = r
  BY <1>1, <1>2, <1>4
<1>7. \A d \in Client \ {c} : req'[d] = req[d]
  BY <1>1, <1>4
<1> QED BY <1>3, <1>5, <1>6, <1>7 DEF Goes

\* A connect that has found a master; the alternative of Attach.
Attaches(c) ==
    req' = [req EXCEPT ![c].phase = "activate", ![c].pinned = Unless(socket, lease)]

\* It is pinned unless the lease is for it.
LEMMA AttachesStep ==
    ASSUME StateTyped, NEW c \in Client, Attaches(c)
    PROVE  /\ Goes(c, "activate") /\ req'[c].pending = req[c].pending
           /\ req'[c].pinned = Unless(socket, lease) /\ req'[c].reply = req[c].reply
<1> DEFINE r == [req[c] EXCEPT !.phase = "activate", !.pinned = Unless(socket, lease)]
<1>1. req[c] \in Request /\ req \in [Client -> Request]
  BY DEF StateTyped, RequestsTyped
<1>2. r \in Request
  BY <1>1, HostAssumption DEF Request, Phase, StateTyped, MastersTyped, Unless
<1>3. /\ r.kind = req[c].kind /\ r.phase = "activate"
      /\ r.gen = req[c].gen /\ r.pending = req[c].pending
      /\ r.pinned = Unless(socket, lease) /\ r.reply = req[c].reply
  BY <1>1 DEF Request
<1>4. req' = [req EXCEPT ![c] = r]
  BY DEF Attaches
<1> HIDE DEF r
<1>6. req' \in [Client -> Request] /\ req'[c] = r
  BY <1>1, <1>2, <1>4
<1>7. \A d \in Client \ {c} : req'[d] = req[d]
  BY <1>1, <1>4
<1> QED BY <1>3, <1>6, <1>7 DEF Goes

\* A connect that starts a process; the alternative of Start.
Starts(c) == req' = [req EXCEPT ![c].phase = "waiting", ![c].pending = TRUE]

\* It is pending then.
LEMMA StartsStep ==
    ASSUME StateTyped, NEW c \in Client, Starts(c)
    PROVE  /\ Goes(c, "waiting") /\ req'[c].pending = TRUE
           /\ req'[c].pinned = req[c].pinned /\ req'[c].reply = req[c].reply
<1> DEFINE r == [req[c] EXCEPT !.phase = "waiting", !.pending = TRUE]
<1>1. req[c] \in Request /\ req \in [Client -> Request]
  BY DEF StateTyped, RequestsTyped
<1>2. r \in Request
  BY <1>1, HostAssumption DEF Request, Phase
<1>3. /\ r.kind = req[c].kind /\ r.phase = "waiting"
      /\ r.gen = req[c].gen /\ r.pending = TRUE
      /\ r.pinned = req[c].pinned /\ r.reply = req[c].reply
  BY <1>1 DEF Request
<1>4. req' = [req EXCEPT ![c] = r]
  BY DEF Starts
<1> HIDE DEF r
<1>6. req' \in [Client -> Request] /\ req'[c] = r
  BY <1>1, <1>2, <1>4
<1>7. \A d \in Client \ {c} : req'[d] = req[d]
  BY <1>1, <1>4
<1> QED BY <1>3, <1>6, <1>7 DEF Goes

\* A connect that has found its master.
FindReadyEffect(c) ==
    /\ req[c].phase = "waiting" /\ socket = c /\ Live
    /\ Goes(c, "saving") /\ req'[c].pending = req[c].pending
    /\ req'[c].pinned = c /\ req'[c].reply = req[c].reply
    /\ UNCHANGED <<generation, paused, queue, forwards, master, socket, lease, rule, present, held, listening,
                   failures>>

\* FindReady has that effect.
LEMMA FindStep ==
    ASSUME StateTyped, NEW c \in Client, FindReady(c)
    PROVE  FindReadyEffect(c)
<1> DEFINE r == [req[c] EXCEPT !.phase = "saving", !.pinned = c]
<1>1. req[c] \in Request /\ req \in [Client -> Request]
  BY DEF StateTyped, RequestsTyped
<1>2. r \in Request
  BY <1>1, HostAssumption DEF Request, Phase, Master
<1>3. /\ r.kind = req[c].kind /\ r.phase = "saving"
      /\ r.gen = req[c].gen /\ r.pending = req[c].pending
      /\ r.pinned = c /\ r.reply = req[c].reply
  BY <1>1 DEF Request
<1>4. req' = [req EXCEPT ![c] = r]
  BY DEF FindReady
<1>5. /\ req[c].phase = "waiting" /\ socket = c /\ Live
      /\ UNCHANGED <<generation, paused, queue, forwards, master, socket, lease, rule, present, held, listening,
                     failures>>
  BY DEF FindReady, revision, mutexes, ssh, rules, bounds
<1> HIDE DEF r
<1>6. req' \in [Client -> Request] /\ req'[c] = r
  BY <1>1, <1>2, <1>4
<1>7. \A d \in Client \ {c} : req'[d] = req[d]
  BY <1>1, <1>4
<1> QED BY <1>3, <1>5, <1>6, <1>7 DEF Goes, FindReadyEffect

\* A connect that is published.
PublishEffect(c) ==
    /\ req[c].phase = "publish" /\ req[c].gen = generation
    /\ Goes(c, "replying") /\ req'[c].pending = FALSE
    /\ req'[c].pinned = None /\ req'[c].reply = req[c].reply
    /\ lease' = IF req[c].pinned # None THEN req[c].pinned ELSE lease
    /\ UNCHANGED <<generation, paused, queue, forwards, master, socket, rule, present, held,
                   listening, failures>>

\* Publish has that effect.
LEMMA PublishStep ==
    ASSUME StateTyped, NEW c \in Client, Publish(c)
    PROVE  PublishEffect(c)
<1> DEFINE r == [req[c] EXCEPT !.phase = "replying", !.pending = FALSE, !.pinned = None]
<1>1. req[c] \in Request /\ req \in [Client -> Request]
  BY DEF StateTyped, RequestsTyped
<1>2. r \in Request
  BY <1>1, HostAssumption DEF Request, Phase
<1>3. /\ r.kind = req[c].kind /\ r.phase = "replying"
      /\ r.gen = req[c].gen /\ r.pending = FALSE
      /\ r.pinned = None /\ r.reply = req[c].reply
  BY <1>1 DEF Request
<1>4. req' = [req EXCEPT ![c] = r]
  BY DEF Publish
<1>5. /\ req[c].phase = "publish" /\ req[c].gen = generation
      /\ lease' = IF req[c].pinned # None THEN req[c].pinned ELSE lease
      /\ UNCHANGED <<generation, paused, queue, forwards, master, socket, rule, present, held,
                     listening, failures>>
  BY DEF Publish, revision, mutexes, ssh, rules, bounds
<1> HIDE DEF r
<1>6. req' \in [Client -> Request] /\ req'[c] = r
  BY <1>1, <1>2, <1>4
<1>7. \A d \in Client \ {c} : req'[d] = req[d]
  BY <1>1, <1>4
<1> QED BY <1>3, <1>5, <1>6, <1>7 DEF Goes, PublishEffect

\* The end of a cleanup.
CleanupEffect(c) ==
    /\ req[c].phase = "cleanup"
    /\ Goes(c, "done") /\ req'[c].pending = FALSE
    /\ req'[c].pinned = None /\ req'[c].reply = req[c].reply
    /\ \/ master[c] = "up" /\ Ends(c) /\ socket' = Unless(socket, c)
       \/ UNCHANGED <<master, socket, listening>>
    /\ Fails \/ UNCHANGED failures
    /\ queue' = Left(c)
    /\ UNCHANGED <<generation, paused, forwards, lease, rule, present, held>>

\* Cleanup has that effect.
LEMMA CleanupStep ==
    ASSUME StateTyped, NEW c \in Client, Cleanup(c)
    PROVE  CleanupEffect(c)
<1> DEFINE r == [req[c] EXCEPT !.phase = "done", !.pending = FALSE, !.pinned = None, !.auth = 0]
<1>1. req[c] \in Request /\ req \in [Client -> Request]
  BY DEF StateTyped, RequestsTyped
<1>2. r \in Request
  BY <1>1, HostAssumption DEF Request, Phase
<1>3. /\ r.kind = req[c].kind /\ r.phase = "done"
      /\ r.gen = req[c].gen /\ r.pending = FALSE
      /\ r.pinned = None /\ r.reply = req[c].reply
  BY <1>1 DEF Request
<1>4. req' = [req EXCEPT ![c] = r]
  BY DEF Cleanup
<1>5. /\ req[c].phase = "cleanup"
      /\ \/ master[c] = "up" /\ Ends(c) /\ socket' = Unless(socket, c)
         \/ UNCHANGED <<master, socket, listening>>
      /\ Fails \/ UNCHANGED failures
      /\ queue' = Left(c)
      /\ UNCHANGED <<generation, paused, forwards, lease, rule, present, held>>
  BY DEF StateTyped, MastersTyped, Cleanup, Exited, Ends, Unless, revision, mutexes, ssh, rules,
       bounds
<1> HIDE DEF r
<1>6. req' \in [Client -> Request] /\ req'[c] = r
  BY <1>1, <1>2, <1>4
<1>7. \A d \in Client \ {c} : req'[d] = req[d]
  BY <1>1, <1>4
<1> QED BY <1>3, <1>5, <1>6, <1>7 DEF Goes, CleanupEffect

\* The host is authorized, or not.
LEMMA AuthorizedStep ==
    ASSUME authorization \in Nat, blocked \in BOOLEAN, NEW gen, Authorized(gen)
    PROVE  authorization' \in Nat /\ blocked' \in BOOLEAN
<1>1. authorization' = authorization + 1 \/ authorization' = authorization
  BY DEF Authorized
<1>2. blocked' = FALSE \/ blocked' = blocked
  BY DEF Authorized
<1>3. authorization' \in Nat
  BY <1>1
<1>4. blocked' \in BOOLEAN
  BY <1>2
<1> QED BY <1>3, <1>4

\* What is left of a connect whose process belongs to it.
LEMMA DropStep ==
    ASSUME req \in [Client -> Request], forwards \in Client \cup {None},
           master \in [Master -> {"none", "starting", "up", "gone"}],
           NEW c \in Client, NEW answer \in {"ok", "error"}, DropPending(c, answer)
    PROVE  /\ req' \in [Client -> Request] /\ forwards' \in Client \cup {None}
           /\ forwards' = Unless(forwards, c) /\ queue' = queue
           /\ master' \in [Master -> {"none", "starting", "up", "gone"}]
           /\ master'[c] = IF master[c] = "starting" THEN "gone" ELSE master[c]
           /\ \A m \in Master : m # c => master'[m] = master[m]
           /\ \A d \in Client \ {c} : req'[d] = req[d]
           /\ req'[c].phase = "cleanup" /\ req'[c].kind = req[c].kind /\ req'[c].gen = req[c].gen
           /\ req'[c].pending = req[c].pending /\ req'[c].pinned = req[c].pinned
           /\ req'[c].reply = answer
<1>1. "cleanup" \in Phase
  BY DEF Phase
<1> QED BY <1>1 DEF DropPending, Request, Unless, Master

\* A master that exits.
LEMMA ExitStep ==
    ASSUME master \in [Master -> {"none", "starting", "up", "gone"}],
           socket \in Master \cup {None}, listening \in Master \cup {None},
           NEW m \in Master, NEW stays \in BOOLEAN, Exited(m, stays)
    PROVE  /\ master' \in [Master -> {"none", "starting", "up", "gone"}]
           /\ master'[m] = "gone" /\ \A d \in Master : d # m => master'[d] = master[d]
           /\ socket' = IF socket = m /\ ~stays THEN None ELSE socket
           /\ socket' \in Master \cup {None}
           /\ listening' = Unless(listening, m) /\ listening' \in Master \cup {None}
BY DEF Exited, Unless

\* A command that adds the listener.
LEMMA AddStep ==
    ASSUME StateTyped, Add
    PROVE  /\ rule' \in {"none", "waiting", "active", "error"} /\ present' \in BOOLEAN
           /\ listening' \in Master \cup {None} /\ failures' \in Nat
           /\ deaths + failures' <= MaxFaults
<1>1. rule' \in {"none", "waiting", "active", "error"} /\ present' \in BOOLEAN
  BY DEF Add
<1>2. listening' \in Master \cup {None}
  BY DEF StateTyped, MastersTyped, Add
<1>3. failures' = failures \/ Fails
  BY DEF Add
<1>4. failures' \in Nat /\ deaths + failures' <= MaxFaults
  BY <1>3, HostAssumption DEF StateTyped, RulesTyped, Fails
<1> QED BY <1>1, <1>2, <1>4

\* A command that fails is counted.
LEMMA FailStep ==
    ASSUME StateTyped, Fails \/ UNCHANGED failures
    PROVE  failures' \in Nat /\ deaths + failures' <= MaxFaults
BY HostAssumption DEF StateTyped, RulesTyped, Fails

(***************************************************************************)
(* What the actions with several outcomes do.                               *)
(***************************************************************************)
\* The process of c is killed if it still starts.
Killed(c) ==
    /\ \A m \in Master : master'[m] = IF m = c /\ master[c] = "starting" THEN "gone" ELSE master[m]
    /\ queue' = queue /\ forwards' = Unless(forwards, c)
    /\ Goes(c, "cleanup") /\ req'[c].reply = "error"
    /\ req'[c].pending = req[c].pending /\ req'[c].pinned = req[c].pinned

\* Dropping a PendingMaster does that.
LEMMA KilledStep ==
    ASSUME StateTyped, NEW c \in Client, DropPending(c, "error")
    PROVE  Killed(c)
BY DropStep DEF StateTyped, RequestsTyped, MastersTyped, Goes, Killed

DroppedEffect(c) ==
    /\ \/ req[c].pending /\ Killed(c)
       \/ ~req[c].pending /\ Answered(c, "error") /\ UNCHANGED master
    /\ \/ UNCHANGED listening
       \/ /\ req[c].phase = "activate" /\ forwards = None /\ ~held /\ ~present /\ Live
          /\ listening' = socket
    /\ UNCHANGED <<generation, paused, socket, lease, rule, present, held, failures>>

\* A connect that is dropped gives up its place, or leaves the lock to its cleanup.
LEMMA DroppedStep ==
    ASSUME StateTyped, NEW c \in Client, Dropped(c)
    PROVE  DroppedEffect(c)
<1>1. /\ \/ UNCHANGED listening
         \/ /\ req[c].phase = "activate" /\ forwards = None /\ ~held /\ ~present /\ Live
            /\ listening' = socket
      /\ UNCHANGED <<generation, paused, socket, lease, rule, present, held, failures>>
  BY DEF Dropped, revision, bounds
<1>2. CASE req[c].pending
  BY <1>1, <1>2, KilledStep DEF Dropped, GiveUp, DroppedEffect
<1>3. CASE ~req[c].pending
  <2>1. Reply(c, "error") /\ UNCHANGED master
    BY <1>3 DEF Dropped, GiveUp
  <2>2. Answered(c, "error")
    BY <2>1, ReplyStep DEF StateTyped, RequestsTyped, Goes, Answered
  <2> QED BY <1>1, <1>3, <2>1, <2>2 DEF DroppedEffect
<1> QED BY <1>2, <1>3 DEF DroppedEffect

StartEffect(c) ==
    /\ req[c].phase = "start"
    /\ \/ Answered(c, "error") /\ UNCHANGED master
       \/ /\ Goes(c, "waiting")
          /\ req'[c].pending = TRUE /\ req'[c].pinned = req[c].pinned
          /\ req'[c].reply = req[c].reply
          /\ \A m \in Master : master'[m] = IF m = c THEN "starting" ELSE master[m]
          /\ UNCHANGED <<queue, forwards>>
    /\ UNCHANGED <<generation, paused, socket, lease, rule, present, held, listening, failures>>

\* A quiet connect is refused; any other starts a process.
LEMMA StartStep ==
    ASSUME StateTyped, NEW c \in Client, Start(c)
    PROVE  StartEffect(c)
<1>1. /\ req[c].phase = "start"
      /\ UNCHANGED <<generation, paused, socket, lease, rule, present, held, listening, failures>>
  BY DEF Start, revision, rules, bounds
<1>2. CASE req[c].kind = "quiet" /\ (paused \/ blocked)
  <2>1. Reply(c, "error") /\ UNCHANGED master
    BY <1>2 DEF Start
  <2>2. Answered(c, "error")
    BY <2>1, ReplyStep DEF StateTyped, RequestsTyped, Goes, Answered
  <2> QED BY <1>1, <2>1, <2>2 DEF StartEffect
<1>3. CASE ~(req[c].kind = "quiet" /\ (paused \/ blocked))
  <2>1. /\ master' = [master EXCEPT ![c] = "starting"]
        /\ Starts(c) /\ UNCHANGED mutexes
    BY <1>3 DEF Start, Starts
  <2>2. /\ Goes(c, "waiting") /\ req'[c].pending = TRUE /\ req'[c].pinned = req[c].pinned
        /\ req'[c].reply = req[c].reply
    BY <2>1, StartsStep DEF Goes
  <2>3. \A m \in Master : master'[m] = IF m = c THEN "starting" ELSE master[m]
    BY <2>1 DEF StateTyped, MastersTyped
  <2> QED BY <1>1, <2>1, <2>2, <2>3 DEF mutexes, StartEffect
<1> QED BY <1>2, <1>3 DEF StartEffect

EndDisconnectEffect(c) ==
    /\ req[c].phase = "releasing" /\ forwards = None
    /\ held' = TRUE /\ rule' = Waiting(rule)
    /\ \/ /\ ~Dead /\ Answered(c, "ok") /\ present' = FALSE
          /\ IF Live THEN Ends(socket) /\ socket' = None ELSE UNCHANGED <<master, socket, listening>>
          /\ UNCHANGED failures
       \/ /\ Answered(c, "error")
          /\ (Dead /\ UNCHANGED failures) \/ Fails
          /\ UNCHANGED <<master, socket, listening, present>>
    /\ UNCHANGED <<generation, paused, lease>>

\* A disconnect ends the master that answers, and nothing else.
LEMMA EndStep ==
    ASSUME StateTyped, NEW c \in Client, EndDisconnect(c)
    PROVE  EndDisconnectEffect(c)
<1>1. /\ req[c].phase = "releasing" /\ forwards = None
      /\ held' = TRUE /\ rule' = Waiting(rule)
      /\ UNCHANGED <<generation, paused, lease>>
  BY DEF EndDisconnect, revision
<1>2. \A a \in {"ok", "error"} : Reply(c, a) => Answered(c, a)
  BY ReplyStep DEF StateTyped, RequestsTyped, Goes, Answered
<1>3. \/ /\ ~Dead /\ Reply(c, "ok") /\ present' = FALSE
         /\ IF Live THEN Exited(socket, FALSE) ELSE UNCHANGED <<master, socket, listening>>
         /\ UNCHANGED failures
      \/ /\ Reply(c, "error")
         /\ (Dead /\ UNCHANGED failures) \/ Fails
         /\ UNCHANGED <<master, socket, listening, present>>
  BY DEF EndDisconnect, ssh
<1>4. Live /\ Exited(socket, FALSE) => Ends(socket) /\ socket' = None
  BY DEF StateTyped, MastersTyped, Exited, Ends, Live
<1> QED BY <1>1, <1>2, <1>3, <1>4 DEF EndDisconnectEffect

ConfigureEffect(c) ==
    /\ req[c].phase = "changing"
    /\ \/ present /\ ~held /\ Live /\ rule' = "active" /\ Answered(c, "ok")
       \/ present /\ Goes(c, "cancelling") /\ Keeps(c) /\ UNCHANGED <<rule, queue, forwards>>
       \/ /\ ~present /\ req[c].kind = "enable" /\ Goes(c, "adding") /\ Keeps(c)
          /\ UNCHANGED <<rule, queue, forwards>>
       \/ ~present /\ rule' = "none" /\ Answered(c, "ok")
    /\ Fails \/ UNCHANGED failures
    /\ UNCHANGED <<generation, paused, master, socket, lease, present, held, listening>>

\* A configure keeps the listener, goes on, or has nothing to take away.
LEMMA ConfigureStep ==
    ASSUME StateTyped, NEW c \in Client, Configure(c)
    PROVE  ConfigureEffect(c)
<1>1. /\ req[c].phase = "changing"
      /\ UNCHANGED <<generation, paused, master, socket, lease, present, held, listening>>
  BY DEF Configure, revision, ssh
<1>2. Reply(c, "ok") => Answered(c, "ok")
  BY ReplyStep DEF StateTyped, RequestsTyped, Goes, Answered
<1>3. \A p \in {"cancelling", "adding"} : req' = [req EXCEPT ![c].phase = p] => Goes(c, p) /\ Keeps(c)
  BY PhaseStep, PhaseNames DEF StateTyped, RequestsTyped, Goes, Keeps
<1>4. CASE present
  <2>1. PICK ready \in BOOLEAN :
            /\ Observed(ready)
            /\ IF req[c].kind = "enable" /\ ~held /\ ready
               THEN rule' = "active" /\ Reply(c, "ok")
               ELSE req' = [req EXCEPT ![c].phase = "cancelling"] /\ UNCHANGED <<rule, mutexes>>
    BY <1>4 DEF Configure
  <2>2. Fails \/ UNCHANGED failures
    BY <2>1 DEF Observed
  <2>3. CASE req[c].kind = "enable" /\ ~held /\ ready
    <3>1. Live /\ rule' = "active" /\ Reply(c, "ok")
      BY <2>1, <2>3 DEF Observed
    <3> QED BY <1>1, <1>2, <1>4, <2>2, <2>3, <3>1 DEF ConfigureEffect
  <2>4. CASE ~(req[c].kind = "enable" /\ ~held /\ ready)
    BY <1>1, <1>3, <1>4, <2>1, <2>2, <2>4 DEF mutexes, ConfigureEffect
  <2> QED BY <2>3, <2>4 DEF ConfigureEffect
<1>5. CASE ~present
  <2>1. /\ UNCHANGED failures
        /\ IF req[c].kind = "enable"
           THEN req' = [req EXCEPT ![c].phase = "adding"] /\ UNCHANGED <<rule, mutexes>>
           ELSE rule' = "none" /\ Reply(c, "ok")
    BY <1>5 DEF Configure
  <2> QED BY <1>1, <1>2, <1>3, <1>5, <2>1 DEF mutexes, ConfigureEffect
<1> QED BY <1>4, <1>5 DEF ConfigureEffect

CancelForwardEffect(c) ==
    /\ req[c].phase = "cancelling"
    /\ \/ /\ listening' = None /\ present' = present
          /\ Goes(c, "adding") /\ Keeps(c) /\ UNCHANGED <<rule, queue, forwards, failures>>
       \/ /\ listening' = None /\ present' = FALSE /\ rule' = "none" /\ Answered(c, "ok")
          /\ UNCHANGED failures
       \/ /\ \/ ~(socket = None \/ (Live /\ listening = socket)) /\ UNCHANGED failures
             \/ Fails
          /\ Answered(c, "error") /\ UNCHANGED <<rule, present, listening>>
    /\ UNCHANGED <<generation, paused, master, socket, lease, held>>

\* The listener is cancelled, or stays with its owner.
LEMMA CancelStep ==
    ASSUME StateTyped, NEW c \in Client, CancelForward(c)
    PROVE  CancelForwardEffect(c)
<1>1. /\ req[c].phase = "cancelling"
      /\ UNCHANGED <<generation, paused, master, socket, lease, held>>
  BY DEF CancelForward, revision, ssh
<1>2. \A a \in {"ok", "error"} : Reply(c, a) => Answered(c, a)
  BY ReplyStep DEF StateTyped, RequestsTyped, Goes, Answered
<1>3. req' = [req EXCEPT ![c].phase = "adding"] => Goes(c, "adding") /\ Keeps(c)
  BY PhaseStep, PhaseNames DEF StateTyped, RequestsTyped, Goes, Keeps
<1>4. \/ /\ req[c].kind = "enable" /\ listening' = None /\ present' = (present /\ req[c].kind = "enable")
         /\ req' = [req EXCEPT ![c].phase = "adding"] /\ UNCHANGED <<rule, mutexes, failures>>
      \/ /\ req[c].kind # "enable" /\ listening' = None /\ present' = (present /\ req[c].kind = "enable")
         /\ rule' = "none" /\ Reply(c, "ok") /\ UNCHANGED failures
      \/ /\ \/ ~(socket = None \/ (Live /\ listening = socket)) /\ UNCHANGED failures
            \/ Fails
         /\ Reply(c, "error") /\ UNCHANGED <<rule, present, listening>>
  BY DEF CancelForward
<1>5. present \in BOOLEAN
  BY DEF StateTyped, RulesTyped
<1> QED BY <1>1, <1>2, <1>3, <1>4, <1>5 DEF mutexes, CancelForwardEffect

ResumeEffect(c) ==
    /\ req[c].phase = "admitted"
    /\ \/ /\ req[c].kind = "connect" /\ req[c].gen = generation
          /\ Goes(c, "resumed") /\ Keeps(c) /\ paused' = FALSE /\ UNCHANGED <<queue, forwards>>
       \/ /\ req[c].kind = "quiet" /\ ~paused
          /\ Goes(c, "resumed") /\ Keeps(c) /\ UNCHANGED <<paused, queue, forwards>>
       \/ Answered(c, "error") /\ UNCHANGED paused
    /\ UNCHANGED <<generation, master, socket, lease, rule, present, held, listening, failures>>

\* A connect resumes the host, finds it resumed, or is refused.
LEMMA ResumeStep ==
    ASSUME StateTyped, NEW c \in Client, Resume(c)
    PROVE  ResumeEffect(c)
<1>1. /\ req[c].phase = "admitted"
      /\ UNCHANGED <<generation, master, socket, lease, rule, present, held, listening, failures>>
  BY DEF Resume, ssh, rules, bounds
<1>2. Reply(c, "error") => Answered(c, "error")
  BY ReplyStep DEF StateTyped, RequestsTyped, Goes, Answered
<1>3. req' = [req EXCEPT ![c].phase = "resumed"] => Goes(c, "resumed") /\ Keeps(c)
  BY PhaseStep, PhaseNames DEF StateTyped, RequestsTyped, Goes, Keeps
<1>4. Resumes(c) => Goes(c, "resumed") /\ Keeps(c)
  BY ResumesStep DEF Goes, Keeps
<1>5. \/ Resumes(c) /\ paused' = FALSE /\ UNCHANGED mutexes
      \/ /\ req[c].kind = "quiet" /\ ~paused /\ req' = [req EXCEPT ![c].phase = "resumed"]
         /\ UNCHANGED <<paused, mutexes>>
      \/ Reply(c, "error") /\ UNCHANGED paused
  BY DEF Resume, Resumes
<1>6. Resumes(c) => req[c].kind = "connect" /\ req[c].gen = generation
  BY DEF Resumes
<1> QED BY <1>1, <1>2, <1>3, <1>4, <1>5, <1>6 DEF mutexes, ResumeEffect

AttachEffect(c) ==
    /\ req[c].phase = "attach"
    /\ \/ /\ socket # None /\ (lease = socket \/ Live)
          /\ Goes(c, "activate") /\ req'[c].pinned = Unless(socket, lease)
          /\ req'[c].pending = req[c].pending /\ req'[c].reply = req[c].reply
          /\ UNCHANGED <<queue, forwards>>
       \/ Answered(c, "error")
    /\ UNCHANGED <<generation, paused, master, socket, lease, rule, present, held, listening,
                   failures>>

\* The master of the control path is pinned, or is gone.
LEMMA AttachStep ==
    ASSUME StateTyped, NEW c \in Client, Attach(c)
    PROVE  AttachEffect(c)
<1>1. /\ req[c].phase = "attach"
      /\ UNCHANGED <<generation, paused, master, socket, lease, rule, present, held, listening, failures>>
  BY DEF Attach, revision, ssh, rules, bounds
<1>2. Reply(c, "error") => Answered(c, "error")
  BY ReplyStep DEF StateTyped, RequestsTyped, Goes, Answered
<1>3. Attaches(c) =>
        /\ Goes(c, "activate") /\ req'[c].pinned = Unless(socket, lease)
        /\ req'[c].pending = req[c].pending /\ req'[c].reply = req[c].reply
  BY AttachesStep DEF Goes
<1>4. \/ socket # None /\ (lease = socket \/ Live) /\ Attaches(c) /\ UNCHANGED mutexes
      \/ Reply(c, "error")
  BY DEF Attach, Attaches
<1> QED BY <1>1, <1>2, <1>3, <1>4 DEF mutexes, AttachEffect

InspectEffect(c) ==
    /\ req[c].phase = "inspect" /\ forwards = None
    /\ \/ /\ Live /\ Goes(c, "attach") /\ Keeps(c)
          /\ UNCHANGED <<queue, forwards, lease, rule, present, failures>>
       \/ /\ socket = None /\ lease' = None /\ rule' = Waiting(rule) /\ present' = FALSE
          /\ Goes(c, "start") /\ Keeps(c) /\ UNCHANGED <<queue, forwards, failures>>
       \/ /\ Answered(c, "error") /\ (Fails \/ UNCHANGED failures)
          /\ UNCHANGED <<lease, rule, present>>
    /\ UNCHANGED <<generation, paused, master, socket, held, listening>>

\* A connect finds a master, finds none, or cannot tell.
LEMMA InspectStep ==
    ASSUME StateTyped, NEW c \in Client, Inspect(c)
    PROVE  InspectEffect(c)
<1>1. /\ req[c].phase = "inspect" /\ forwards = None
      /\ UNCHANGED <<generation, paused, master, socket, held, listening>>
  BY DEF Inspect, revision, ssh
<1>2. Reply(c, "error") => Answered(c, "error")
  BY ReplyStep DEF StateTyped, RequestsTyped, Goes, Answered
<1>3. \A p \in {"attach", "start"} : req' = [req EXCEPT ![c].phase = p] => Goes(c, p) /\ Keeps(c)
  BY PhaseStep, PhaseNames DEF StateTyped, RequestsTyped, Goes, Keeps
<1>4. \/ /\ Live /\ req' = [req EXCEPT ![c].phase = "attach"]
         /\ UNCHANGED <<queue, forwards, lease, rule, present, failures>>
      \/ /\ socket = None /\ lease' = None /\ rule' = Waiting(rule) /\ present' = FALSE
         /\ req' = [req EXCEPT ![c].phase = "start"] /\ UNCHANGED <<queue, forwards, failures>>
      \/ /\ Reply(c, "error") /\ (Fails \/ UNCHANGED failures)
         /\ UNCHANGED <<lease, rule, present>>
  BY DEF Inspect, mutexes
<1> QED BY <1>1, <1>2, <1>3, <1>4 DEF InspectEffect

ActivateEffect(c) ==
    /\ req[c].phase = "activate" /\ forwards = None /\ Goes(c, "publish") /\ Keeps(c)
    /\ IF ~held /\ rule # "none" /\ ~present THEN Add
       ELSE UNCHANGED <<rule, present, listening, failures>>
    /\ UNCHANGED <<generation, paused, queue, forwards, master, socket, lease, held>>

\* The forward is added where that is due.
LEMMA ActivateStep ==
    ASSUME StateTyped, NEW c \in Client, Activate(c)
    PROVE  ActivateEffect(c)
<1>1. /\ req[c].phase = "activate" /\ forwards = None /\ req' = [req EXCEPT ![c].phase = "publish"]
      /\ IF ~held /\ rule # "none" /\ ~present THEN Add
         ELSE UNCHANGED <<rule, present, listening, failures>>
      /\ UNCHANGED <<generation, paused, queue, forwards, master, socket, lease, held>>
  BY DEF Activate, revision, mutexes, ssh
<1>2. Goes(c, "publish") /\ Keeps(c)
  BY <1>1, PhaseStep, PhaseNames DEF StateTyped, RequestsTyped, Goes, Keeps
<1> QED BY <1>1, <1>2 DEF ActivateEffect

AddForwardEffect(c) ==
    /\ req[c].phase = "adding" /\ Answered(c, "ok")
    /\ \/ ~held /\ Add
       \/ /\ rule' = "waiting" /\ present' = FALSE /\ UNCHANGED listening
          /\ ((held \/ ~Live) /\ UNCHANGED failures) \/ Fails
    /\ UNCHANGED <<generation, paused, master, socket, lease, held>>

\* A configure ends with the listener or with a rule that waits or failed.
LEMMA AddForwardStep ==
    ASSUME StateTyped, NEW c \in Client, AddForward(c)
    PROVE  AddForwardEffect(c)
<1>1. /\ req[c].phase = "adding"
      /\ \/ ~held /\ Add
         \/ /\ rule' = "waiting" /\ present' = FALSE /\ UNCHANGED listening
            /\ ((held \/ ~Live) /\ UNCHANGED failures) \/ Fails
      /\ UNCHANGED <<generation, paused, master, socket, lease, held>>
  BY DEF AddForward, Observed, revision, ssh
<1>2. Answered(c, "ok")
  BY ReplyStep DEF AddForward, StateTyped, RequestsTyped, Goes, Answered
<1> QED BY <1>1, <1>2 DEF AddForwardEffect

WaitFailsEffect(c) ==
    /\ req[c].phase = "waiting" /\ Killed(c)
    /\ UNCHANGED <<generation, paused, socket, lease, rule, present, held, listening, failures>>

\* A connect gives up waiting for its process.
LEMMA WaitFailsStep ==
    ASSUME StateTyped, NEW c \in Client, WaitFails(c)
    PROVE  WaitFailsEffect(c)
<1>1. /\ req[c].phase = "waiting"
      /\ UNCHANGED <<generation, paused, socket, lease, rule, present, held, listening, failures>>
  BY DEF WaitFails, rules, bounds
<1> QED BY <1>1, KilledStep DEF WaitFails, WaitFailsEffect

SaveEffect(c) ==
    /\ req[c].phase = "saving"
    /\ \/ Goes(c, "activate") /\ Keeps(c) /\ UNCHANGED <<queue, forwards, master>>
       \/ Killed(c)
    /\ UNCHANGED <<generation, paused, socket, lease, rule, present, held, listening, failures>>

\* A credential is saved, or the connect gives up.
LEMMA SaveStep ==
    ASSUME StateTyped, NEW c \in Client, Save(c)
    PROVE  SaveEffect(c)
<1>1. /\ req[c].phase = "saving"
      /\ UNCHANGED <<generation, paused, socket, lease, rule, present, held, listening, failures>>
  BY DEF Save, revision, rules, bounds
<1>2. \/ req' = [req EXCEPT ![c].phase = "activate"] /\ UNCHANGED <<mutexes, master>>
      \/ Killed(c)
  BY KilledStep DEF Save
<1>3. req' = [req EXCEPT ![c].phase = "activate"] => Goes(c, "activate") /\ Keeps(c)
  BY PhaseStep, PhaseNames DEF StateTyped, RequestsTyped, Goes, Keeps
<1> QED BY <1>1, <1>2, <1>3 DEF mutexes, SaveEffect

\* The actions with one outcome.
AcquireEffect(c) ==
    /\ req[c].kind \in Connects /\ req[c].phase = "queued" /\ Holds(c)
    /\ Goes(c, "admitted") /\ Keeps(c)
    /\ UNCHANGED <<generation, paused, queue, forwards, master, socket, lease, rule, present, held,
                   listening, failures>>

EnqueueEffect(c) ==
    /\ req[c].phase = "pausing"
    /\ Goes(c, "queued") /\ Keeps(c) /\ queue' = Append(queue, c)
    /\ UNCHANGED <<generation, paused, forwards, master, socket, lease, rule, present, held,
                   listening, failures>>

BeginDisconnectEffect(c) ==
    /\ req[c].kind = "disconnect" /\ req[c].phase = "queued" /\ Holds(c)
    /\ Goes(c, "releasing") /\ Keeps(c) /\ lease' = None
    /\ UNCHANGED <<generation, paused, queue, forwards, master, socket, rule, present, held,
                   listening, failures>>

ResumeForwardsEffect(c) ==
    /\ req[c].phase = "resumed" /\ forwards = None
    /\ Goes(c, "inspect") /\ Keeps(c) /\ held' = FALSE
    /\ UNCHANGED <<generation, paused, queue, forwards, master, socket, lease, rule, present,
                   listening, failures>>

BeginConfigureEffect(c) ==
    /\ req[c].kind \in {"enable", "disable"} /\ req[c].phase = "queued"
    /\ forwards = None /\ forwards' = c /\ Goes(c, "changing") /\ Keeps(c)
    /\ IF paused THEN held' = TRUE /\ rule' = Waiting(rule) ELSE UNCHANGED <<held, rule>>
    /\ UNCHANGED <<generation, paused, queue, master, socket, lease, present, listening, failures>>

ReplyReadyEffect(c) ==
    /\ req[c].phase = "replying" /\ Answered(c, "ok")
    /\ UNCHANGED <<generation, paused, master, socket, lease, rule, present, held, listening, failures>>

\* The six have these effects.
LEMMA MoveSteps ==
    ASSUME StateTyped, NEW c \in Client
    PROVE  /\ Acquire(c) => AcquireEffect(c)
           /\ Enqueue(c) => EnqueueEffect(c)
           /\ BeginDisconnect(c) => BeginDisconnectEffect(c)
           /\ ResumeForwards(c) => ResumeForwardsEffect(c)
           /\ BeginConfigure(c) => BeginConfigureEffect(c)
           /\ ReplyReady(c) => ReplyReadyEffect(c)
<1>1. \A p \in {"admitted", "queued", "releasing", "inspect", "changing"} :
        req' = [req EXCEPT ![c].phase = p] => Goes(c, p) /\ Keeps(c)
  <2> SUFFICES ASSUME NEW p \in {"admitted", "queued", "releasing", "inspect", "changing"},
                      req' = [req EXCEPT ![c].phase = p]
               PROVE  Goes(c, p) /\ Keeps(c)
    OBVIOUS
  <2>1. p \in Phase
    BY PhaseNames
  <2>2. req \in [Client -> Request]
    BY DEF StateTyped, RequestsTyped
  <2> QED BY <2>1, <2>2, PhaseStep DEF Goes, Keeps
<1>2. Reply(c, "ok") => Answered(c, "ok")
  BY ReplyStep DEF StateTyped, RequestsTyped, Goes, Answered
<1> USE DEF revision, mutexes, ssh, rules, bounds
<1>3. Acquire(c) => AcquireEffect(c)
  BY <1>1 DEF Acquire, AcquireEffect
<1>4. Enqueue(c) => EnqueueEffect(c)
  BY <1>1 DEF Enqueue, EnqueueEffect
<1>5. BeginDisconnect(c) => BeginDisconnectEffect(c)
  BY <1>1 DEF BeginDisconnect, BeginDisconnectEffect
<1>6. ResumeForwards(c) => ResumeForwardsEffect(c)
  BY <1>1 DEF ResumeForwards, ResumeForwardsEffect
<1>7. BeginConfigure(c) => BeginConfigureEffect(c)
  BY <1>1 DEF BeginConfigure, BeginConfigureEffect
<1>8. ReplyReady(c) => ReplyReadyEffect(c)
  BY <1>2 DEF ReplyReady, ReplyReadyEffect
<1> QED BY <1>3, <1>4, <1>5, <1>6, <1>7, <1>8

\* The actions of OpenSSH.
AuthenticateEffect(c) ==
    /\ master[c] = "starting" /\ socket' = c
    /\ \A m \in Master : master'[m] = IF m = c THEN "up" ELSE master[m]
    /\ UNCHANGED <<generation, paused, req, queue, forwards, lease, rule, present, held, listening,
                   failures>>

StartFailsEffect(c) ==
    /\ master[c] = "starting"
    /\ \A m \in Master : master'[m] = IF m = c THEN "gone" ELSE master[m]
    /\ UNCHANGED <<generation, paused, req, queue, forwards, socket, lease, rule, present, held,
                   listening, failures>>

MasterDiesEffect(m) ==
    /\ master[m] = "up" /\ Ends(m)
    /\ UNCHANGED <<generation, paused, req, queue, forwards, lease, rule, present, held, failures>>

\* The three have these effects.
LEMMA MasterSteps ==
    ASSUME StateTyped
    PROVE  /\ \A c \in Client : Authenticate(c) => AuthenticateEffect(c)
           /\ \A c \in Client : StartFails(c) => StartFailsEffect(c)
           /\ \A m \in Master : MasterDies(m) => MasterDiesEffect(m)
<1> USE DEF revision, mutexes, ssh, rules, bounds, StateTyped, MastersTyped
<1>1. \A c \in Client : Authenticate(c) => AuthenticateEffect(c)
  BY DEF Authenticate, AuthenticateEffect
<1>2. \A c \in Client : StartFails(c) => StartFailsEffect(c)
  BY DEF StartFails, StartFailsEffect
<1>3. \A m \in Master : MasterDies(m) => MasterDiesEffect(m)
  BY DEF MasterDies, Exited, MasterDiesEffect, Ends
<1> QED BY <1>1, <1>2, <1>3

CancelEffect(c) == Connecting(c) /\ DroppedEffect(c)
ConsentEffect ==
    UNCHANGED <<generation, paused, req, queue, forwards, master, socket, lease, rule, present, held,
                listening, failures>>

\* Every step, by what it does.
LEMMA HostEffects ==
    ASSUME StateTyped, [HostNext]_hostVars
    PROVE  \/ \E c \in Client, k \in Kind : ArriveEffect(c, k)
           \/ \E c \in Client :
                \/ AcquireEffect(c) \/ EnqueueEffect(c) \/ BeginDisconnectEffect(c) \/ CancelEffect(c)
                \/ ResumeEffect(c) \/ AttachEffect(c) \/ StartEffect(c) \/ FindReadyEffect(c)
                \/ PublishEffect(c) \/ ReplyReadyEffect(c) \/ CleanupEffect(c) \/ ConfigureEffect(c)
                \/ CancelForwardEffect(c) \/ AddForwardEffect(c) \/ ResumeForwardsEffect(c)
                \/ InspectEffect(c) \/ ActivateEffect(c) \/ EndDisconnectEffect(c)
                \/ BeginConfigureEffect(c) \/ AuthenticateEffect(c) \/ StartFailsEffect(c)
                \/ WaitFailsEffect(c) \/ SaveEffect(c)
           \/ \E m \in Master : MasterDiesEffect(m)
           \/ ConsentEffect
<1>1. \A c \in Client, k \in Kind : Arrive(c, k) => ArriveEffect(c, k)
  BY ArriveStep
<1>2. \A c \in Client : Cancel(c) \/ Close(c) => CancelEffect(c)
  BY DroppedStep DEF Cancel, Close, CancelEffect
<1>3. \A c \in Client :
        /\ Acquire(c) => AcquireEffect(c)
        /\ Enqueue(c) => EnqueueEffect(c)
        /\ BeginDisconnect(c) => BeginDisconnectEffect(c)
        /\ ResumeForwards(c) => ResumeForwardsEffect(c)
        /\ BeginConfigure(c) => BeginConfigureEffect(c)
        /\ ReplyReady(c) => ReplyReadyEffect(c)
  BY MoveSteps
<1>4. \A c \in Client :
        /\ Resume(c) => ResumeEffect(c)
        /\ Attach(c) => AttachEffect(c)
        /\ Start(c) => StartEffect(c)
        /\ FindReady(c) => FindReadyEffect(c)
        /\ Publish(c) => PublishEffect(c)
        /\ Cleanup(c) => CleanupEffect(c)
  BY ResumeStep, AttachStep, StartStep, FindStep, PublishStep, CleanupStep
<1>5. \A c \in Client :
        /\ Configure(c) => ConfigureEffect(c)
        /\ CancelForward(c) => CancelForwardEffect(c)
        /\ AddForward(c) => AddForwardEffect(c)
        /\ Inspect(c) => InspectEffect(c)
        /\ Activate(c) => ActivateEffect(c)
        /\ EndDisconnect(c) => EndDisconnectEffect(c)
  BY ConfigureStep, CancelStep, AddForwardStep, InspectStep, ActivateStep, EndStep
<1>6. \A c \in Client :
        /\ WaitFails(c) => WaitFailsEffect(c)
        /\ Save(c) => SaveEffect(c)
  BY WaitFailsStep, SaveStep
<1>7. Consent \/ UNCHANGED hostVars => ConsentEffect
  BY DEF Consent, ConsentEffect, hostVars, revision, mutexes, ssh, rules, bounds
<1> QED BY HostCases, MasterSteps, <1>1, <1>2, <1>3, <1>4, <1>5, <1>6, <1>7

(***************************************************************************)
(* Types.                                                                   *)
(***************************************************************************)
\* Masters, socket, lease and listener keep their types.
LEMMA MastersStep ==
    ASSUME StateTyped, [HostNext]_hostVars
    PROVE  MastersTyped'
<1> USE DEF StateTyped, RequestsTyped, MastersTyped, revision, mutexes, ssh, rules, bounds
<1>1. ASSUME NEW c \in Client, NEW k \in Kind, Arrive(c, k) PROVE MastersTyped'
  BY <1>1 DEF Arrive
<1>2. ASSUME NEW c \in Client, Acquire(c) PROVE MastersTyped'
  BY <1>2 DEF Acquire
<1>3. ASSUME NEW c \in Client, Enqueue(c) PROVE MastersTyped'
  BY <1>3 DEF Enqueue
<1>4. ASSUME NEW c \in Client, BeginDisconnect(c) PROVE MastersTyped'
  BY <1>4 DEF BeginDisconnect
<1>5. ASSUME NEW c \in Client, Cancel(c) PROVE MastersTyped'
  BY <1>5, DropStep DEF Cancel, Dropped, GiveUp
<1>6. ASSUME NEW c \in Client, Close(c) PROVE MastersTyped'
  BY <1>6, DropStep DEF Close, Dropped, GiveUp
<1>7. ASSUME NEW c \in Client, Resume(c) PROVE MastersTyped'
  BY <1>7 DEF Resume
<1>8. ASSUME NEW c \in Client, Attach(c) PROVE MastersTyped'
  BY <1>8 DEF Attach
<1>9. ASSUME NEW c \in Client, Start(c) PROVE MastersTyped'
  BY <1>9 DEF Start, Master
<1>10. ASSUME NEW c \in Client, FindReady(c) PROVE MastersTyped'
  BY <1>10 DEF FindReady
<1>11. ASSUME NEW c \in Client, Publish(c) PROVE MastersTyped'
  BY <1>11 DEF Publish, Request
<1>12. ASSUME NEW c \in Client, ReplyReady(c) PROVE MastersTyped'
  BY <1>12 DEF ReplyReady
<1>13. ASSUME NEW c \in Client, Cleanup(c) PROVE MastersTyped'
  BY <1>13, ExitStep DEF Cleanup, Master, Live
<1>14. ASSUME NEW c \in Client, Configure(c) PROVE MastersTyped'
  BY <1>14 DEF Configure
<1>15. ASSUME NEW c \in Client, CancelForward(c) PROVE MastersTyped'
  BY <1>15 DEF CancelForward
<1>16. ASSUME NEW c \in Client, AddForward(c) PROVE MastersTyped'
  BY <1>16, AddStep DEF AddForward
<1>17. ASSUME NEW c \in Client, ResumeForwards(c) PROVE MastersTyped'
  BY <1>17 DEF ResumeForwards
<1>18. ASSUME NEW c \in Client, Inspect(c) PROVE MastersTyped'
  BY <1>18 DEF Inspect
<1>19. ASSUME NEW c \in Client, Activate(c) PROVE MastersTyped'
  BY <1>19, AddStep DEF Activate
<1>20. ASSUME NEW c \in Client, EndDisconnect(c) PROVE MastersTyped'
  BY <1>20, ExitStep DEF EndDisconnect, Master, Live
<1>21. ASSUME NEW c \in Client, BeginConfigure(c) PROVE MastersTyped'
  BY <1>21 DEF BeginConfigure
<1>22. ASSUME NEW c \in Client, Authenticate(c) PROVE MastersTyped'
  BY <1>22 DEF Authenticate, Master
<1>23. ASSUME NEW c \in Client, StartFails(c) PROVE MastersTyped'
  BY <1>23 DEF StartFails, Master
<1>24. ASSUME NEW c \in Client, WaitFails(c) PROVE MastersTyped'
  BY <1>24, DropStep DEF WaitFails
<1>25. ASSUME NEW c \in Client, Save(c) PROVE MastersTyped'
  BY <1>25, DropStep DEF Save
<1>26. ASSUME NEW m \in Master, MasterDies(m) PROVE MastersTyped'
  BY <1>26, ExitStep DEF MasterDies
<1>27. ASSUME Consent PROVE MastersTyped'
  BY <1>27 DEF Consent
<1>28. CASE UNCHANGED hostVars
  BY <1>28 DEF hostVars
<1> QED BY HostCases, <1>1, <1>2, <1>3, <1>4, <1>5, <1>6, <1>7, <1>8, <1>9, <1>10, <1>11, <1>12,
           <1>13, <1>14, <1>15, <1>16, <1>17, <1>18, <1>19, <1>20, <1>21, <1>22, <1>23,
           <1>24, <1>25, <1>26, <1>27, <1>28

\* So does the rule, and no fault is counted beyond the bound.
LEMMA RulesStep ==
    ASSUME StateTyped, [HostNext]_hostVars
    PROVE  RulesTyped'
<1> USE HostAssumption DEF StateTyped, RulesTyped, revision, mutexes, ssh, rules, bounds
<1>1. ASSUME NEW c \in Client, NEW k \in Kind, Arrive(c, k) PROVE RulesTyped'
  BY <1>1 DEF Arrive
<1>2. ASSUME NEW c \in Client, Acquire(c) PROVE RulesTyped'
  BY <1>2 DEF Acquire
<1>3. ASSUME NEW c \in Client, Enqueue(c) PROVE RulesTyped'
  BY <1>3 DEF Enqueue
<1>4. ASSUME NEW c \in Client, BeginDisconnect(c) PROVE RulesTyped'
  BY <1>4 DEF BeginDisconnect
<1>5. ASSUME NEW c \in Client, Cancel(c) PROVE RulesTyped'
  BY <1>5 DEF Cancel, Dropped, GiveUp
<1>6. ASSUME NEW c \in Client, Close(c) PROVE RulesTyped'
  BY <1>6 DEF Close, Dropped, GiveUp
<1>7. ASSUME NEW c \in Client, Resume(c) PROVE RulesTyped'
  BY <1>7 DEF Resume
<1>8. ASSUME NEW c \in Client, Attach(c) PROVE RulesTyped'
  BY <1>8 DEF Attach
<1>9. ASSUME NEW c \in Client, Start(c) PROVE RulesTyped'
  BY <1>9 DEF Start
<1>10. ASSUME NEW c \in Client, FindReady(c) PROVE RulesTyped'
  BY <1>10 DEF FindReady
<1>11. ASSUME NEW c \in Client, Publish(c) PROVE RulesTyped'
  BY <1>11 DEF Publish
<1>12. ASSUME NEW c \in Client, ReplyReady(c) PROVE RulesTyped'
  BY <1>12 DEF ReplyReady
<1>13. ASSUME NEW c \in Client, Cleanup(c) PROVE RulesTyped'
  BY <1>13, FailStep DEF Cleanup
<1>14. ASSUME NEW c \in Client, Configure(c) PROVE RulesTyped'
  BY <1>14, FailStep DEF Configure, Observed
<1>15. ASSUME NEW c \in Client, CancelForward(c) PROVE RulesTyped'
  BY <1>15, FailStep DEF CancelForward
<1>16. ASSUME NEW c \in Client, AddForward(c) PROVE RulesTyped'
  BY <1>16, AddStep, FailStep DEF AddForward, Observed
<1>17. ASSUME NEW c \in Client, ResumeForwards(c) PROVE RulesTyped'
  BY <1>17 DEF ResumeForwards
<1>18. ASSUME NEW c \in Client, Inspect(c) PROVE RulesTyped'
  BY <1>18, FailStep DEF Inspect, Waiting
<1>19. ASSUME NEW c \in Client, Activate(c) PROVE RulesTyped'
  BY <1>19, AddStep DEF Activate
<1>20. ASSUME NEW c \in Client, EndDisconnect(c) PROVE RulesTyped'
  BY <1>20, FailStep DEF EndDisconnect, Waiting
<1>21. ASSUME NEW c \in Client, BeginConfigure(c) PROVE RulesTyped'
  BY <1>21 DEF BeginConfigure, Waiting
<1>22. ASSUME NEW c \in Client, Authenticate(c) PROVE RulesTyped'
  BY <1>22 DEF Authenticate
<1>23. ASSUME NEW c \in Client, StartFails(c) PROVE RulesTyped'
  BY <1>23 DEF StartFails
<1>24. ASSUME NEW c \in Client, WaitFails(c) PROVE RulesTyped'
  BY <1>24 DEF WaitFails
<1>25. ASSUME NEW c \in Client, Save(c) PROVE RulesTyped'
  BY <1>25 DEF Save
<1>26. ASSUME NEW m \in Master, MasterDies(m) PROVE RulesTyped'
  BY <1>26 DEF MasterDies
<1>27. ASSUME Consent PROVE RulesTyped'
  BY <1>27 DEF Consent
<1>28. CASE UNCHANGED hostVars
  BY <1>28 DEF hostVars
<1> QED BY HostCases, <1>1, <1>2, <1>3, <1>4, <1>5, <1>6, <1>7, <1>8, <1>9, <1>10, <1>11, <1>12,
           <1>13, <1>14, <1>15, <1>16, <1>17, <1>18, <1>19, <1>20, <1>21, <1>22, <1>23,
           <1>24, <1>25, <1>26, <1>27, <1>28

\* So do the counter of authorizations and authentication_required.
LEMMA BlockedStep ==
    ASSUME StateTyped, [HostNext]_hostVars
    PROVE  authorization' \in Nat /\ blocked' \in BOOLEAN
<1>0. authorization \in Nat /\ blocked \in BOOLEAN
  BY DEF StateTyped, RequestsTyped
<1> USE <1>0 DEF revision
<1>1. ASSUME NEW c \in Client, NEW k \in Kind,
             Arrive(c, k)
      PROVE  authorization' \in Nat /\ blocked' \in BOOLEAN
  BY <1>1 DEF Arrive
<1>2. ASSUME NEW c \in Client, Acquire(c) PROVE authorization' \in Nat /\ blocked' \in BOOLEAN
  BY <1>2 DEF Acquire
<1>3. ASSUME NEW c \in Client, Enqueue(c) PROVE authorization' \in Nat /\ blocked' \in BOOLEAN
  BY <1>3 DEF Enqueue
<1>4. ASSUME NEW c \in Client,
             BeginDisconnect(c)
      PROVE  authorization' \in Nat /\ blocked' \in BOOLEAN
  BY <1>4 DEF BeginDisconnect
<1>5. ASSUME NEW c \in Client, Cancel(c) PROVE authorization' \in Nat /\ blocked' \in BOOLEAN
  BY <1>5 DEF Cancel, Dropped
<1>6. ASSUME NEW c \in Client, Close(c) PROVE authorization' \in Nat /\ blocked' \in BOOLEAN
  BY <1>6 DEF Close, Dropped
<1>7. ASSUME NEW c \in Client, Resume(c) PROVE authorization' \in Nat /\ blocked' \in BOOLEAN
  <2>1. authorization' \in Nat
    BY <1>7 DEF Resume
  <2>2. blocked' \in BOOLEAN
    BY <1>7 DEF Resume
  <2> QED BY <2>1, <2>2
<1>8. ASSUME NEW c \in Client, Attach(c) PROVE authorization' \in Nat /\ blocked' \in BOOLEAN
  BY <1>8 DEF Attach
<1>9. ASSUME NEW c \in Client, Start(c) PROVE authorization' \in Nat /\ blocked' \in BOOLEAN
  BY <1>9 DEF Start
<1>10. ASSUME NEW c \in Client,
             FindReady(c)
      PROVE  authorization' \in Nat /\ blocked' \in BOOLEAN
  BY <1>10 DEF FindReady
<1>11. ASSUME NEW c \in Client, Publish(c) PROVE authorization' \in Nat /\ blocked' \in BOOLEAN
  BY <1>11, AuthorizedStep DEF Publish
<1>12. ASSUME NEW c \in Client,
             ReplyReady(c)
      PROVE  authorization' \in Nat /\ blocked' \in BOOLEAN
  BY <1>12 DEF ReplyReady
<1>13. ASSUME NEW c \in Client, Cleanup(c) PROVE authorization' \in Nat /\ blocked' \in BOOLEAN
  BY <1>13 DEF Cleanup
<1>14. ASSUME NEW c \in Client,
             Configure(c)
      PROVE  authorization' \in Nat /\ blocked' \in BOOLEAN
  BY <1>14 DEF Configure
<1>15. ASSUME NEW c \in Client,
             CancelForward(c)
      PROVE  authorization' \in Nat /\ blocked' \in BOOLEAN
  BY <1>15 DEF CancelForward
<1>16. ASSUME NEW c \in Client,
             AddForward(c)
      PROVE  authorization' \in Nat /\ blocked' \in BOOLEAN
  BY <1>16 DEF AddForward
<1>17. ASSUME NEW c \in Client,
             ResumeForwards(c)
      PROVE  authorization' \in Nat /\ blocked' \in BOOLEAN
  BY <1>17 DEF ResumeForwards
<1>18. ASSUME NEW c \in Client, Inspect(c) PROVE authorization' \in Nat /\ blocked' \in BOOLEAN
  BY <1>18 DEF Inspect
<1>19. ASSUME NEW c \in Client, Activate(c) PROVE authorization' \in Nat /\ blocked' \in BOOLEAN
  BY <1>19 DEF Activate
<1>20. ASSUME NEW c \in Client,
             EndDisconnect(c)
      PROVE  authorization' \in Nat /\ blocked' \in BOOLEAN
  BY <1>20 DEF EndDisconnect
<1>21. ASSUME NEW c \in Client,
             BeginConfigure(c)
      PROVE  authorization' \in Nat /\ blocked' \in BOOLEAN
  BY <1>21 DEF BeginConfigure
<1>22. ASSUME NEW c \in Client,
             Authenticate(c)
      PROVE  authorization' \in Nat /\ blocked' \in BOOLEAN
  BY <1>22 DEF Authenticate
<1>23. ASSUME NEW c \in Client,
             StartFails(c)
      PROVE  authorization' \in Nat /\ blocked' \in BOOLEAN
  BY <1>23 DEF StartFails
<1>24. ASSUME NEW c \in Client,
             WaitFails(c)
      PROVE  authorization' \in Nat /\ blocked' \in BOOLEAN
  <2>1. blocked' \in BOOLEAN
    BY <1>24 DEF WaitFails, Block
  <2> QED BY <1>24, <2>1 DEF WaitFails
<1>25. ASSUME NEW c \in Client, Save(c) PROVE authorization' \in Nat /\ blocked' \in BOOLEAN
  <2>1. blocked' \in BOOLEAN
    BY <1>25 DEF Save, Block
  <2> QED BY <1>25, <2>1 DEF Save
<1>26. ASSUME NEW m \in Master,
             MasterDies(m)
      PROVE  authorization' \in Nat /\ blocked' \in BOOLEAN
  BY <1>26 DEF MasterDies
<1>27. ASSUME Consent PROVE authorization' \in Nat /\ blocked' \in BOOLEAN
  BY <1>27, AuthorizedStep DEF Consent
<1>28. CASE UNCHANGED hostVars
  BY <1>28 DEF hostVars
<1> QED BY HostCases, <1>1, <1>2, <1>3, <1>4, <1>5, <1>6, <1>7, <1>8, <1>9, <1>10, <1>11, <1>12,
           <1>13, <1>14, <1>15, <1>16, <1>17, <1>18, <1>19, <1>20, <1>21, <1>22, <1>23,
           <1>24, <1>25, <1>26, <1>27, <1>28

\* So do the requests; the generation never goes back.
LEMMA RequestsStep ==
    ASSUME StateTyped, [HostNext]_hostVars
    PROVE  /\ req' \in [Client -> Request] /\ forwards' \in Client \cup {None}
           /\ generation' \in Nat /\ generation' >= generation /\ paused' \in BOOLEAN
<1> DEFINE G == /\ req' \in [Client -> Request] /\ forwards' \in Client \cup {None}
                /\ generation' \in Nat /\ generation' >= generation /\ paused' \in BOOLEAN
<1>0. /\ req \in [Client -> Request] /\ forwards \in Client \cup {None}
      /\ generation \in Nat /\ paused \in BOOLEAN
  BY DEF StateTyped, RequestsTyped
<1> USE <1>0 DEF Goes, Answered, Killed, Unless
<1>1. ASSUME NEW c \in Client, NEW k \in Kind, ArriveEffect(c, k) PROVE G
  <2>1. generation' \in Nat /\ generation' >= generation
    BY <1>1 DEF ArriveEffect
  <2>2. paused' \in BOOLEAN
    BY <1>1 DEF ArriveEffect
  <2> QED BY <1>1, <2>1, <2>2 DEF ArriveEffect
<1>2. ASSUME NEW c \in Client, AcquireEffect(c) PROVE G
  BY <1>2 DEF AcquireEffect
<1>3. ASSUME NEW c \in Client, EnqueueEffect(c) PROVE G
  BY <1>3 DEF EnqueueEffect
<1>4. ASSUME NEW c \in Client, BeginDisconnectEffect(c) PROVE G
  BY <1>4 DEF BeginDisconnectEffect
<1>5. ASSUME NEW c \in Client, CancelEffect(c) PROVE G
  BY <1>5 DEF CancelEffect, DroppedEffect
<1>6. ASSUME NEW c \in Client, ResumeEffect(c) PROVE G
  <2>1. paused' \in BOOLEAN
    BY <1>6 DEF ResumeEffect
  <2> QED BY <1>6, <2>1 DEF ResumeEffect
<1>7. ASSUME NEW c \in Client, AttachEffect(c) PROVE G
  BY <1>7 DEF AttachEffect
<1>8. ASSUME NEW c \in Client, StartEffect(c) PROVE G
  BY <1>8 DEF StartEffect
<1>9. ASSUME NEW c \in Client, FindReadyEffect(c) PROVE G
  BY <1>9 DEF FindReadyEffect
<1>10. ASSUME NEW c \in Client, PublishEffect(c) PROVE G
  BY <1>10 DEF PublishEffect
<1>11. ASSUME NEW c \in Client, ReplyReadyEffect(c) PROVE G
  BY <1>11 DEF ReplyReadyEffect
<1>12. ASSUME NEW c \in Client, CleanupEffect(c) PROVE G
  BY <1>12 DEF CleanupEffect
<1>13. ASSUME NEW c \in Client, ConfigureEffect(c) PROVE G
  BY <1>13 DEF ConfigureEffect
<1>14. ASSUME NEW c \in Client, CancelForwardEffect(c) PROVE G
  BY <1>14 DEF CancelForwardEffect
<1>15. ASSUME NEW c \in Client, AddForwardEffect(c) PROVE G
  BY <1>15 DEF AddForwardEffect
<1>16. ASSUME NEW c \in Client, ResumeForwardsEffect(c) PROVE G
  BY <1>16 DEF ResumeForwardsEffect
<1>17. ASSUME NEW c \in Client, InspectEffect(c) PROVE G
  BY <1>17 DEF InspectEffect
<1>18. ASSUME NEW c \in Client, ActivateEffect(c) PROVE G
  BY <1>18 DEF ActivateEffect
<1>19. ASSUME NEW c \in Client, EndDisconnectEffect(c) PROVE G
  BY <1>19 DEF EndDisconnectEffect
<1>20. ASSUME NEW c \in Client, BeginConfigureEffect(c) PROVE G
  BY <1>20 DEF BeginConfigureEffect
<1>21. ASSUME NEW c \in Client, AuthenticateEffect(c) PROVE G
  BY <1>21 DEF AuthenticateEffect
<1>22. ASSUME NEW c \in Client, StartFailsEffect(c) PROVE G
  BY <1>22 DEF StartFailsEffect
<1>23. ASSUME NEW c \in Client, WaitFailsEffect(c) PROVE G
  BY <1>23 DEF WaitFailsEffect
<1>24. ASSUME NEW c \in Client, SaveEffect(c) PROVE G
  BY <1>24 DEF SaveEffect
<1>25. ASSUME NEW m \in Master, MasterDiesEffect(m) PROVE G
  BY <1>25 DEF MasterDiesEffect
<1>26. ASSUME ConsentEffect PROVE G
  BY <1>26 DEF ConsentEffect
<1> QED BY HostEffects, <1>1, <1>2, <1>3, <1>4, <1>5, <1>6, <1>7, <1>8, <1>9, <1>10, <1>11,
           <1>12, <1>13, <1>14, <1>15, <1>16, <1>17, <1>18, <1>19, <1>20, <1>21, <1>22,
           <1>23, <1>24, <1>25, <1>26

(***************************************************************************)
(* Kinds and locks.                                                         *)
(***************************************************************************)
\* No action takes a request into a phase of another kind.
LEMMA KindsStep ==
    ASSUME StateTyped, Kinds, [HostNext]_hostVars
    PROVE  Kinds'
<1>0. /\ req \in [Client -> Request] /\ generation \in Nat
      /\ \A d \in Client : req[d].gen \in Nat
  BY DEF StateTyped, RequestsTyped, Request
<1> USE <1>0 DEF Kinds, Established, Admitted, Configuring, Connects, Goes, Keeps, Answered, Killed
<1>1. ASSUME NEW c \in Client, NEW k \in Kind, ArriveEffect(c, k) PROVE Kinds'
  <2>1. generation' \in Nat /\ generation' >= generation
    BY <1>1 DEF ArriveEffect
  <2>2. /\ req[c].phase = "new"
        /\ \A d \in Client \ {c} : req'[d] = req[d]
        /\ req'[c].kind = k /\ req'[c].reply = req[c].reply
        /\ req'[c].phase = IF k = "disconnect" THEN "pausing" ELSE "queued"
        /\ req'[c].gen = IF k \in {"enable", "disable"} THEN 0 ELSE generation'
    BY <1>1 DEF ArriveEffect
  <2>3. \A d \in Client \ {c} : req'[d].gen <= generation'
    BY <2>1, <2>2
  <2>4. req'[c].gen <= generation'
    BY <2>1, <2>2
  <2>5. req'[c].reply # "ok"
    BY <2>2, HostAssumption
  <2> QED BY <2>2, <2>3, <2>4, <2>5
<1>2. ASSUME NEW c \in Client, AcquireEffect(c) PROVE Kinds'
  BY <1>2 DEF AcquireEffect
<1>3. ASSUME NEW c \in Client, EnqueueEffect(c) PROVE Kinds'
  BY <1>3 DEF EnqueueEffect
<1>4. ASSUME NEW c \in Client, BeginDisconnectEffect(c) PROVE Kinds'
  BY <1>4 DEF BeginDisconnectEffect
<1>5. ASSUME NEW c \in Client, CancelEffect(c) PROVE Kinds'
  BY <1>5 DEF CancelEffect, DroppedEffect, Connecting
<1>6. ASSUME NEW c \in Client, ResumeEffect(c) PROVE Kinds'
  BY <1>6 DEF ResumeEffect
<1>7. ASSUME NEW c \in Client, AttachEffect(c) PROVE Kinds'
  BY <1>7 DEF AttachEffect
<1>8. ASSUME NEW c \in Client, StartEffect(c) PROVE Kinds'
  BY <1>8 DEF StartEffect
<1>9. ASSUME NEW c \in Client, FindReadyEffect(c) PROVE Kinds'
  BY <1>9 DEF FindReadyEffect
<1>10. ASSUME NEW c \in Client, PublishEffect(c) PROVE Kinds'
  BY <1>10 DEF PublishEffect
<1>11. ASSUME NEW c \in Client, ReplyReadyEffect(c) PROVE Kinds'
  BY <1>11 DEF ReplyReadyEffect
<1>12. ASSUME NEW c \in Client, CleanupEffect(c) PROVE Kinds'
  BY <1>12 DEF CleanupEffect
<1>13. ASSUME NEW c \in Client, ConfigureEffect(c) PROVE Kinds'
  BY <1>13 DEF ConfigureEffect
<1>14. ASSUME NEW c \in Client, CancelForwardEffect(c) PROVE Kinds'
  BY <1>14 DEF CancelForwardEffect
<1>15. ASSUME NEW c \in Client, AddForwardEffect(c) PROVE Kinds'
  BY <1>15 DEF AddForwardEffect
<1>16. ASSUME NEW c \in Client, ResumeForwardsEffect(c) PROVE Kinds'
  BY <1>16 DEF ResumeForwardsEffect
<1>17. ASSUME NEW c \in Client, InspectEffect(c) PROVE Kinds'
  BY <1>17 DEF InspectEffect
<1>18. ASSUME NEW c \in Client, ActivateEffect(c) PROVE Kinds'
  BY <1>18 DEF ActivateEffect
<1>19. ASSUME NEW c \in Client, EndDisconnectEffect(c) PROVE Kinds'
  BY <1>19 DEF EndDisconnectEffect
<1>20. ASSUME NEW c \in Client, BeginConfigureEffect(c) PROVE Kinds'
  BY <1>20 DEF BeginConfigureEffect
<1>21. ASSUME NEW c \in Client, AuthenticateEffect(c) PROVE Kinds'
  BY <1>21 DEF AuthenticateEffect
<1>22. ASSUME NEW c \in Client, StartFailsEffect(c) PROVE Kinds'
  BY <1>22 DEF StartFailsEffect
<1>23. ASSUME NEW c \in Client, WaitFailsEffect(c) PROVE Kinds'
  BY <1>23 DEF WaitFailsEffect
<1>24. ASSUME NEW c \in Client, SaveEffect(c) PROVE Kinds'
  BY <1>24 DEF SaveEffect
<1>25. ASSUME NEW m \in Master, MasterDiesEffect(m) PROVE Kinds'
  BY <1>25 DEF MasterDiesEffect
<1>26. ASSUME ConsentEffect PROVE Kinds'
  BY <1>26 DEF ConsentEffect
<1> QED BY HostEffects, <1>1, <1>2, <1>3, <1>4, <1>5, <1>6, <1>7, <1>8, <1>9, <1>10, <1>11,
           <1>12, <1>13, <1>14, <1>15, <1>16, <1>17, <1>18, <1>19, <1>20, <1>21, <1>22,
           <1>23, <1>24, <1>25, <1>26

\* Whoever works has the lock until the end, the cleanup of a dropped connect
\* included.
LEMMA LockedStep ==
    ASSUME StateTyped, Kinds, Pending, queue \in Seq(Client), Locked, [HostNext]_hostVars
    PROVE  queue' \in Seq(Client) /\ Locked'
<1> USE DEF Locked, Established, Admitted, Working, Connects, Goes, Answered, Killed
<1>1. ASSUME NEW c \in Client, NEW k \in Kind, ArriveEffect(c, k)
      PROVE  queue' \in Seq(Client) /\ Locked'
  BY <1>1, SameQueue, JoinStep DEF ArriveEffect
<1>2. ASSUME NEW c \in Client, AcquireEffect(c) PROVE queue' \in Seq(Client) /\ Locked'
  BY <1>2, SameQueue DEF AcquireEffect
<1>3. ASSUME NEW c \in Client, EnqueueEffect(c) PROVE queue' \in Seq(Client) /\ Locked'
  BY <1>3, JoinStep DEF EnqueueEffect, Kinds
<1>4. ASSUME NEW c \in Client, BeginDisconnectEffect(c) PROVE queue' \in Seq(Client) /\ Locked'
  BY <1>4, SameQueue DEF BeginDisconnectEffect
<1>5. ASSUME NEW c \in Client, CancelEffect(c) PROVE queue' \in Seq(Client) /\ Locked'
  BY <1>5, SameQueue, LeaveStep DEF CancelEffect, DroppedEffect, Pending, Connecting
<1>6. ASSUME NEW c \in Client, ResumeEffect(c) PROVE queue' \in Seq(Client) /\ Locked'
  BY <1>6, SameQueue, LeaveStep DEF ResumeEffect
<1>7. ASSUME NEW c \in Client, AttachEffect(c) PROVE queue' \in Seq(Client) /\ Locked'
  BY <1>7, SameQueue, LeaveStep DEF AttachEffect
<1>8. ASSUME NEW c \in Client, StartEffect(c) PROVE queue' \in Seq(Client) /\ Locked'
  BY <1>8, SameQueue, LeaveStep DEF StartEffect
<1>9. ASSUME NEW c \in Client, FindReadyEffect(c) PROVE queue' \in Seq(Client) /\ Locked'
  BY <1>9, SameQueue DEF FindReadyEffect
<1>10. ASSUME NEW c \in Client, PublishEffect(c) PROVE queue' \in Seq(Client) /\ Locked'
  BY <1>10, SameQueue DEF PublishEffect
<1>11. ASSUME NEW c \in Client, ReplyReadyEffect(c) PROVE queue' \in Seq(Client) /\ Locked'
  BY <1>11, LeaveStep DEF ReplyReadyEffect
<1>12. ASSUME NEW c \in Client, CleanupEffect(c) PROVE queue' \in Seq(Client) /\ Locked'
  BY <1>12, LeaveStep DEF CleanupEffect
<1>13. ASSUME NEW c \in Client, ConfigureEffect(c) PROVE queue' \in Seq(Client) /\ Locked'
  BY <1>13, SameQueue, LeaveStep DEF ConfigureEffect
<1>14. ASSUME NEW c \in Client, CancelForwardEffect(c) PROVE queue' \in Seq(Client) /\ Locked'
  BY <1>14, SameQueue, LeaveStep DEF CancelForwardEffect
<1>15. ASSUME NEW c \in Client, AddForwardEffect(c) PROVE queue' \in Seq(Client) /\ Locked'
  BY <1>15, LeaveStep DEF AddForwardEffect
<1>16. ASSUME NEW c \in Client, ResumeForwardsEffect(c) PROVE queue' \in Seq(Client) /\ Locked'
  BY <1>16, SameQueue DEF ResumeForwardsEffect
<1>17. ASSUME NEW c \in Client, InspectEffect(c) PROVE queue' \in Seq(Client) /\ Locked'
  BY <1>17, SameQueue, LeaveStep DEF InspectEffect
<1>18. ASSUME NEW c \in Client, ActivateEffect(c) PROVE queue' \in Seq(Client) /\ Locked'
  BY <1>18, SameQueue DEF ActivateEffect
<1>19. ASSUME NEW c \in Client, EndDisconnectEffect(c) PROVE queue' \in Seq(Client) /\ Locked'
  BY <1>19, LeaveStep DEF EndDisconnectEffect
<1>20. ASSUME NEW c \in Client, BeginConfigureEffect(c) PROVE queue' \in Seq(Client) /\ Locked'
  BY <1>20, SameQueue DEF BeginConfigureEffect
<1>21. ASSUME NEW c \in Client, AuthenticateEffect(c) PROVE queue' \in Seq(Client) /\ Locked'
  BY <1>21, SameQueue DEF AuthenticateEffect
<1>22. ASSUME NEW c \in Client, StartFailsEffect(c) PROVE queue' \in Seq(Client) /\ Locked'
  BY <1>22, SameQueue DEF StartFailsEffect
<1>23. ASSUME NEW c \in Client, WaitFailsEffect(c) PROVE queue' \in Seq(Client) /\ Locked'
  BY <1>23, SameQueue DEF WaitFailsEffect
<1>24. ASSUME NEW c \in Client, SaveEffect(c) PROVE queue' \in Seq(Client) /\ Locked'
  BY <1>24, SameQueue DEF SaveEffect
<1>25. ASSUME NEW m \in Master, MasterDiesEffect(m) PROVE queue' \in Seq(Client) /\ Locked'
  BY <1>25, SameQueue DEF MasterDiesEffect
<1>26. ASSUME ConsentEffect PROVE queue' \in Seq(Client) /\ Locked'
  BY <1>26, SameQueue DEF ConsentEffect
<1> QED BY HostEffects, <1>1, <1>2, <1>3, <1>4, <1>5, <1>6, <1>7, <1>8, <1>9, <1>10, <1>11,
           <1>12, <1>13, <1>14, <1>15, <1>16, <1>17, <1>18, <1>19, <1>20, <1>21, <1>22,
           <1>23, <1>24, <1>25, <1>26

(***************************************************************************)
(* Who has the lock has it alone.                                           *)
(***************************************************************************)
\* At most one request works.
LEMMA Exclusive ==
    ASSUME Locked
    PROVE  /\ \A c, d \in Client : Holds(c) /\ req[d].phase \in Working => c = d
           /\ \A c, d \in Client : req[c].phase \in Working /\ req[d].phase \in Working => c = d
BY DEF Locked, Holds

\* Whoever changes the forward has the mutex, and nobody else has.
LEMMA ForwardsHeldStep ==
    ASSUME StateTyped, Kinds, ForwardsHeld, [HostNext]_hostVars
    PROVE  ForwardsHeld'
<1> USE HostAssumption
    DEF ForwardsHeld, Configuring, Unless, Goes, Keeps, Answered, Killed
<1>1. ASSUME NEW c \in Client, NEW k \in Kind, ArriveEffect(c, k) PROVE ForwardsHeld'
  BY <1>1 DEF ArriveEffect
<1>2. ASSUME NEW c \in Client, AcquireEffect(c) PROVE ForwardsHeld'
  BY <1>2 DEF AcquireEffect
<1>3. ASSUME NEW c \in Client, EnqueueEffect(c) PROVE ForwardsHeld'
  BY <1>3 DEF EnqueueEffect
<1>4. ASSUME NEW c \in Client, BeginDisconnectEffect(c) PROVE ForwardsHeld'
  BY <1>4 DEF BeginDisconnectEffect
<1>5. ASSUME NEW c \in Client, CancelEffect(c) PROVE ForwardsHeld'
  BY <1>5 DEF CancelEffect, DroppedEffect, Connecting, Kinds, Connects
<1>6. ASSUME NEW c \in Client, ResumeEffect(c) PROVE ForwardsHeld'
  BY <1>6 DEF ResumeEffect
<1>7. ASSUME NEW c \in Client, AttachEffect(c) PROVE ForwardsHeld'
  BY <1>7 DEF AttachEffect
<1>8. ASSUME NEW c \in Client, StartEffect(c) PROVE ForwardsHeld'
  BY <1>8 DEF StartEffect
<1>9. ASSUME NEW c \in Client, FindReadyEffect(c) PROVE ForwardsHeld'
  BY <1>9 DEF FindReadyEffect
<1>10. ASSUME NEW c \in Client, PublishEffect(c) PROVE ForwardsHeld'
  BY <1>10 DEF PublishEffect
<1>11. ASSUME NEW c \in Client, ReplyReadyEffect(c) PROVE ForwardsHeld'
  BY <1>11 DEF ReplyReadyEffect
<1>12. ASSUME NEW c \in Client, CleanupEffect(c) PROVE ForwardsHeld'
  BY <1>12 DEF CleanupEffect
<1>13. ASSUME NEW c \in Client, ConfigureEffect(c) PROVE ForwardsHeld'
  BY <1>13 DEF ConfigureEffect
<1>14. ASSUME NEW c \in Client, CancelForwardEffect(c) PROVE ForwardsHeld'
  BY <1>14 DEF CancelForwardEffect
<1>15. ASSUME NEW c \in Client, AddForwardEffect(c) PROVE ForwardsHeld'
  BY <1>15 DEF AddForwardEffect
<1>16. ASSUME NEW c \in Client, ResumeForwardsEffect(c) PROVE ForwardsHeld'
  BY <1>16 DEF ResumeForwardsEffect
<1>17. ASSUME NEW c \in Client, InspectEffect(c) PROVE ForwardsHeld'
  BY <1>17 DEF InspectEffect
<1>18. ASSUME NEW c \in Client, ActivateEffect(c) PROVE ForwardsHeld'
  BY <1>18 DEF ActivateEffect
<1>19. ASSUME NEW c \in Client, EndDisconnectEffect(c) PROVE ForwardsHeld'
  BY <1>19 DEF EndDisconnectEffect
<1>20. ASSUME NEW c \in Client, BeginConfigureEffect(c) PROVE ForwardsHeld'
  BY <1>20 DEF BeginConfigureEffect
<1>21. ASSUME NEW c \in Client, AuthenticateEffect(c) PROVE ForwardsHeld'
  BY <1>21 DEF AuthenticateEffect
<1>22. ASSUME NEW c \in Client, StartFailsEffect(c) PROVE ForwardsHeld'
  BY <1>22 DEF StartFailsEffect
<1>23. ASSUME NEW c \in Client, WaitFailsEffect(c) PROVE ForwardsHeld'
  BY <1>23 DEF WaitFailsEffect
<1>24. ASSUME NEW c \in Client, SaveEffect(c) PROVE ForwardsHeld'
  BY <1>24 DEF SaveEffect
<1>25. ASSUME NEW m \in Master, MasterDiesEffect(m) PROVE ForwardsHeld'
  BY <1>25 DEF MasterDiesEffect
<1>26. ASSUME ConsentEffect PROVE ForwardsHeld'
  BY <1>26 DEF ConsentEffect
<1> QED BY HostEffects, <1>1, <1>2, <1>3, <1>4, <1>5, <1>6, <1>7, <1>8, <1>9, <1>10, <1>11,
           <1>12, <1>13, <1>14, <1>15, <1>16, <1>17, <1>18, <1>19, <1>20, <1>21, <1>22,
           <1>23, <1>24, <1>25, <1>26

\* A process starts under the lock, while there is no socket.
LEMMA PendingStep ==
    ASSUME StateTyped, Kinds, Locked, Pending, [HostNext]_hostVars
    PROVE  Pending'
<1> USE HostAssumption, Exclusive
    DEF Pending, Established, Admitted, Working, Goes, Keeps, Answered, Killed, Master
<1>1. ASSUME NEW c \in Client, NEW k \in Kind, ArriveEffect(c, k) PROVE Pending'
  BY <1>1 DEF ArriveEffect
<1>2. ASSUME NEW c \in Client, AcquireEffect(c) PROVE Pending'
  BY <1>2 DEF AcquireEffect
<1>3. ASSUME NEW c \in Client, EnqueueEffect(c) PROVE Pending'
  BY <1>3 DEF EnqueueEffect
<1>4. ASSUME NEW c \in Client, BeginDisconnectEffect(c) PROVE Pending'
  BY <1>4 DEF BeginDisconnectEffect
<1>5. ASSUME NEW c \in Client, CancelEffect(c) PROVE Pending'
  BY <1>5 DEF CancelEffect, DroppedEffect, Connecting
<1>6. ASSUME NEW c \in Client, ResumeEffect(c) PROVE Pending'
  BY <1>6 DEF ResumeEffect
<1>7. ASSUME NEW c \in Client, AttachEffect(c) PROVE Pending'
  BY <1>7 DEF AttachEffect
<1>8. ASSUME NEW c \in Client, StartEffect(c) PROVE Pending'
  BY <1>8 DEF StartEffect
<1>9. ASSUME NEW c \in Client, FindReadyEffect(c) PROVE Pending'
  BY <1>9 DEF FindReadyEffect, Live
<1>10. ASSUME NEW c \in Client, PublishEffect(c) PROVE Pending'
  BY <1>10 DEF PublishEffect
<1>11. ASSUME NEW c \in Client, ReplyReadyEffect(c) PROVE Pending'
  BY <1>11 DEF ReplyReadyEffect
<1>12. ASSUME NEW c \in Client, CleanupEffect(c) PROVE Pending'
  BY <1>12 DEF CleanupEffect, Ends, Unless
<1>13. ASSUME NEW c \in Client, ConfigureEffect(c) PROVE Pending'
  BY <1>13 DEF ConfigureEffect
<1>14. ASSUME NEW c \in Client, CancelForwardEffect(c) PROVE Pending'
  BY <1>14 DEF CancelForwardEffect
<1>15. ASSUME NEW c \in Client, AddForwardEffect(c) PROVE Pending'
  BY <1>15 DEF AddForwardEffect, Add, Live
<1>16. ASSUME NEW c \in Client, ResumeForwardsEffect(c) PROVE Pending'
  BY <1>16 DEF ResumeForwardsEffect
<1>17. ASSUME NEW c \in Client, InspectEffect(c) PROVE Pending'
  BY <1>17 DEF InspectEffect
<1>18. ASSUME NEW c \in Client, ActivateEffect(c) PROVE Pending'
  BY <1>18 DEF ActivateEffect, Add, Live
<1>19. ASSUME NEW c \in Client, EndDisconnectEffect(c) PROVE Pending'
  BY <1>19 DEF EndDisconnectEffect, Ends
<1>20. ASSUME NEW c \in Client, BeginConfigureEffect(c) PROVE Pending'
  BY <1>20 DEF BeginConfigureEffect
<1>21. ASSUME NEW c \in Client, AuthenticateEffect(c) PROVE Pending'
  BY <1>21 DEF AuthenticateEffect
<1>22. ASSUME NEW c \in Client, StartFailsEffect(c) PROVE Pending'
  BY <1>22 DEF StartFailsEffect
<1>23. ASSUME NEW c \in Client, WaitFailsEffect(c) PROVE Pending'
  BY <1>23 DEF WaitFailsEffect
<1>24. ASSUME NEW c \in Client, SaveEffect(c) PROVE Pending'
  BY <1>24 DEF SaveEffect
<1>25. ASSUME NEW m \in Master, MasterDiesEffect(m) PROVE Pending'
  BY <1>25 DEF MasterDiesEffect, Ends
<1>26. ASSUME ConsentEffect PROVE Pending'
  BY <1>26 DEF ConsentEffect
<1> QED BY HostEffects, <1>1, <1>2, <1>3, <1>4, <1>5, <1>6, <1>7, <1>8, <1>9, <1>10, <1>11,
           <1>12, <1>13, <1>14, <1>15, <1>16, <1>17, <1>18, <1>19, <1>20, <1>21, <1>22,
           <1>23, <1>24, <1>25, <1>26

\* A socket appears only where there was none, so no master is shadowed.
LEMMA SocketsStep ==
    ASSUME StateTyped, Locked, Pending, Sockets, [HostNext]_hostVars
    PROVE  Sockets'
<1> USE HostAssumption
    DEF Sockets, Goes, Keeps, Answered, Killed, Master
<1>1. ASSUME NEW c \in Client, NEW k \in Kind, ArriveEffect(c, k) PROVE Sockets'
  BY <1>1 DEF ArriveEffect
<1>2. ASSUME NEW c \in Client, AcquireEffect(c) PROVE Sockets'
  BY <1>2 DEF AcquireEffect
<1>3. ASSUME NEW c \in Client, EnqueueEffect(c) PROVE Sockets'
  BY <1>3 DEF EnqueueEffect
<1>4. ASSUME NEW c \in Client, BeginDisconnectEffect(c) PROVE Sockets'
  BY <1>4 DEF BeginDisconnectEffect
<1>5. ASSUME NEW c \in Client, CancelEffect(c) PROVE Sockets'
  BY <1>5 DEF CancelEffect, DroppedEffect, Connecting
<1>6. ASSUME NEW c \in Client, ResumeEffect(c) PROVE Sockets'
  BY <1>6 DEF ResumeEffect
<1>7. ASSUME NEW c \in Client, AttachEffect(c) PROVE Sockets'
  BY <1>7 DEF AttachEffect
<1>8. ASSUME NEW c \in Client, StartEffect(c) PROVE Sockets'
  BY <1>8 DEF StartEffect
<1>9. ASSUME NEW c \in Client, FindReadyEffect(c) PROVE Sockets'
  BY <1>9 DEF FindReadyEffect
<1>10. ASSUME NEW c \in Client, PublishEffect(c) PROVE Sockets'
  BY <1>10 DEF PublishEffect
<1>11. ASSUME NEW c \in Client, ReplyReadyEffect(c) PROVE Sockets'
  BY <1>11 DEF ReplyReadyEffect
<1>12. ASSUME NEW c \in Client, CleanupEffect(c) PROVE Sockets'
  BY <1>12 DEF CleanupEffect, Ends, Unless
<1>13. ASSUME NEW c \in Client, ConfigureEffect(c) PROVE Sockets'
  BY <1>13 DEF ConfigureEffect
<1>14. ASSUME NEW c \in Client, CancelForwardEffect(c) PROVE Sockets'
  BY <1>14 DEF CancelForwardEffect
<1>15. ASSUME NEW c \in Client, AddForwardEffect(c) PROVE Sockets'
  BY <1>15 DEF AddForwardEffect
<1>16. ASSUME NEW c \in Client, ResumeForwardsEffect(c) PROVE Sockets'
  BY <1>16 DEF ResumeForwardsEffect
<1>17. ASSUME NEW c \in Client, InspectEffect(c) PROVE Sockets'
  BY <1>17 DEF InspectEffect
<1>18. ASSUME NEW c \in Client, ActivateEffect(c) PROVE Sockets'
  BY <1>18 DEF ActivateEffect
<1>19. ASSUME NEW c \in Client, EndDisconnectEffect(c) PROVE Sockets'
  BY <1>19 DEF EndDisconnectEffect, Ends, Live
<1>20. ASSUME NEW c \in Client, BeginConfigureEffect(c) PROVE Sockets'
  BY <1>20 DEF BeginConfigureEffect
<1>21. ASSUME NEW c \in Client, AuthenticateEffect(c) PROVE Sockets'
  BY <1>21 DEF AuthenticateEffect, Pending
<1>22. ASSUME NEW c \in Client, StartFailsEffect(c) PROVE Sockets'
  BY <1>22 DEF StartFailsEffect
<1>23. ASSUME NEW c \in Client, WaitFailsEffect(c) PROVE Sockets'
  BY <1>23 DEF WaitFailsEffect
<1>24. ASSUME NEW c \in Client, SaveEffect(c) PROVE Sockets'
  BY <1>24 DEF SaveEffect
<1>25. ASSUME NEW m \in Master, MasterDiesEffect(m) PROVE Sockets'
  BY <1>25 DEF MasterDiesEffect, Ends
<1>26. ASSUME ConsentEffect PROVE Sockets'
  BY <1>26 DEF ConsentEffect
<1> QED BY HostEffects, <1>1, <1>2, <1>3, <1>4, <1>5, <1>6, <1>7, <1>8, <1>9, <1>10, <1>11,
           <1>12, <1>13, <1>14, <1>15, <1>16, <1>17, <1>18, <1>19, <1>20, <1>21, <1>22,
           <1>23, <1>24, <1>25, <1>26

\* Nobody publishes a lease while a disconnect has the lock.
LEMMA ReleasedStep ==
    ASSUME StateTyped, Locked, Released, [HostNext]_hostVars
    PROVE  Released'
<1> USE Exclusive
    DEF Released, Established, Admitted, Working, Goes, Keeps, Answered, Killed
<1>1. ASSUME NEW c \in Client, NEW k \in Kind, ArriveEffect(c, k) PROVE Released'
  BY <1>1 DEF ArriveEffect
<1>2. ASSUME NEW c \in Client, AcquireEffect(c) PROVE Released'
  BY <1>2 DEF AcquireEffect
<1>3. ASSUME NEW c \in Client, EnqueueEffect(c) PROVE Released'
  BY <1>3 DEF EnqueueEffect
<1>4. ASSUME NEW c \in Client, BeginDisconnectEffect(c) PROVE Released'
  BY <1>4 DEF BeginDisconnectEffect
<1>5. ASSUME NEW c \in Client, CancelEffect(c) PROVE Released'
  BY <1>5 DEF CancelEffect, DroppedEffect
<1>6. ASSUME NEW c \in Client, ResumeEffect(c) PROVE Released'
  BY <1>6 DEF ResumeEffect
<1>7. ASSUME NEW c \in Client, AttachEffect(c) PROVE Released'
  BY <1>7 DEF AttachEffect
<1>8. ASSUME NEW c \in Client, StartEffect(c) PROVE Released'
  BY <1>8 DEF StartEffect
<1>9. ASSUME NEW c \in Client, FindReadyEffect(c) PROVE Released'
  BY <1>9 DEF FindReadyEffect
<1>10. ASSUME NEW c \in Client, PublishEffect(c) PROVE Released'
  BY <1>10 DEF PublishEffect
<1>11. ASSUME NEW c \in Client, ReplyReadyEffect(c) PROVE Released'
  BY <1>11 DEF ReplyReadyEffect
<1>12. ASSUME NEW c \in Client, CleanupEffect(c) PROVE Released'
  BY <1>12 DEF CleanupEffect
<1>13. ASSUME NEW c \in Client, ConfigureEffect(c) PROVE Released'
  BY <1>13 DEF ConfigureEffect
<1>14. ASSUME NEW c \in Client, CancelForwardEffect(c) PROVE Released'
  BY <1>14 DEF CancelForwardEffect
<1>15. ASSUME NEW c \in Client, AddForwardEffect(c) PROVE Released'
  BY <1>15 DEF AddForwardEffect
<1>16. ASSUME NEW c \in Client, ResumeForwardsEffect(c) PROVE Released'
  BY <1>16 DEF ResumeForwardsEffect
<1>17. ASSUME NEW c \in Client, InspectEffect(c) PROVE Released'
  BY <1>17 DEF InspectEffect
<1>18. ASSUME NEW c \in Client, ActivateEffect(c) PROVE Released'
  BY <1>18 DEF ActivateEffect
<1>19. ASSUME NEW c \in Client, EndDisconnectEffect(c) PROVE Released'
  BY <1>19 DEF EndDisconnectEffect
<1>20. ASSUME NEW c \in Client, BeginConfigureEffect(c) PROVE Released'
  BY <1>20 DEF BeginConfigureEffect
<1>21. ASSUME NEW c \in Client, AuthenticateEffect(c) PROVE Released'
  BY <1>21 DEF AuthenticateEffect
<1>22. ASSUME NEW c \in Client, StartFailsEffect(c) PROVE Released'
  BY <1>22 DEF StartFailsEffect
<1>23. ASSUME NEW c \in Client, WaitFailsEffect(c) PROVE Released'
  BY <1>23 DEF WaitFailsEffect
<1>24. ASSUME NEW c \in Client, SaveEffect(c) PROVE Released'
  BY <1>24 DEF SaveEffect
<1>25. ASSUME NEW m \in Master, MasterDiesEffect(m) PROVE Released'
  BY <1>25 DEF MasterDiesEffect
<1>26. ASSUME ConsentEffect PROVE Released'
  BY <1>26 DEF ConsentEffect
<1> QED BY HostEffects, <1>1, <1>2, <1>3, <1>4, <1>5, <1>6, <1>7, <1>8, <1>9, <1>10, <1>11,
           <1>12, <1>13, <1>14, <1>15, <1>16, <1>17, <1>18, <1>19, <1>20, <1>21, <1>22,
           <1>23, <1>24, <1>25, <1>26

\* Nobody pins a master that is not published, except its own connect.
LEMMA PinsStep ==
    ASSUME StateTyped, Locked, Pending, Sockets, Pins, [HostNext]_hostVars
    PROVE  Pins'
<1> USE HostAssumption
    DEF Pins, Goes, Keeps, Answered, Killed
<1>1. ASSUME NEW c \in Client, NEW k \in Kind, ArriveEffect(c, k) PROVE Pins'
  BY <1>1 DEF ArriveEffect
<1>2. ASSUME NEW c \in Client, AcquireEffect(c) PROVE Pins'
  BY <1>2 DEF AcquireEffect
<1>3. ASSUME NEW c \in Client, EnqueueEffect(c) PROVE Pins'
  BY <1>3 DEF EnqueueEffect
<1>4. ASSUME NEW c \in Client, BeginDisconnectEffect(c) PROVE Pins'
  BY <1>4 DEF BeginDisconnectEffect
<1>5. ASSUME NEW c \in Client, CancelEffect(c) PROVE Pins'
  BY <1>5 DEF CancelEffect, DroppedEffect, Connecting, Pending
<1>6. ASSUME NEW c \in Client, ResumeEffect(c) PROVE Pins'
  BY <1>6 DEF ResumeEffect
<1>7. ASSUME NEW c \in Client, AttachEffect(c) PROVE Pins'
  BY <1>7, Exclusive DEF AttachEffect, Sockets, Unless, Established, Admitted, Working
<1>8. ASSUME NEW c \in Client, StartEffect(c) PROVE Pins'
  BY <1>8 DEF StartEffect
<1>9. ASSUME NEW c \in Client, FindReadyEffect(c) PROVE Pins'
  BY <1>9 DEF FindReadyEffect
<1>10. ASSUME NEW c \in Client, PublishEffect(c) PROVE Pins'
  BY <1>10 DEF PublishEffect
<1>11. ASSUME NEW c \in Client, ReplyReadyEffect(c) PROVE Pins'
  BY <1>11 DEF ReplyReadyEffect
<1>12. ASSUME NEW c \in Client, CleanupEffect(c) PROVE Pins'
  BY <1>12 DEF CleanupEffect
<1>13. ASSUME NEW c \in Client, ConfigureEffect(c) PROVE Pins'
  BY <1>13 DEF ConfigureEffect
<1>14. ASSUME NEW c \in Client, CancelForwardEffect(c) PROVE Pins'
  BY <1>14 DEF CancelForwardEffect
<1>15. ASSUME NEW c \in Client, AddForwardEffect(c) PROVE Pins'
  BY <1>15 DEF AddForwardEffect
<1>16. ASSUME NEW c \in Client, ResumeForwardsEffect(c) PROVE Pins'
  BY <1>16 DEF ResumeForwardsEffect
<1>17. ASSUME NEW c \in Client, InspectEffect(c) PROVE Pins'
  BY <1>17 DEF InspectEffect
<1>18. ASSUME NEW c \in Client, ActivateEffect(c) PROVE Pins'
  BY <1>18 DEF ActivateEffect
<1>19. ASSUME NEW c \in Client, EndDisconnectEffect(c) PROVE Pins'
  BY <1>19 DEF EndDisconnectEffect
<1>20. ASSUME NEW c \in Client, BeginConfigureEffect(c) PROVE Pins'
  BY <1>20 DEF BeginConfigureEffect
<1>21. ASSUME NEW c \in Client, AuthenticateEffect(c) PROVE Pins'
  BY <1>21 DEF AuthenticateEffect
<1>22. ASSUME NEW c \in Client, StartFailsEffect(c) PROVE Pins'
  BY <1>22 DEF StartFailsEffect
<1>23. ASSUME NEW c \in Client, WaitFailsEffect(c) PROVE Pins'
  BY <1>23 DEF WaitFailsEffect
<1>24. ASSUME NEW c \in Client, SaveEffect(c) PROVE Pins'
  BY <1>24 DEF SaveEffect
<1>25. ASSUME NEW m \in Master, MasterDiesEffect(m) PROVE Pins'
  BY <1>25 DEF MasterDiesEffect
<1>26. ASSUME ConsentEffect PROVE Pins'
  BY <1>26 DEF ConsentEffect
<1> QED BY HostEffects, <1>1, <1>2, <1>3, <1>4, <1>5, <1>6, <1>7, <1>8, <1>9, <1>10, <1>11,
           <1>12, <1>13, <1>14, <1>15, <1>16, <1>17, <1>18, <1>19, <1>20, <1>21, <1>22,
           <1>23, <1>24, <1>25, <1>26

\* A connect never loses the pin of the master of the control path.
LEMMA PinnedStep ==
    ASSUME StateTyped, Locked, Sockets, Pending, Pinned, [HostNext]_hostVars
    PROVE  Pinned'
<1> USE HostAssumption, Exclusive
    DEF Pinned, Established, Admitted, Working, Goes, Keeps, Answered, Killed
<1>1. ASSUME NEW c \in Client, NEW k \in Kind, ArriveEffect(c, k) PROVE Pinned'
  BY <1>1 DEF ArriveEffect
<1>2. ASSUME NEW c \in Client, AcquireEffect(c) PROVE Pinned'
  BY <1>2 DEF AcquireEffect
<1>3. ASSUME NEW c \in Client, EnqueueEffect(c) PROVE Pinned'
  BY <1>3 DEF EnqueueEffect
<1>4. ASSUME NEW c \in Client, BeginDisconnectEffect(c) PROVE Pinned'
  BY <1>4 DEF BeginDisconnectEffect
<1>5. ASSUME NEW c \in Client, CancelEffect(c) PROVE Pinned'
  BY <1>5 DEF CancelEffect, DroppedEffect
<1>6. ASSUME NEW c \in Client, ResumeEffect(c) PROVE Pinned'
  BY <1>6 DEF ResumeEffect
<1>7. ASSUME NEW c \in Client, AttachEffect(c) PROVE Pinned'
  BY <1>7 DEF AttachEffect, Unless
<1>8. ASSUME NEW c \in Client, StartEffect(c) PROVE Pinned'
  BY <1>8 DEF StartEffect
<1>9. ASSUME NEW c \in Client, FindReadyEffect(c) PROVE Pinned'
  BY <1>9 DEF FindReadyEffect
<1>10. ASSUME NEW c \in Client, PublishEffect(c) PROVE Pinned'
  BY <1>10 DEF PublishEffect
<1>11. ASSUME NEW c \in Client, ReplyReadyEffect(c) PROVE Pinned'
  BY <1>11 DEF ReplyReadyEffect
<1>12. ASSUME NEW c \in Client, CleanupEffect(c) PROVE Pinned'
  BY <1>12 DEF CleanupEffect, Ends, Unless
<1>13. ASSUME NEW c \in Client, ConfigureEffect(c) PROVE Pinned'
  BY <1>13 DEF ConfigureEffect
<1>14. ASSUME NEW c \in Client, CancelForwardEffect(c) PROVE Pinned'
  BY <1>14 DEF CancelForwardEffect
<1>15. ASSUME NEW c \in Client, AddForwardEffect(c) PROVE Pinned'
  BY <1>15 DEF AddForwardEffect
<1>16. ASSUME NEW c \in Client, ResumeForwardsEffect(c) PROVE Pinned'
  BY <1>16 DEF ResumeForwardsEffect
<1>17. ASSUME NEW c \in Client, InspectEffect(c) PROVE Pinned'
  BY <1>17 DEF InspectEffect
<1>18. ASSUME NEW c \in Client, ActivateEffect(c) PROVE Pinned'
  BY <1>18 DEF ActivateEffect
<1>19. ASSUME NEW c \in Client, EndDisconnectEffect(c) PROVE Pinned'
  BY <1>19 DEF EndDisconnectEffect, Ends, Live
<1>20. ASSUME NEW c \in Client, BeginConfigureEffect(c) PROVE Pinned'
  BY <1>20 DEF BeginConfigureEffect
<1>21. ASSUME NEW c \in Client, AuthenticateEffect(c) PROVE Pinned'
  BY <1>21 DEF AuthenticateEffect, Pending
<1>22. ASSUME NEW c \in Client, StartFailsEffect(c) PROVE Pinned'
  BY <1>22 DEF StartFailsEffect
<1>23. ASSUME NEW c \in Client, WaitFailsEffect(c) PROVE Pinned'
  BY <1>23 DEF WaitFailsEffect
<1>24. ASSUME NEW c \in Client, SaveEffect(c) PROVE Pinned'
  BY <1>24 DEF SaveEffect
<1>25. ASSUME NEW m \in Master, MasterDiesEffect(m) PROVE Pinned'
  BY <1>25 DEF MasterDiesEffect, Ends
<1>26. ASSUME ConsentEffect PROVE Pinned'
  BY <1>26 DEF ConsentEffect
<1> QED BY HostEffects, <1>1, <1>2, <1>3, <1>4, <1>5, <1>6, <1>7, <1>8, <1>9, <1>10, <1>11,
           <1>12, <1>13, <1>14, <1>15, <1>16, <1>17, <1>18, <1>19, <1>20, <1>21, <1>22,
           <1>23, <1>24, <1>25, <1>26

(***************************************************************************)
(* The forward.                                                             *)
(***************************************************************************)
\* No disconnect of the same generation pauses or holds the host behind the back
\* of a connect.
LEMMA ResumedStep ==
    ASSUME StateTyped, Kinds, Locked, Resumed, [HostNext]_hostVars
    PROVE  Resumed'
<1>0. /\ req \in [Client -> Request] /\ generation \in Nat
      /\ \A d \in Client : req[d].gen \in Nat
  BY DEF StateTyped, RequestsTyped, Request
<1> USE <1>0, Exclusive
    DEF Resumed, Established, Admitted, Working, Goes, Keeps, Answered, Killed
<1>1. ASSUME NEW c \in Client, NEW k \in Kind, ArriveEffect(c, k) PROVE Resumed'
  <2>1. /\ req[c].phase = "new" /\ \A d \in Client \ {c} : req'[d] = req[d]
        /\ req'[c].kind = k /\ req'[c].phase \in {"pausing", "queued"}
        /\ req'[c].gen = IF k \in {"enable", "disable"} THEN 0 ELSE generation'
        /\ req'[c].reply = req[c].reply
    BY <1>1 DEF ArriveEffect
  <2>2. CASE k = "disconnect"
    <3>1. \A d \in Client \ {c} : req'[d].gen # generation'
      BY <1>1, <2>1, <2>2 DEF ArriveEffect, Kinds
    <3> QED BY <2>1, <3>1
  <2>3. CASE k # "disconnect"
    BY <1>1, <2>1, <2>3 DEF ArriveEffect
  <2> QED BY <2>2, <2>3
<1>2. ASSUME NEW c \in Client, AcquireEffect(c) PROVE Resumed'
  BY <1>2 DEF AcquireEffect
<1>3. ASSUME NEW c \in Client, EnqueueEffect(c) PROVE Resumed'
  BY <1>3 DEF EnqueueEffect
<1>4. ASSUME NEW c \in Client, BeginDisconnectEffect(c) PROVE Resumed'
  BY <1>4 DEF BeginDisconnectEffect
<1>5. ASSUME NEW c \in Client, CancelEffect(c) PROVE Resumed'
  BY <1>5 DEF CancelEffect, DroppedEffect
<1>6. ASSUME NEW c \in Client, ResumeEffect(c) PROVE Resumed'
  BY <1>6 DEF ResumeEffect
<1>7. ASSUME NEW c \in Client, AttachEffect(c) PROVE Resumed'
  BY <1>7 DEF AttachEffect
<1>8. ASSUME NEW c \in Client, StartEffect(c) PROVE Resumed'
  BY <1>8 DEF StartEffect
<1>9. ASSUME NEW c \in Client, FindReadyEffect(c) PROVE Resumed'
  BY <1>9 DEF FindReadyEffect
<1>10. ASSUME NEW c \in Client, PublishEffect(c) PROVE Resumed'
  BY <1>10 DEF PublishEffect
<1>11. ASSUME NEW c \in Client, ReplyReadyEffect(c) PROVE Resumed'
  BY <1>11 DEF ReplyReadyEffect
<1>12. ASSUME NEW c \in Client, CleanupEffect(c) PROVE Resumed'
  BY <1>12 DEF CleanupEffect
<1>13. ASSUME NEW c \in Client, ConfigureEffect(c) PROVE Resumed'
  BY <1>13 DEF ConfigureEffect
<1>14. ASSUME NEW c \in Client, CancelForwardEffect(c) PROVE Resumed'
  BY <1>14 DEF CancelForwardEffect
<1>15. ASSUME NEW c \in Client, AddForwardEffect(c) PROVE Resumed'
  BY <1>15 DEF AddForwardEffect
<1>16. ASSUME NEW c \in Client, ResumeForwardsEffect(c) PROVE Resumed'
  BY <1>16 DEF ResumeForwardsEffect
<1>17. ASSUME NEW c \in Client, InspectEffect(c) PROVE Resumed'
  BY <1>17 DEF InspectEffect
<1>18. ASSUME NEW c \in Client, ActivateEffect(c) PROVE Resumed'
  BY <1>18 DEF ActivateEffect
<1>19. ASSUME NEW c \in Client, EndDisconnectEffect(c) PROVE Resumed'
  BY <1>19 DEF EndDisconnectEffect
<1>20. ASSUME NEW c \in Client, BeginConfigureEffect(c) PROVE Resumed'
  BY <1>20 DEF BeginConfigureEffect
<1>21. ASSUME NEW c \in Client, AuthenticateEffect(c) PROVE Resumed'
  BY <1>21 DEF AuthenticateEffect
<1>22. ASSUME NEW c \in Client, StartFailsEffect(c) PROVE Resumed'
  BY <1>22 DEF StartFailsEffect
<1>23. ASSUME NEW c \in Client, WaitFailsEffect(c) PROVE Resumed'
  BY <1>23 DEF WaitFailsEffect
<1>24. ASSUME NEW c \in Client, SaveEffect(c) PROVE Resumed'
  BY <1>24 DEF SaveEffect
<1>25. ASSUME NEW m \in Master, MasterDiesEffect(m) PROVE Resumed'
  BY <1>25 DEF MasterDiesEffect
<1>26. ASSUME ConsentEffect PROVE Resumed'
  BY <1>26 DEF ConsentEffect
<1> QED BY HostEffects, <1>1, <1>2, <1>3, <1>4, <1>5, <1>6, <1>7, <1>8, <1>9, <1>10, <1>11,
           <1>12, <1>13, <1>14, <1>15, <1>16, <1>17, <1>18, <1>19, <1>20, <1>21, <1>22,
           <1>23, <1>24, <1>25, <1>26

\* The listener ends with its master and follows the record otherwise.
LEMMA ListenerStep ==
    ASSUME StateTyped, Kinds, Locked, Pending, Sockets, Listener, [HostNext]_hostVars
    PROVE  Listener'
<1>0. socket \in Master \cup {None} /\ listening \in Master \cup {None}
  BY DEF StateTyped, MastersTyped
<1> USE <1>0, HostAssumption
    DEF Listener, Live, Goes, Keeps, Answered, Killed
<1>1. ASSUME NEW c \in Client, NEW k \in Kind, ArriveEffect(c, k) PROVE Listener'
  BY <1>1 DEF ArriveEffect
<1>2. ASSUME NEW c \in Client, AcquireEffect(c) PROVE Listener'
  BY <1>2 DEF AcquireEffect
<1>3. ASSUME NEW c \in Client, EnqueueEffect(c) PROVE Listener'
  BY <1>3 DEF EnqueueEffect
<1>4. ASSUME NEW c \in Client, BeginDisconnectEffect(c) PROVE Listener'
  BY <1>4 DEF BeginDisconnectEffect
<1>5. ASSUME NEW c \in Client, CancelEffect(c) PROVE Listener'
  BY <1>5 DEF CancelEffect, DroppedEffect, Connecting, Kinds, Configuring, Connects
<1>6. ASSUME NEW c \in Client, ResumeEffect(c) PROVE Listener'
  BY <1>6 DEF ResumeEffect
<1>7. ASSUME NEW c \in Client, AttachEffect(c) PROVE Listener'
  BY <1>7 DEF AttachEffect
<1>8. ASSUME NEW c \in Client, StartEffect(c) PROVE Listener'
  BY <1>8 DEF StartEffect, Pending, Sockets, Master
<1>9. ASSUME NEW c \in Client, FindReadyEffect(c) PROVE Listener'
  BY <1>9 DEF FindReadyEffect
<1>10. ASSUME NEW c \in Client, PublishEffect(c) PROVE Listener'
  BY <1>10 DEF PublishEffect
<1>11. ASSUME NEW c \in Client, ReplyReadyEffect(c) PROVE Listener'
  BY <1>11 DEF ReplyReadyEffect
<1>12. ASSUME NEW c \in Client, CleanupEffect(c) PROVE Listener'
  BY <1>12 DEF CleanupEffect, Ends, Unless, Sockets
<1>13. ASSUME NEW c \in Client, ConfigureEffect(c) PROVE Listener'
  BY <1>13 DEF ConfigureEffect
<1>14. ASSUME NEW c \in Client, CancelForwardEffect(c) PROVE Listener'
  BY <1>14 DEF CancelForwardEffect
<1>15. ASSUME NEW c \in Client, AddForwardEffect(c) PROVE Listener'
  BY <1>15 DEF AddForwardEffect, Add
<1>16. ASSUME NEW c \in Client, ResumeForwardsEffect(c) PROVE Listener'
  BY <1>16 DEF ResumeForwardsEffect
<1>17. ASSUME NEW c \in Client, InspectEffect(c) PROVE Listener'
  BY <1>17 DEF InspectEffect, Waiting
<1>18. ASSUME NEW c \in Client, ActivateEffect(c) PROVE Listener'
  BY <1>18 DEF ActivateEffect, Add
<1>19. ASSUME NEW c \in Client, EndDisconnectEffect(c) PROVE Listener'
  BY <1>19 DEF EndDisconnectEffect, Waiting, Ends, Unless
<1>20. ASSUME NEW c \in Client, BeginConfigureEffect(c) PROVE Listener'
  BY <1>20 DEF BeginConfigureEffect, Waiting
<1>21. ASSUME NEW c \in Client, AuthenticateEffect(c) PROVE Listener'
  BY <1>21 DEF AuthenticateEffect, Pending, Master
<1>22. ASSUME NEW c \in Client, StartFailsEffect(c) PROVE Listener'
  BY <1>22 DEF StartFailsEffect
<1>23. ASSUME NEW c \in Client, WaitFailsEffect(c) PROVE Listener'
  BY <1>23 DEF WaitFailsEffect
<1>24. ASSUME NEW c \in Client, SaveEffect(c) PROVE Listener'
  BY <1>24 DEF SaveEffect
<1>25. ASSUME NEW m \in Master, MasterDiesEffect(m) PROVE Listener'
  BY <1>25 DEF MasterDiesEffect, Ends, Unless, Sockets
<1>26. ASSUME ConsentEffect PROVE Listener'
  BY <1>26 DEF ConsentEffect
<1> QED BY HostEffects, <1>1, <1>2, <1>3, <1>4, <1>5, <1>6, <1>7, <1>8, <1>9, <1>10, <1>11,
           <1>12, <1>13, <1>14, <1>15, <1>16, <1>17, <1>18, <1>19, <1>20, <1>21, <1>22,
           <1>23, <1>24, <1>25, <1>26

\* A rule waits beside a master that answers only if a command failed.
LEMMA ForwardedStep ==
    ASSUME StateTyped, Kinds, Locked, ForwardsHeld, Pending, Sockets, Resumed, Listener, Forwarded,
           [HostNext]_hostVars
    PROVE  Forwarded'
<1>0. socket \in Master \cup {None} /\ failures \in Nat /\ held \in BOOLEAN /\ present \in BOOLEAN
  BY DEF StateTyped, MastersTyped, RulesTyped
<1> USE <1>0, HostAssumption
    DEF Forwarded, Live, Fails, Unless, Goes, Keeps, Answered, Killed
<1>1. ASSUME NEW c \in Client, NEW k \in Kind, ArriveEffect(c, k) PROVE Forwarded'
  <2>1. /\ req[c].phase = "new" /\ \A d \in Client \ {c} : req'[d] = req[d]
        /\ req'[c].kind = k /\ req'[c].phase \in {"pausing", "queued"}
        /\ req'[c].gen = IF k \in {"enable", "disable"} THEN 0 ELSE generation'
        /\ req'[c].reply = req[c].reply
    BY <1>1 DEF ArriveEffect
  <2>2. CASE k = "disconnect"
    <3>1. \A d \in Client \ {c} : req'[d].gen # generation'
      <4>1. generation \in Nat /\ \A d \in Client : req[d].gen \in Nat
        BY DEF StateTyped, RequestsTyped, Request
      <4> QED BY <1>1, <2>1, <2>2, <4>1 DEF ArriveEffect, Kinds
    <3> QED BY <1>1, <2>1, <3>1 DEF ArriveEffect
  <2>3. CASE k # "disconnect"
    BY <1>1, <2>1, <2>3 DEF ArriveEffect
  <2> QED BY <2>2, <2>3
<1>2. ASSUME NEW c \in Client, AcquireEffect(c) PROVE Forwarded'
  BY <1>2 DEF AcquireEffect
<1>3. ASSUME NEW c \in Client, EnqueueEffect(c) PROVE Forwarded'
  BY <1>3 DEF EnqueueEffect
<1>4. ASSUME NEW c \in Client, BeginDisconnectEffect(c) PROVE Forwarded'
  BY <1>4 DEF BeginDisconnectEffect
<1>5. ASSUME NEW c \in Client, CancelEffect(c) PROVE Forwarded'
  BY <1>5 DEF CancelEffect, DroppedEffect, Connecting, ForwardsHeld, Configuring, Connects, Kinds
<1>6. ASSUME NEW c \in Client, ResumeEffect(c) PROVE Forwarded'
  BY <1>6 DEF ResumeEffect, ForwardsHeld, Configuring
<1>7. ASSUME NEW c \in Client, AttachEffect(c) PROVE Forwarded'
  BY <1>7 DEF AttachEffect, ForwardsHeld, Configuring
<1>8. ASSUME NEW c \in Client, StartEffect(c) PROVE Forwarded'
  BY <1>8 DEF StartEffect, Pending, Sockets, Master
<1>9. ASSUME NEW c \in Client, FindReadyEffect(c) PROVE Forwarded'
  BY <1>9 DEF FindReadyEffect
<1>10. ASSUME NEW c \in Client, PublishEffect(c) PROVE Forwarded'
  BY <1>10 DEF PublishEffect
<1>11. ASSUME NEW c \in Client, ReplyReadyEffect(c) PROVE Forwarded'
  BY <1>11 DEF ReplyReadyEffect, ForwardsHeld, Configuring
<1>12. ASSUME NEW c \in Client, CleanupEffect(c) PROVE Forwarded'
  BY <1>12 DEF CleanupEffect, Ends, Sockets
<1>13. ASSUME NEW c \in Client, ConfigureEffect(c) PROVE Forwarded'
  BY <1>13 DEF ConfigureEffect
<1>14. ASSUME NEW c \in Client, CancelForwardEffect(c) PROVE Forwarded'
  BY <1>14 DEF CancelForwardEffect, Listener, ForwardsHeld, Configuring
<1>15. ASSUME NEW c \in Client, AddForwardEffect(c) PROVE Forwarded'
  BY <1>15 DEF AddForwardEffect, Add, Resumed, Established, ForwardsHeld
<1>16. ASSUME NEW c \in Client, ResumeForwardsEffect(c) PROVE Forwarded'
  BY <1>16 DEF ResumeForwardsEffect
<1>17. ASSUME NEW c \in Client, InspectEffect(c) PROVE Forwarded'
  BY <1>17, Exclusive DEF InspectEffect, Waiting
<1>18. ASSUME NEW c \in Client, ActivateEffect(c) PROVE Forwarded'
  BY <1>18 DEF ActivateEffect, Add, Resumed, Established
<1>19. ASSUME NEW c \in Client, EndDisconnectEffect(c) PROVE Forwarded'
  BY <1>19, Exclusive DEF EndDisconnectEffect, Waiting, Ends, Dead, Established, Admitted,
     Working
<1>20. ASSUME NEW c \in Client, BeginConfigureEffect(c) PROVE Forwarded'
  BY <1>20 DEF BeginConfigureEffect, Waiting, Resumed, Established
<1>21. ASSUME NEW c \in Client, AuthenticateEffect(c) PROVE Forwarded'
  BY <1>21, Exclusive DEF AuthenticateEffect, Pending, Master, Established, Admitted, Working
<1>22. ASSUME NEW c \in Client, StartFailsEffect(c) PROVE Forwarded'
  BY <1>22 DEF StartFailsEffect
<1>23. ASSUME NEW c \in Client, WaitFailsEffect(c) PROVE Forwarded'
  BY <1>23 DEF WaitFailsEffect, ForwardsHeld, Configuring
<1>24. ASSUME NEW c \in Client, SaveEffect(c) PROVE Forwarded'
  BY <1>24 DEF SaveEffect, ForwardsHeld, Configuring
<1>25. ASSUME NEW m \in Master, MasterDiesEffect(m) PROVE Forwarded'
  BY <1>25 DEF MasterDiesEffect, Ends, Sockets
<1>26. ASSUME ConsentEffect PROVE Forwarded'
  BY <1>26 DEF ConsentEffect
<1> QED BY HostEffects, <1>1, <1>2, <1>3, <1>4, <1>5, <1>6, <1>7, <1>8, <1>9, <1>10, <1>11,
           <1>12, <1>13, <1>14, <1>15, <1>16, <1>17, <1>18, <1>19, <1>20, <1>21, <1>22,
           <1>23, <1>24, <1>25, <1>26

(***************************************************************************)
(* Disconnects.                                                             *)
(***************************************************************************)
\* A disconnect that is the newest keeps quiet connects out.
LEMMA PausedStep ==
    ASSUME StateTyped, Kinds, Pending, Paused, [HostNext]_hostVars
    PROVE  Paused'
<1>0. /\ req \in [Client -> Request] /\ generation \in Nat
      /\ \A d \in Client : req[d].gen \in Nat
  BY DEF StateTyped, RequestsTyped, Request
<1> USE <1>0, HostAssumption
    DEF Paused, Newer, Goes, Keeps, Answered, Killed
<1>1. ASSUME NEW c \in Client, NEW k \in Kind, ArriveEffect(c, k) PROVE Paused'
  <2>1. /\ req[c].phase = "new" /\ \A d \in Client \ {c} : req'[d] = req[d]
        /\ req'[c].kind = k /\ req'[c].phase \in {"pausing", "queued"}
        /\ req'[c].gen = IF k \in {"enable", "disable"} THEN 0 ELSE generation'
        /\ req'[c].reply = req[c].reply
    BY <1>1 DEF ArriveEffect
  <2>2. CASE k = "disconnect"
    <3>1. \A d \in Client \ {c} : req'[d].gen # generation'
      BY <1>1, <2>1, <2>2 DEF ArriveEffect, Kinds
    <3>2. paused'
      BY <1>1, <2>2 DEF ArriveEffect
    <3> QED BY <2>1, <2>2, <3>1, <3>2
  <2>3. CASE k # "disconnect"
    <3>1. generation' = generation
      BY <1>1, <2>3 DEF ArriveEffect
    <3>2. paused => paused'
      BY <1>1 DEF ArriveEffect
    <3>3. \A d \in Client : req[d].kind \in {"disconnect", "connect"} => req'[d] = req[d]
      BY <2>1, HostAssumption DEF Kinds, Kind, Connects
    <3>4. CASE Newer
      BY <3>1, <3>3, <3>4
    <3>5. CASE ~Newer
      <4>1. req'[c].phase = "queued"
        BY <1>1, <2>3 DEF ArriveEffect
      <4>2. SUFFICES ASSUME NEW d \in Client, req'[d].kind = "disconnect", req'[d].gen = generation'
                     PROVE  /\ paused'
                            /\ \A e \in Client : req'[e].kind = "quiet" /\ req'[e].gen = generation' =>
                                 req'[e].phase \in {"queued", "admitted", "done"}
        OBVIOUS
      <4>3. d # c /\ req[d].kind = "disconnect" /\ req[d].gen = generation
        BY <2>1, <2>3, <3>1, <4>2
      <4> QED BY <2>1, <3>1, <3>2, <3>5, <4>1, <4>3
    <3> QED BY <3>4, <3>5
  <2> QED BY <2>2, <2>3
<1>2. ASSUME NEW c \in Client, AcquireEffect(c) PROVE Paused'
  BY <1>2 DEF AcquireEffect
<1>3. ASSUME NEW c \in Client, EnqueueEffect(c) PROVE Paused'
  BY <1>3 DEF EnqueueEffect
<1>4. ASSUME NEW c \in Client, BeginDisconnectEffect(c) PROVE Paused'
  BY <1>4 DEF BeginDisconnectEffect
<1>5. ASSUME NEW c \in Client, CancelEffect(c) PROVE Paused'
  BY <1>5 DEF CancelEffect, DroppedEffect, Pending
<1>6. ASSUME NEW c \in Client, ResumeEffect(c) PROVE Paused'
  BY <1>6 DEF ResumeEffect
<1>7. ASSUME NEW c \in Client, AttachEffect(c) PROVE Paused'
  BY <1>7 DEF AttachEffect
<1>8. ASSUME NEW c \in Client, StartEffect(c) PROVE Paused'
  BY <1>8 DEF StartEffect
<1>9. ASSUME NEW c \in Client, FindReadyEffect(c) PROVE Paused'
  BY <1>9 DEF FindReadyEffect
<1>10. ASSUME NEW c \in Client, PublishEffect(c) PROVE Paused'
  BY <1>10 DEF PublishEffect
<1>11. ASSUME NEW c \in Client, ReplyReadyEffect(c) PROVE Paused'
  BY <1>11 DEF ReplyReadyEffect
<1>12. ASSUME NEW c \in Client, CleanupEffect(c) PROVE Paused'
  BY <1>12 DEF CleanupEffect
<1>13. ASSUME NEW c \in Client, ConfigureEffect(c) PROVE Paused'
  BY <1>13 DEF ConfigureEffect
<1>14. ASSUME NEW c \in Client, CancelForwardEffect(c) PROVE Paused'
  BY <1>14 DEF CancelForwardEffect
<1>15. ASSUME NEW c \in Client, AddForwardEffect(c) PROVE Paused'
  BY <1>15 DEF AddForwardEffect
<1>16. ASSUME NEW c \in Client, ResumeForwardsEffect(c) PROVE Paused'
  BY <1>16 DEF ResumeForwardsEffect
<1>17. ASSUME NEW c \in Client, InspectEffect(c) PROVE Paused'
  BY <1>17 DEF InspectEffect
<1>18. ASSUME NEW c \in Client, ActivateEffect(c) PROVE Paused'
  BY <1>18 DEF ActivateEffect
<1>19. ASSUME NEW c \in Client, EndDisconnectEffect(c) PROVE Paused'
  BY <1>19 DEF EndDisconnectEffect
<1>20. ASSUME NEW c \in Client, BeginConfigureEffect(c) PROVE Paused'
  BY <1>20 DEF BeginConfigureEffect
<1>21. ASSUME NEW c \in Client, AuthenticateEffect(c) PROVE Paused'
  BY <1>21 DEF AuthenticateEffect
<1>22. ASSUME NEW c \in Client, StartFailsEffect(c) PROVE Paused'
  BY <1>22 DEF StartFailsEffect
<1>23. ASSUME NEW c \in Client, WaitFailsEffect(c) PROVE Paused'
  BY <1>23 DEF WaitFailsEffect
<1>24. ASSUME NEW c \in Client, SaveEffect(c) PROVE Paused'
  BY <1>24 DEF SaveEffect
<1>25. ASSUME NEW m \in Master, MasterDiesEffect(m) PROVE Paused'
  BY <1>25 DEF MasterDiesEffect
<1>26. ASSUME ConsentEffect PROVE Paused'
  BY <1>26 DEF ConsentEffect
<1> QED BY HostEffects, <1>1, <1>2, <1>3, <1>4, <1>5, <1>6, <1>7, <1>8, <1>9, <1>10, <1>11,
           <1>12, <1>13, <1>14, <1>15, <1>16, <1>17, <1>18, <1>19, <1>20, <1>21, <1>22,
           <1>23, <1>24, <1>25, <1>26

\* Nothing comes back after the newest disconnect has been answered.
LEMMA FinalStep ==
    ASSUME StateTyped, Kinds, Locked, Pending, Sockets, Released, Listener, Paused, Final,
           [HostNext]_hostVars
    PROVE  Final'
<1>0. /\ req \in [Client -> Request] /\ generation \in Nat
      /\ \A d \in Client : req[d].gen \in Nat
  BY DEF StateTyped, RequestsTyped, Request
<1> USE <1>0, HostAssumption
    DEF Final, Newer, Established, Admitted, Goes, Keeps, Answered, Killed
<1>1. ASSUME NEW c \in Client, NEW k \in Kind, ArriveEffect(c, k) PROVE Final'
  <2>1. /\ req[c].phase = "new" /\ \A d \in Client \ {c} : req'[d] = req[d]
        /\ req'[c].kind = k /\ req'[c].phase \in {"pausing", "queued"}
        /\ req'[c].gen = IF k \in {"enable", "disable"} THEN 0 ELSE generation'
        /\ req'[c].reply = req[c].reply
    BY <1>1 DEF ArriveEffect
  <2>2. req'[c].reply # "ok"
    BY <2>1, HostAssumption DEF Kinds
  <2>3. CASE k = "disconnect"
    <3>1. \A d \in Client \ {c} : req'[d].gen # generation'
      BY <1>1, <2>1, <2>3 DEF ArriveEffect, Kinds
    <3> QED BY <2>1, <2>2, <3>1
  <2>4. CASE k # "disconnect"
    <3>1. /\ generation' = generation
          /\ UNCHANGED <<held, lease, listening, master>>
      BY <1>1, <2>4 DEF ArriveEffect
    <3>2. \A d \in Client : req[d].kind \in {"disconnect", "connect"} => req'[d] = req[d]
      BY <2>1, HostAssumption DEF Kinds, Kind, Connects
    <3> QED BY <2>1, <2>2, <3>1, <3>2
  <2> QED BY <2>3, <2>4
<1>2. ASSUME NEW c \in Client, AcquireEffect(c) PROVE Final'
  BY <1>2 DEF AcquireEffect
<1>3. ASSUME NEW c \in Client, EnqueueEffect(c) PROVE Final'
  BY <1>3 DEF EnqueueEffect
<1>4. ASSUME NEW c \in Client, BeginDisconnectEffect(c) PROVE Final'
  BY <1>4 DEF BeginDisconnectEffect
<1>5. ASSUME NEW c \in Client, CancelEffect(c) PROVE Final'
  BY <1>5 DEF CancelEffect, DroppedEffect, Pending, Connecting
<1>6. ASSUME NEW c \in Client, ResumeEffect(c) PROVE Final'
  BY <1>6 DEF ResumeEffect, Paused, Kinds
<1>7. ASSUME NEW c \in Client, AttachEffect(c) PROVE Final'
  BY <1>7 DEF AttachEffect
<1>8. ASSUME NEW c \in Client, StartEffect(c) PROVE Final'
  BY <1>8 DEF StartEffect
<1>9. ASSUME NEW c \in Client, FindReadyEffect(c) PROVE Final'
  BY <1>9 DEF FindReadyEffect
<1>10. ASSUME NEW c \in Client, PublishEffect(c) PROVE Final'
  BY <1>10 DEF PublishEffect
<1>11. ASSUME NEW c \in Client, ReplyReadyEffect(c) PROVE Final'
  BY <1>11 DEF ReplyReadyEffect, Kinds, Connects
<1>12. ASSUME NEW c \in Client, CleanupEffect(c) PROVE Final'
  BY <1>12 DEF CleanupEffect
<1>13. ASSUME NEW c \in Client, ConfigureEffect(c) PROVE Final'
  BY <1>13 DEF ConfigureEffect, Kinds, Configuring
<1>14. ASSUME NEW c \in Client, CancelForwardEffect(c) PROVE Final'
  BY <1>14 DEF CancelForwardEffect, Kinds, Configuring
<1>15. ASSUME NEW c \in Client, AddForwardEffect(c) PROVE Final'
  BY <1>15 DEF AddForwardEffect, Kinds, Configuring
<1>16. ASSUME NEW c \in Client, ResumeForwardsEffect(c) PROVE Final'
  BY <1>16 DEF ResumeForwardsEffect
<1>17. ASSUME NEW c \in Client, InspectEffect(c) PROVE Final'
  BY <1>17 DEF InspectEffect
<1>18. ASSUME NEW c \in Client, ActivateEffect(c) PROVE Final'
  BY <1>18 DEF ActivateEffect
<1>19. ASSUME NEW c \in Client, EndDisconnectEffect(c) PROVE Final'
  <2>1. \A d \in Client \ {c} : req[d].phase \notin Admitted
    BY <1>19, Exclusive DEF EndDisconnectEffect, Working
  <2>2. \A d \in Client \ {c} : req'[d] = req[d]
    BY <1>19 DEF EndDisconnectEffect
  <2>3. /\ req[c].phase = "releasing" /\ req'[c].phase = "done" /\ req'[c].kind = req[c].kind
        /\ req'[c].gen = req[c].gen /\ generation' = generation /\ held' = TRUE /\ lease' = lease
    BY <1>19 DEF EndDisconnectEffect
  <2>4. \A d \in Client : req'[d].phase \notin Admitted
    BY <2>1, <2>2, <2>3
  <2>5. lease' = None
    BY <2>3 DEF Released
  <2>6. \A m \in Master : master[m] # "starting"
    BY <2>1, <2>3 DEF Pending, Master
  <2>9. listening \in Master \cup {None}
    BY DEF StateTyped, MastersTyped
  <2>7. CASE req'[c].reply = "ok"
    <3>1. ~Dead /\ IF Live THEN Ends(socket) ELSE UNCHANGED <<master, listening>>
      BY <1>19, <2>7 DEF EndDisconnectEffect
    <3>2. CASE Live
      <4>1. \A m \in Master : master'[m] \notin {"starting", "up"}
        BY <2>6, <3>1, <3>2 DEF Ends, Sockets
      <4>2. listening' = None
        BY <3>1, <3>2, <2>9 DEF Ends, Unless, Listener, Sockets
      <4> QED BY <2>3, <2>4, <2>5, <4>1, <4>2
    <3>3. CASE ~Live
      <4>1. socket = None
        BY <3>1, <3>3 DEF Dead, Live
      <4>2. \A m \in Master : master'[m] \notin {"starting", "up"}
        BY <2>6, <3>1, <3>3, <4>1 DEF Sockets, Master
      <4>3. listening' = None
        BY <3>1, <3>3, <4>1, <2>9 DEF Listener, Sockets, Master
      <4> QED BY <2>3, <2>4, <2>5, <4>2, <4>3
    <3> QED BY <3>2, <3>3
  <2>8. CASE req'[c].reply # "ok"
    <3>1. UNCHANGED <<master, listening>>
      BY <1>19, <2>8 DEF EndDisconnectEffect
    <3> QED BY <2>2, <2>3, <2>4, <2>5, <2>8, <3>1
  <2> QED BY <2>7, <2>8
<1>20. ASSUME NEW c \in Client, BeginConfigureEffect(c) PROVE Final'
  BY <1>20 DEF BeginConfigureEffect, Paused
<1>21. ASSUME NEW c \in Client, AuthenticateEffect(c) PROVE Final'
  BY <1>21 DEF AuthenticateEffect
<1>22. ASSUME NEW c \in Client, StartFailsEffect(c) PROVE Final'
  BY <1>22 DEF StartFailsEffect
<1>23. ASSUME NEW c \in Client, WaitFailsEffect(c) PROVE Final'
  BY <1>23 DEF WaitFailsEffect
<1>24. ASSUME NEW c \in Client, SaveEffect(c) PROVE Final'
  BY <1>24 DEF SaveEffect
<1>25. ASSUME NEW m \in Master, MasterDiesEffect(m) PROVE Final'
  BY <1>25 DEF MasterDiesEffect
<1>26. ASSUME ConsentEffect PROVE Final'
  BY <1>26 DEF ConsentEffect
<1> QED BY HostEffects, <1>1, <1>2, <1>3, <1>4, <1>5, <1>6, <1>7, <1>8, <1>9, <1>10, <1>11,
           <1>12, <1>13, <1>14, <1>15, <1>16, <1>17, <1>18, <1>19, <1>20, <1>21, <1>22,
           <1>23, <1>24, <1>25, <1>26

(***************************************************************************)
(* The inductive invariant and what follows from it.                        *)
(***************************************************************************)
\* The invariant holds initially.
LEMMA HostInvInit == HostInit => HostInv
<1> SUFFICES ASSUME HostInit PROVE HostInv
  OBVIOUS
<1> USE HostAssumption DEF HostInit
<1>1. StateTyped
  <2>1. RequestsTyped
    BY DEF RequestsTyped, Request, Phase
  <2>2. MastersTyped
    BY DEF MastersTyped, Master
  <2>3. RulesTyped
    <3>1. consents \in 0 .. MaxConsents /\ deaths \in Nat /\ failures \in Nat
      OBVIOUS
    <3>2. deaths + failures <= MaxFaults
      OBVIOUS
    <3>3. /\ rule \in {"none", "waiting", "active", "error"}
          /\ present \in BOOLEAN /\ held \in BOOLEAN
      OBVIOUS
    <3> QED BY <3>1, <3>2, <3>3 DEF RulesTyped
  <2> QED BY <2>1, <2>2, <2>3 DEF StateTyped
<1>2. queue \in Seq(Client) /\ DOMAIN queue = {}
  OBVIOUS
<1>3. \A c \in Client : /\ req[c].kind = None /\ req[c].phase = "new" /\ req[c].gen = 0
                        /\ req[c].pending = FALSE /\ req[c].pinned = None /\ req[c].reply = None
  OBVIOUS
<1>4. \A m \in Master : master[m] = IF m = socket THEN "up" ELSE "none"
  OBVIOUS
<1>11. generation = 0 /\ None \notin {"connect", "quiet", "disconnect", "ok"}
  BY DEF Kind, Connects
<1> HIDE DEF HostInit
<1>5. Kinds
  <2>1. \A c \in Client : req[c].gen <= generation
    <3>1. 0 <= 0
      OBVIOUS
    <3>2. ASSUME NEW c \in Client PROVE req[c].gen = 0 /\ generation = 0
      BY <1>3, <1>11
    <3> QED BY <3>1, <3>2, Zenon
  <2> QED BY <1>3, <1>11, <2>1 DEF Kinds, Established, Admitted, Configuring
<1>6. Locked /\ ForwardsHeld
  BY <1>2, <1>3 DEF HostInit, Locked, Distinct, Queued, Working, Admitted, Established,
       ForwardsHeld, Configuring
<1>7. Pending /\ Sockets
  BY <1>3, <1>4 DEF HostInit, Pending, Sockets, Master
<1>8. Pins /\ Pinned /\ Released /\ Resumed
  BY <1>3 DEF HostInit, Pins, Pinned, Released, Resumed, Established
<1>9. Listener /\ Forwarded
  BY <1>3 DEF HostInit, Listener, Forwarded
<1>10. Paused /\ Final
  BY <1>3, <1>11 DEF Paused, Final
<1> QED BY <1>1, <1>2, <1>5, <1>6, <1>7, <1>8, <1>9, <1>10 DEF HostInv

\* Every step preserves it.
LEMMA HostInvStep == HostInv /\ [HostNext]_hostVars => HostInv'
<1> SUFFICES ASSUME HostInv, [HostNext]_hostVars PROVE HostInv'
  OBVIOUS
<1> USE DEF HostInv
<1>1. StateTyped'
  BY RequestsStep, BlockedStep, MastersStep, RulesStep DEF StateTyped, RequestsTyped
<1>2. Kinds' /\ queue' \in Seq(Client) /\ Locked' /\ ForwardsHeld'
  BY KindsStep, LockedStep, ForwardsHeldStep
<1>3. Pending' /\ Sockets' /\ Pins' /\ Pinned' /\ Released'
  BY PendingStep, SocketsStep, PinsStep, PinnedStep, ReleasedStep
<1>4. Resumed' /\ Listener' /\ Forwarded'
  BY ResumedStep, ListenerStep, ForwardedStep
<1>5. Paused' /\ Final'
  BY PausedStep, FinalStep
<1> QED BY <1>1, <1>2, <1>3, <1>4, <1>5

\* HostInv, from which the properties follow, always holds.
THEOREM HostInvariant == HostSpec => []HostInv
BY HostInvInit, HostInvStep, PTL DEF HostSpec

\* Every request, mutex, master and rule keeps its type, and a request that is
\* answered holds no lock.
THEOREM HostTyped == HostSpec => []HostTypeOK
<1>1. HostInv => HostTypeOK
  <2> SUFFICES ASSUME HostInv PROVE HostTypeOK
    OBVIOUS
  <2>1. /\ StateTyped /\ queue \in Seq(Client) /\ Locked /\ ForwardsHeld
    BY DEF HostInv
  <2>2. \A c \in Client : req[c].phase = "done" =>
          forwards # c /\ \A n \in DOMAIN queue : queue[n] # c
    BY <2>1 DEF Locked, ForwardsHeld, Queued, Working, Admitted, Established, Configuring
  <2>3. deaths + failures \in 0 .. MaxFaults
    BY <2>1, HostAssumption DEF StateTyped, RulesTyped
  <2> QED BY <2>1, <2>2, <2>3
      DEF HostTypeOK, StateTyped, RequestsTyped, MastersTyped, RulesTyped, Request
<1> QED BY <1>1, HostInvariant, PTL

\* DisconnectFinal, for any number of clients and whatever they ask for: once the
\* newest disconnect is answered, no connect that came before it, in whatever
\* phase the disconnect caught it, leaves a master, a listener or a lease behind
\* or resumes the host.
THEOREM DisconnectIsFinal == HostSpec => []DisconnectFinal
<1>1. HostInv => DisconnectFinal
  BY DEF HostInv, Paused, Final, Newer, DisconnectFinal
<1> QED BY <1>1, HostInvariant, PTL

\* MasterOwned: a master that starts has the lock of the host, one that is up has
\* the control path, and a cleanup ends nobody else's connection.
THEOREM MastersOwned == HostSpec => []MasterOwned
<1>1. HostInv => MasterOwned
  <2> SUFFICES ASSUME HostInv, NEW m \in Master
               PROVE  /\ master[m] = "starting" => Holds(m)
                      /\ master[m] = "up" => socket = m
                      /\ m \in Client /\ req[m].phase = "cleanup" =>
                           lease # m /\ \A d \in Client \ {m} : req[d].pinned # m
    BY DEF MasterOwned
  <2>1. master[m] = "starting" => Holds(m)
    BY DEF HostInv, Pending, Locked, Working, Admitted, Established, Master
  <2>2. master[m] = "up" => socket = m
    BY DEF HostInv, Sockets
  <2>3. m \in Client /\ req[m].phase = "cleanup" =>
          lease # m /\ \A d \in Client \ {m} : req[d].pinned # m
    BY DEF HostInv, Pins
  <2> QED BY <2>1, <2>2, <2>3
<1> QED BY <1>1, HostInvariant, PTL

\* ReadyComplete: a connect that is answered has its master pinned and the
\* forward in it, unless a command failed or somebody is changing the forward.
THEOREM ReadyIsComplete == HostSpec => []ReadyComplete
<1>1. HostInv => ReadyComplete
  <2> SUFFICES ASSUME HostInv, NEW c \in Client, req[c].phase = "replying",
                      req[c].gen = generation, Live
               PROVE  /\ lease = socket
                      /\ rule \in {"waiting", "error"} => failures > 0
                      /\ rule = "active" /\ forwards = None => listening = socket
    BY DEF ReadyComplete
  <2>1. lease = socket
    BY DEF HostInv, Pinned, Live
  <2>2. rule \in {"waiting", "error"} => failures > 0
    BY DEF HostInv, Forwarded
  <2>3. ASSUME rule = "active", forwards = None PROVE listening = socket
    <3>1. present
      BY <2>3 DEF HostInv, Listener
    <3>2. \A e \in Client : req[e].phase # "adding"
      BY <2>3, HostAssumption DEF HostInv, ForwardsHeld, Configuring
    <3> QED BY <3>1, <3>2 DEF HostInv, Listener
  <2> QED BY <2>1, <2>2, <2>3
<1> QED BY <1>1, HostInvariant, PTL
=============================================================================
