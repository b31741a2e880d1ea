--------------------------- MODULE HostConnection ---------------------------
(***************************************************************************)
(* ctld's private OpenSSH master of one host: explicit and quiet connects,   *)
(* disconnects, the port forward that lives in the master, and the ownership *)
(* of a master that is being started.                                        *)
(*                                                                         *)
(* A connect takes an attempt, the generation at that moment, and carries on *)
(* under TargetAttempt::run, which gives up as soon as the generation has    *)
(* changed; it also gives up when its client closes the socket.  A disconnect *)
(* changes the generation first and waits for the lock of the host then.  A   *)
(* started process belongs to its PendingMaster until the connect is          *)
(* published; when that is dropped, the lock stays with a cleanup.           *)
(***************************************************************************)
EXTENDS Naturals, Sequences

CONSTANTS
    Client,         \* connections to ctld, each with one request
    Asks,           \* what every client may ask for
    Old,            \* a master left by an earlier ctld
    MaxFaults,      \* commands on a control socket that fail, ready masters that die
    MaxConsents,    \* authorizations of this host by other requests
    None

Connects == {"connect", "quiet"}
Kind == Connects \cup {"disconnect", "enable", "disable"}

ASSUME HostAssumption ==
    /\ Asks \in [Client -> SUBSET Kind]
    /\ Old \notin Client /\ None \notin Client \cup {Old} \cup Kind \cup {"ok", "error"}
    /\ MaxFaults \in Nat /\ MaxConsents \in Nat

VARIABLES
    generation,     \* Revision of the TargetLifecycle: changed by every pause
    authorization,  \* changed by every consent
    paused,         \* the user has disconnected
    blocked,        \* authentication_required
    req,            \* the request of every client
    queue,          \* TargetLifecycle::lock: its holder, then those who wait for it
    forwards,       \* State::forwards, the mutex
    master,         \* the OpenSSH process started by a request, and Old
    socket,         \* the master whose socket is at the control path, dead or alive
    lease,          \* private_masters: the master that is pinned
    rule,           \* the record of the forward: its state
    present,        \* its listener_present
    held,           \* ForwardRegistry::paused holds the host
    listening,      \* the master that has the listener
    consents, deaths, failures

revision == <<generation, authorization, paused, blocked>>
mutexes == <<queue, forwards>>
ssh == <<master, socket>>
rules == <<rule, present, held, listening>>
bounds == <<consents, deaths, failures>>
hostVars == <<revision, req, mutexes, ssh, lease, rules, bounds>>

Master == Client \cup {Old}

\* Where a request is.  A connect: waits for the lock, has it, has passed the
\* policy, is to look for a master, looks with the mutex of the forwards,
\* pins the one it found or starts one and waits for it, is offered to save
\* a credential, activates the forward, publishes and replies.
Phase == {"new", "queued", "admitted", "resumed", "inspect", "attach", "start",
          "waiting", "saving", "activate", "publish", "replying", "cleanup",
          "pausing", "releasing", "changing", "cancelling", "adding", "done"}

HostTypeOK ==
    /\ generation \in Nat /\ authorization \in Nat
    /\ paused \in BOOLEAN /\ blocked \in BOOLEAN
    /\ req \in [Client -> [kind : Kind \cup {None}, phase : Phase, gen : Nat, auth : Nat,
                           pending : BOOLEAN, pinned : Master \cup {None},
                           reply : {None, "ok", "error"}]]
    /\ queue \in Seq(Client) /\ forwards \in Client \cup {None}
    /\ \A c \in Client : req[c].phase = "done" => forwards # c /\ \A n \in DOMAIN queue : queue[n] # c
    /\ master \in [Master -> {"none", "starting", "up", "gone"}]
    /\ socket \in Master \cup {None}
    /\ lease \in Master \cup {None}
    /\ rule \in {"none", "waiting", "active", "error"} /\ present \in BOOLEAN /\ held \in BOOLEAN
    /\ listening \in Master \cup {None}
    /\ consents \in 0 .. MaxConsents /\ deaths + failures \in 0 .. MaxFaults

Fails == deaths + failures < MaxFaults /\ failures' = failures + 1

Live == socket # None /\ master[socket] = "up"
Dead == socket # None /\ master[socket] # "up"

Connecting(c) == req[c].kind \in Connects /\ req[c].phase \notin {"new", "cleanup", "done"}

(***************************************************************************)
(* The end of a request.                                                    *)
(***************************************************************************)
Unless(holder, c) == IF holder = c THEN None ELSE holder

\* The queue without c, which is in it at most once: those behind move up.
Left(c) ==
    LET at == CHOOSE n \in DOMAIN queue : queue[n] = c IN
    IF \E n \in DOMAIN queue : queue[n] = c
    THEN [n \in 1 .. Len(queue) - 1 |-> IF n < at THEN queue[n] ELSE queue[n + 1]]
    ELSE queue
Holds(c) == queue # <<>> /\ Head(queue) = c

Reply(c, answer) ==
    /\ req' = [req EXCEPT ![c].phase = "done", ![c].reply = answer, ![c].pinned = None,
                          ![c].auth = 0]
    /\ queue' = Left(c) /\ forwards' = Unless(forwards, c)

\* Mutant: the child is not killed.
DropAlive(c, answer) ==
    /\ req' = [req EXCEPT ![c].phase = "cleanup", ![c].reply = answer]
    /\ forwards' = Unless(forwards, c)
    /\ UNCHANGED <<master, queue>>

\* The PendingMaster is dropped: its child is killed, the lock goes to the
\* cleanup.
DropPending(c, answer) ==
    /\ req' = [req EXCEPT ![c].phase = "cleanup", ![c].reply = answer]
    /\ master' = [master EXCEPT ![c] = IF @ = "starting" THEN "gone" ELSE @]
    /\ forwards' = Unless(forwards, c)
    /\ UNCHANGED queue

GiveUp(c, answer) ==
    IF req[c].pending THEN DropPending(c, answer) ELSE Reply(c, answer) /\ UNCHANGED master

\* The master of the control path exits and takes its listener along.
Exited(m, stays) ==
    /\ master' = [master EXCEPT ![m] = "gone"]
    /\ socket' = IF socket = m /\ ~stays THEN None ELSE socket
    /\ listening' = Unless(listening, m)

(***************************************************************************)
(* TargetLifecycle                                                          *)
(***************************************************************************)
\* A request arrives.  A connect takes an attempt and its place in the queue;
\* a disconnect publishes the cancellation first.
Arrive(c, k) ==
    /\ req[c].phase = "new"
    /\ generation' = IF k = "disconnect" THEN generation + 1 ELSE generation
    /\ paused' = (k = "disconnect" \/ paused)
    /\ req' = [req EXCEPT ![c].kind = k, ![c].phase = IF k = "disconnect" THEN "pausing" ELSE "queued",
                          ![c].gen = IF k \in {"enable", "disable"} THEN 0 ELSE generation',
                          ![c].auth = IF k \in Connects THEN authorization ELSE 0]
    /\ queue' = IF k \in Connects THEN Append(queue, c) ELSE queue
    /\ UNCHANGED <<authorization, blocked, forwards, ssh, lease, rules, bounds>>

\* What a connect leaves when it is dropped: the command that adds the listener
\* may have been carried out.
Dropped(c) ==
    /\ GiveUp(c, "error")
    /\ \/ UNCHANGED listening
       \/ /\ req[c].phase = "activate" /\ forwards = None /\ ~held /\ ~present /\ rule # "none" /\ Live
          /\ listening' = socket
    /\ UNCHANGED <<revision, socket, lease, rule, present, held, bounds>>

\* The client closes its socket.
Close(c) == Connecting(c) /\ Dropped(c)

\* Mutant: a connect that has started a process waits for it.
CancelUnstarted(c) == Connecting(c) /\ req[c].gen # generation /\ ~req[c].pending /\ Dropped(c)

\* TargetAttempt::run
Cancel(c) == Connecting(c) /\ req[c].gen # generation /\ Dropped(c)

\* authorized
Authorized(gen) ==
    IF ~paused /\ gen = generation
    THEN blocked' = FALSE /\ authorization' = authorization + 1
    ELSE UNCHANGED <<blocked, authorization>>

\* Somebody else's connection, or the consent after a wake, authorizes the
\* host; with an attempt of an earlier generation it changes nothing.
Consent ==
    /\ consents < MaxConsents /\ ~paused
    /\ Authorized(generation)
    /\ consents' = consents + 1
    /\ UNCHANGED <<generation, paused, req, mutexes, ssh, lease, rules, deaths, failures>>

(***************************************************************************)
(* ensure_master                                                            *)
(***************************************************************************)
Acquire(c) ==
    /\ req[c].kind \in Connects /\ req[c].phase = "queued" /\ Holds(c)
    /\ req' = [req EXCEPT ![c].phase = "admitted"]
    /\ UNCHANGED <<revision, mutexes, ssh, lease, rules, bounds>>

\* Mutant: any explicit connect resumes the host.
ResumeAny(c) ==
    /\ req[c].phase = "admitted"
    /\ IF req[c].kind = "connect" \/ ~paused
       THEN /\ req' = [req EXCEPT ![c].phase = "resumed", ![c].auth = authorization + 1]
            /\ authorization' = authorization + 1
            /\ paused' = FALSE /\ blocked' = FALSE
            /\ UNCHANGED mutexes
       ELSE Reply(c, "error") /\ UNCHANGED <<authorization, paused, blocked>>
    /\ UNCHANGED <<generation, ssh, lease, rules, bounds>>

\* resume, by an explicit connect that arrived after the latest disconnect;
\* require_connected.
Resume(c) ==
    /\ req[c].phase = "admitted"
    /\ \/ /\ req[c].kind = "connect" /\ req[c].gen = generation
          /\ req' = [req EXCEPT ![c].phase = "resumed", ![c].auth = authorization + 1]
          /\ authorization' = authorization + 1
          /\ paused' = FALSE /\ blocked' = FALSE
          /\ UNCHANGED mutexes
       \/ /\ req[c].kind = "quiet" /\ ~paused
          /\ req' = [req EXCEPT ![c].phase = "resumed"]
          /\ UNCHANGED <<authorization, paused, blocked, mutexes>>
       \/ /\ IF req[c].kind = "connect" THEN req[c].gen # generation ELSE paused
          /\ Reply(c, "error")
          /\ UNCHANGED <<authorization, paused, blocked>>
    /\ UNCHANGED <<generation, ssh, lease, rules, bounds>>

ResumeForwards(c) ==
    /\ req[c].phase = "resumed" /\ forwards = None
    /\ held' = FALSE
    /\ req' = [req EXCEPT ![c].phase = "inspect"]
    /\ UNCHANGED <<revision, mutexes, ssh, lease, rule, present, listening, bounds>>

Waiting(state) == IF state = "none" THEN "none" ELSE "waiting"

\* Mutant: the forwards of a master that is gone keep their state.
InspectKeepsRules(c) ==
    /\ req[c].phase = "inspect" /\ forwards = None
    /\ \/ /\ Live
          /\ req' = [req EXCEPT ![c].phase = "attach"]
          /\ UNCHANGED <<mutexes, lease, failures>>
       \/ /\ socket = None
          /\ lease' = None
          /\ req' = [req EXCEPT ![c].phase = "start"]
          /\ UNCHANGED <<mutexes, failures>>
       \/ /\ (Dead /\ UNCHANGED failures) \/ (Live /\ Fails)
          /\ Reply(c, "error")
          /\ UNCHANGED lease
    /\ UNCHANGED <<revision, ssh, rules, consents, deaths>>

\* reuse_master_or_prepare, under the mutex of the forwards.  A socket whose
\* master does not answer is neither there nor gone.
Inspect(c) ==
    /\ req[c].phase = "inspect" /\ forwards = None
    /\ \/ /\ Live
          /\ req' = [req EXCEPT ![c].phase = "attach"]
          /\ UNCHANGED <<mutexes, lease, rule, present, failures>>
       \/ /\ socket = None
          /\ lease' = None
          /\ rule' = Waiting(rule) /\ present' = FALSE
          /\ req' = [req EXCEPT ![c].phase = "start"]
          /\ UNCHANGED <<mutexes, failures>>
       \/ /\ (Dead /\ UNCHANGED failures) \/ (Live /\ Fails)
          /\ Reply(c, "error")
          /\ UNCHANGED <<lease, rule, present>>
    /\ UNCHANGED <<revision, ssh, held, listening, consents, deaths>>

\* reuse_ready_master: the master is pinned unless the lease is for its socket.
Attach(c) ==
    /\ req[c].phase = "attach"
    /\ IF socket # None /\ (lease = socket \/ Live)
       THEN /\ req' = [req EXCEPT ![c].phase = "activate", ![c].pinned = Unless(socket, lease)]
            /\ UNCHANGED mutexes
       ELSE Reply(c, "error")
    /\ UNCHANGED <<revision, ssh, lease, rules, bounds>>

\* establish_master, which starts a process.
Start(c) ==
    /\ req[c].phase = "start"
    /\ IF req[c].kind = "quiet" /\ (paused \/ blocked)
       THEN Reply(c, "error") /\ UNCHANGED master
       ELSE /\ master' = [master EXCEPT ![c] = "starting"]
            /\ req' = [req EXCEPT ![c].phase = "waiting", ![c].pending = TRUE]
            /\ UNCHANGED mutexes
    /\ UNCHANGED <<revision, socket, lease, rules, bounds>>

\* OpenSSH, with the answers of the user: it publishes its socket ...
Authenticate(c) ==
    /\ master[c] = "starting"
    /\ master' = [master EXCEPT ![c] = "up"]
    /\ socket' = c
    /\ UNCHANGED <<revision, req, mutexes, lease, rules, bounds>>

\* ... or exits;
StartFails(c) ==
    /\ master[c] = "starting"
    /\ master' = [master EXCEPT ![c] = "gone"]
    /\ UNCHANGED <<revision, req, mutexes, socket, lease, rules, bounds>>

\* a master that is ready may end at any time, and leave its socket when it
\* is killed.
MasterDies(m) ==
    /\ master[m] = "up" /\ deaths + failures < MaxFaults
    /\ \E stays \in BOOLEAN : Exited(m, stays)
    /\ deaths' = deaths + 1
    /\ UNCHANGED <<revision, req, mutexes, lease, rule, present, held, consents, failures>>

\* wait_for_master finds the socket and pins it.
FindReady(c) ==
    /\ req[c].phase = "waiting" /\ socket = c /\ Live
    /\ req' = [req EXCEPT ![c].phase = "saving", ![c].pinned = c]
    /\ UNCHANGED <<revision, mutexes, ssh, lease, rules, bounds>>

\* require_authentication
Block(c) ==
    blocked' = (blocked \/ (~paused /\ req[c].gen = generation /\ req[c].auth = authorization))

\* Its process has exited or the deadline has passed; or the connect would have
\* to ask and may not, because it is quiet; or a retained approval failed, which
\* is looked at before the socket is.
WaitFails(c) ==
    /\ req[c].phase = "waiting"
    /\ DropPending(c, "error")
    /\ Block(c) \/ UNCHANGED blocked
    /\ UNCHANGED <<generation, authorization, paused, socket, lease, rules, bounds>>

\* finish: the credential is saved, or not; the answer may be an error, and a
\* retained approval may have failed although OpenSSH is ready (check_approval).
Save(c) ==
    /\ req[c].phase = "saving"
    /\ \/ /\ req' = [req EXCEPT ![c].phase = "activate"]
          /\ UNCHANGED <<blocked, mutexes, master>>
       \/ DropPending(c, "error") /\ (Block(c) \/ UNCHANGED blocked)
    /\ UNCHANGED <<generation, authorization, paused, socket, lease, rules, bounds>>

\* The command that adds the listener to the master of the control path.
Add ==
    \/ /\ Live
       /\ rule' = "active" /\ present' = TRUE /\ listening' = socket
       /\ UNCHANGED failures
    \/ /\ (~Live /\ UNCHANGED failures) \/ (Live /\ Fails)
       /\ rule' = "error" /\ present' = FALSE
       /\ UNCHANGED listening

\* ForwardRegistry::activate
Activate(c) ==
    /\ req[c].phase = "activate" /\ forwards = None
    /\ IF ~held /\ rule # "none" /\ ~present THEN Add
       ELSE UNCHANGED <<rule, present, listening, failures>>
    /\ req' = [req EXCEPT ![c].phase = "publish"]
    /\ UNCHANGED <<revision, mutexes, ssh, lease, held, consents, deaths>>

\* publish_master_ready, publish_reused_master_ready: nothing cancels the
\* master from here on.  Ready::publish tells the shells that wait for the host,
\* if there are any.
Publish(c) ==
    /\ req[c].phase = "publish" /\ req[c].gen = generation
    /\ lease' = IF req[c].pinned # None THEN req[c].pinned ELSE lease
    /\ req' = [req EXCEPT ![c].phase = "replying", ![c].pending = FALSE, ![c].pinned = None]
    /\ (req[c].kind = "connect" /\ Authorized(req[c].gen)) \/ UNCHANGED <<blocked, authorization>>
    /\ UNCHANGED <<generation, paused, mutexes, ssh, rules, bounds>>

\* MasterReady
ReplyReady(c) ==
    /\ req[c].phase = "replying"
    /\ Reply(c, "ok")
    /\ UNCHANGED <<revision, ssh, lease, rules, bounds>>

\* Cleanup: the child has been waited for, the master is told to terminate.
Cleanup(c) ==
    /\ req[c].phase = "cleanup"
    /\ \/ /\ IF master[c] = "up" THEN Exited(c, FALSE) ELSE UNCHANGED <<ssh, listening>>
          /\ UNCHANGED failures
       \/ Fails /\ UNCHANGED <<ssh, listening>>
    /\ queue' = Left(c)
    /\ req' = [req EXCEPT ![c].phase = "done", ![c].pending = FALSE, ![c].pinned = None,
                          ![c].auth = 0]
    /\ UNCHANGED <<revision, forwards, lease, rule, present, held, consents, deaths>>

(***************************************************************************)
(* disconnect_master                                                        *)
(***************************************************************************)
Enqueue(c) ==
    /\ req[c].phase = "pausing"
    /\ queue' = Append(queue, c)
    /\ req' = [req EXCEPT ![c].phase = "queued"]
    /\ UNCHANGED <<revision, forwards, ssh, lease, rules, bounds>>

BeginDisconnect(c) ==
    /\ req[c].kind = "disconnect" /\ req[c].phase = "queued" /\ Holds(c)
    /\ lease' = None
    /\ req' = [req EXCEPT ![c].phase = "releasing"]
    /\ UNCHANGED <<revision, mutexes, ssh, rules, bounds>>

\* forwards.pause, exit_master and master_replaced, under the mutex of the
\* forwards.
EndDisconnect(c) ==
    /\ req[c].phase = "releasing" /\ forwards = None
    /\ held' = TRUE /\ rule' = Waiting(rule)
    /\ \/ /\ ~Dead
          /\ IF Live THEN Exited(socket, FALSE) ELSE UNCHANGED <<ssh, listening>>
          /\ present' = FALSE
          /\ Reply(c, "ok")
          /\ UNCHANGED failures
       \/ /\ (Dead /\ UNCHANGED failures) \/ (Live /\ Fails)
          /\ Reply(c, "error")
          /\ UNCHANGED <<ssh, listening, present>>
    /\ UNCHANGED <<revision, lease, consents, deaths>>

(***************************************************************************)
(* configure_port_forward                                                   *)
(***************************************************************************)
\* A host that is disconnected holds its forwards.
BeginConfigure(c) ==
    /\ req[c].kind \in {"enable", "disable"} /\ req[c].phase = "queued" /\ forwards = None
    /\ forwards' = c
    /\ IF paused THEN held' = TRUE /\ rule' = Waiting(rule) ELSE UNCHANGED <<held, rule>>
    /\ req' = [req EXCEPT ![c].phase = "changing"]
    /\ UNCHANGED <<revision, queue, ssh, lease, present, listening, bounds>>

\* is_ready; a check that fails says no.
Observed(ready) ==
    \/ ready = Live /\ UNCHANGED failures
    \/ ~ready /\ Live /\ Fails

\* configure: a listener that is there is kept if it still serves.
Configure(c) ==
    LET keep(ready) == req[c].kind = "enable" /\ ~held /\ ready IN
    /\ req[c].phase = "changing"
    /\ \/ /\ present
          /\ \E ready \in BOOLEAN :
                /\ Observed(ready)
                /\ IF keep(ready)
                   THEN rule' = "active" /\ Reply(c, "ok")
                   ELSE req' = [req EXCEPT ![c].phase = "cancelling"] /\ UNCHANGED <<rule, mutexes>>
       \/ /\ ~present
          /\ IF req[c].kind = "enable"
             THEN req' = [req EXCEPT ![c].phase = "adding"] /\ UNCHANGED <<rule, mutexes>>
             ELSE rule' = "none" /\ Reply(c, "ok")
          /\ UNCHANGED failures
    /\ UNCHANGED <<revision, ssh, lease, present, held, listening, consents, deaths>>

\* A listener that cannot be cancelled stays with its owner.
CancelForward(c) ==
    LET cancellable == socket = None \/ (Live /\ listening = socket) IN
    /\ req[c].phase = "cancelling"
    /\ \/ /\ cancellable
          /\ listening' = None
          /\ present' = (present /\ req[c].kind = "enable")
          /\ IF req[c].kind = "enable"
             THEN req' = [req EXCEPT ![c].phase = "adding"] /\ UNCHANGED <<rule, mutexes>>
             ELSE rule' = "none" /\ Reply(c, "ok")
          /\ UNCHANGED failures
       \/ /\ (~cancellable /\ UNCHANGED failures) \/ (Live /\ Fails)
          /\ Reply(c, "error")
          /\ UNCHANGED <<rule, present, listening>>
    /\ UNCHANGED <<revision, ssh, lease, held, consents, deaths>>

\* The master may end between the check and the command.
AddForward(c) ==
    /\ req[c].phase = "adding"
    /\ \/ ~held /\ Add
       \/ /\ (held /\ UNCHANGED failures) \/ (~held /\ Observed(FALSE))
          /\ rule' = "waiting" /\ present' = FALSE
          /\ UNCHANGED listening
    /\ Reply(c, "ok")
    /\ UNCHANGED <<revision, ssh, lease, held, consents, deaths>>

(***************************************************************************)
(* The specification.                                                       *)
(***************************************************************************)
HostInit ==
    /\ generation = 0 /\ authorization = 0 /\ paused = FALSE /\ blocked = FALSE
    /\ req = [c \in Client |-> [kind |-> None, phase |-> "new", gen |-> 0, auth |-> 0,
                                pending |-> FALSE, pinned |-> None, reply |-> None]]
    /\ queue = <<>> /\ forwards = None
    /\ socket \in {None, Old}
    /\ master = [m \in Master |-> IF m = socket THEN "up" ELSE "none"]
    /\ lease = None
    /\ rule = "none" /\ present = FALSE /\ held = FALSE /\ listening = None
    /\ consents = 0 /\ deaths = 0 /\ failures = 0

\* What waits for the mutex of the forwards, which is fair.
Wait(c) == ResumeForwards(c) \/ Inspect(c) \/ Activate(c) \/ EndDisconnect(c) \/ BeginConfigure(c)

\* What a request does by itself.
Work(c) ==
    \/ Acquire(c) \/ Enqueue(c) \/ BeginDisconnect(c) \/ Cancel(c) \/ Resume(c) \/ Attach(c) \/ Start(c)
    \/ FindReady(c) \/ Publish(c) \/ ReplyReady(c) \/ Cleanup(c)
    \/ Configure(c) \/ CancelForward(c) \/ AddForward(c)

HostNext ==
    \/ \E c \in Client, k \in Kind : k \in Asks[c] /\ Arrive(c, k)
    \/ \E c \in Client :
          Close(c) \/ Wait(c) \/ Work(c) \/ Authenticate(c) \/ StartFails(c) \/ WaitFails(c) \/ Save(c)
    \/ \E m \in Master : MasterDies(m)
    \/ Consent

\* Commands on a control socket end or time out, the exit of a process is
\* noticed and a quiet connect, which never asks, meets its deadline.  Nothing
\* else is assumed of OpenSSH, or of the user, who need not answer a prompt.
HostFairness ==
    \A c \in Client :
        /\ WF_hostVars(Work(c)) /\ SF_hostVars(Wait(c))
        /\ WF_hostVars(Save(c) /\ req[c].kind = "quiet")
        /\ WF_hostVars(WaitFails(c) /\ (master[c] = "gone" \/ req[c].kind = "quiet"))

HostSpec == HostInit /\ [][HostNext]_hostVars /\ HostFairness

(***************************************************************************)
(* Properties.                                                              *)
(***************************************************************************)
\* A disconnect is final until a newer explicit connect arrives: whatever
\* connects were queued, waiting for a prompt or publishing when it came, once
\* it is answered no master runs or starts, nothing listens and the host stays
\* paused.
DisconnectFinal ==
    LET newest == \E d \in Client : req[d].kind = "disconnect" /\ req[d].gen = generation
                                     /\ req[d].reply = "ok"
        newer == \E c \in Client : req[c].kind = "connect" /\ req[c].gen = generation IN
    newest /\ ~newer =>
        /\ paused /\ held /\ lease = None /\ listening = None
        /\ \A m \in Master : master[m] \notin {"starting", "up"}

\* ctld never loses a master: one that starts has the lock of the host, and one
\* that is up is the one of the control path, never shadowed by a later one.
\* A cleanup terminates nobody else's connection: no other request has pinned
\* or published the master that it is about to end.
MasterOwned ==
    \A m \in Master :
        /\ master[m] = "starting" => Holds(m)
        /\ master[m] = "up" => socket = m
        /\ m \in Client /\ req[m].phase = "cleanup" =>
             lease # m /\ \A d \in Client \ {m} : req[d].pinned # m

\* A connect that is answered with MasterReady has its master pinned, so that it
\* does not expire, and the forward is in that master unless a command failed
\* or somebody is changing the forward.
ReadyComplete ==
    \A c \in Client : req[c].phase = "replying" /\ req[c].gen = generation /\ Live =>
        /\ lease = socket
        /\ rule \in {"waiting", "error"} => failures > 0
        /\ rule = "active" /\ forwards = None => listening = socket

\* A newer connect has taken its place in the queue between the pause and the
\* place of the disconnect.
Overtaken(d) ==
    \E c \in Client : Holds(c) /\ req[c].kind = "connect" /\ req[c].gen >= req[d].gen

\* A disconnect is answered even if a connect waits for a prompt that nobody
\* answers, unless that connect is newer.
DisconnectAnswered ==
    \A d \in Client :
        (req[d].kind = "disconnect" /\ req[d].phase = "queued") ~> (req[d].phase = "done" \/ Overtaken(d))
=============================================================================
