-------------------------- MODULE DaemonLifecycle --------------------------
(***************************************************************************)
(* The life of ctmuxd: its accept loop and idle exit (run), the connections *)
(* it counts (ConnectionTracker), the admission gate and the cooperative    *)
(* restart (RestartCoordinator), the runs ctl-taskd has it manage           *)
(* (SessionManager::manage) and the waiter thread of every terminal.        *)
(*                                                                         *)
(* The exit condition of the loop reads ever_had_session, the restart       *)
(* state, session_count and the connection count one after another, and     *)
(* every read is a step here.  The two Notify objects that store a permit   *)
(* (sessions, connections) are Booleans; the restart's notify_waiters       *)
(* reaches the loop only while it waits in its select.                      *)
(***************************************************************************)
EXTENDS Naturals, FiniteSets

CONSTANTS
    Connection,     \* connections, each used once: it bounds what is accepted
    Terminal,       \* terminal identifiers, each used once
    Run,            \* managed runs: the (task, run) keys
    MaxManaged,     \* capacity of the managed map
    None

Absent == "absent"      \* the run has no entry
Retired == "retired"    \* its entry is None: released, or stopped before start

ASSUME LifecycleAssumption ==
    /\ None \notin Connection \cup Terminal \cup Run
    /\ {Absent, Retired} \cap Terminal = {}
    /\ MaxManaged \in Nat
    /\ IsFiniteSet(Run)

\* Where a connection's handler is.
Phase ==
    { "new",        \* not accepted yet
      "open",       \* accepted: idle, attached, or its request is still to come
      "creating",   \* create_terminal, inside run_while_accepting
      "registered", \* ... its terminal is in the registry, the rest is to do
      "killing",    \* begin_cooperative_restart, killing its targets
      "accepted",   \* restart accepted, other connections not yet cancelled
      "replied",    \* the handler returns next
      "closed" }

\* Where run is: the four reads of its exit condition, the guard of the
\* startup deadline, the select, and the two reads after that deadline.
Loop == {"ever", "draining", "sessions", "connections", "arm", "select",
         "lateSessions", "lateConnections", "exited"}

VARIABLES
    phase,          \* the handler of every connection
    restart,        \* RestartState
    gate,           \* the connection that holds the mutex of RestartState
    shutdown,       \* data_connection_shutdown and control_connection_shutdown
    registry,       \* SessionRegistry.terminals
    child,          \* the child of every terminal, as its waiter thread sees it
    runOf,          \* the run a managed terminal was created for
    created,        \* the terminal that a connection's create registered
    request,        \* the run a connection's create is for
    targets,        \* terminals a restart has still to kill
    signalled,      \* terminals whose child has been asked to terminate
    managed,        \* SessionManagerInner.managed
    ever,           \* ever_had_session
    sessionPermit,  \* a permit in SessionManagerInner.changed
    connectionPermit, \* a permit in ConnectionTracker.changed
    restartWake,    \* RestartCoordinator.changed has woken the select
    armed,          \* the startup deadline is a branch of the current select
    loop

terminalVars == <<registry, child, runOf, signalled>>
createVars == <<created, request>>
wakeups == <<sessionPermit, connectionPermit, restartWake>>
loopVars == <<armed, loop>>
vars == <<phase, restart, gate, shutdown, registry, child, runOf, created, request, targets,
          signalled, managed, ever, sessionPermit, connectionPermit, restartWake, armed, loop>>

TypeOK ==
    /\ phase \in [Connection -> Phase]
    /\ restart \in {"accepting", "draining"}
    /\ gate \in Connection \cup {None}
    /\ shutdown \in BOOLEAN
    /\ registry \subseteq Terminal
    /\ child \in [Terminal -> {"none", "spawned", "running", "reaped", "ended"}]
    /\ runOf \in [Terminal -> Run \cup {None}]
    /\ created \in [Connection -> Terminal \cup {None}]
    /\ request \in [Connection -> Run \cup {None}]
    /\ targets \subseteq Terminal
    /\ signalled \subseteq Terminal
    /\ managed \in [Run -> Terminal \cup {Absent, Retired}]
    /\ ever \in BOOLEAN
    /\ sessionPermit \in BOOLEAN /\ connectionPermit \in BOOLEAN /\ restartWake \in BOOLEAN
    /\ armed \in BOOLEAN
    /\ loop \in Loop

Enter(c, p) == phase' = [phase EXCEPT ![c] = p]

(***************************************************************************)
(* Counts.                                                                  *)
(***************************************************************************)
Retained == {managed[r] : r \in Run} \cap Terminal

\* session_count: registered terminals and managed outcomes not yet released.
SessionCount == Cardinality(registry \cup Retained)

\* manage holds the managed mutex while its terminal is created.
ManagedLocked == \E c \in Connection : request[c] # None

\* ConnectionTracker.active
OpenConnections == {c \in Connection : phase[c] \notin {"new", "closed"}}

(***************************************************************************)
(* Creating terminals, behind the gate.                                     *)
(***************************************************************************)
\* run_while_accepting
Admitted == restart = "accepting" /\ gate = None

\* CreateSession, and SplitTerminal, which is the same here.
BeginCreate(c) ==
    /\ phase[c] = "open" /\ Admitted
    /\ gate' = c
    /\ Enter(c, "creating")
    /\ UNCHANGED <<restart, shutdown, terminalVars, createVars, targets, managed, ever, wakeups,
                   loopVars>>

\* Mutant: a retired run starts again.
StartRetired(c, r) ==
    /\ phase[c] = "open" /\ Admitted
    /\ IF managed[r] \notin Terminal
       THEN gate' = c /\ request' = [request EXCEPT ![c] = r] /\ Enter(c, "creating")
       ELSE Enter(c, "replied") /\ UNCHANGED <<gate, request>>
    /\ UNCHANGED <<restart, shutdown, terminalVars, created, targets, managed, ever, wakeups,
                   loopVars>>

\* manage, Start: a run that has an entry is left as it is, and a key beyond
\* the capacity is refused.
ManageStart(c, r) ==
    /\ phase[c] = "open" /\ Admitted
    /\ IF managed[r] = Absent /\ Cardinality({q \in Run : managed[q] # Absent}) < MaxManaged
       THEN gate' = c /\ request' = [request EXCEPT ![c] = r] /\ Enter(c, "creating")
       ELSE Enter(c, "replied") /\ UNCHANGED <<gate, request>>
    /\ UNCHANGED <<restart, shutdown, terminalVars, created, targets, managed, ever, wakeups,
                   loopVars>>

\* create_terminal fails before its terminal is registered: the name is
\* taken, or the PTY or the child cannot be made.
FailCreate(c) ==
    /\ phase[c] = "creating"
    /\ gate' = None
    /\ request' = [request EXCEPT ![c] = None]
    /\ Enter(c, "replied")
    /\ UNCHANGED <<restart, shutdown, terminalVars, created, targets, managed, ever, wakeups,
                   loopVars>>

\* NameReservation::commit
Commit(c, t) ==
    /\ phase[c] = "creating"
    /\ child[t] = "none"
    /\ registry' = registry \cup {t}
    /\ child' = [child EXCEPT ![t] = "spawned"]
    /\ runOf' = [runOf EXCEPT ![t] = request[c]]
    /\ created' = [created EXCEPT ![c] = t]
    /\ Enter(c, "registered")
    /\ UNCHANGED <<restart, gate, shutdown, request, targets, signalled, managed, ever, wakeups,
                   loopVars>>

\* The rest of create_terminal, its workers, and the entry of a managed run.
FinishCreate(c) ==
    LET t == created[c] IN
    /\ phase[c] = "registered"
    /\ ever' = TRUE
    /\ sessionPermit' = TRUE
    /\ child' = [child EXCEPT ![t] = "running"]
    /\ managed' = [r \in Run |-> IF r = request[c] THEN t ELSE managed[r]]
    /\ request' = [request EXCEPT ![c] = None]
    /\ created' = [created EXCEPT ![c] = None]
    /\ gate' = None
    /\ Enter(c, "replied")
    /\ UNCHANGED <<restart, shutdown, registry, runOf, targets, signalled, connectionPermit,
                   restartWake, loopVars>>

\* Terminal::kill reaches the child until the waiter has reaped it; after
\* that it fails.
Killable(t) == child[t] \in {"spawned", "running"}

\* manage, Stop: kills a live run; a run without a terminal is retired.
ManageStop(c, r) ==
    /\ phase[c] = "open" /\ Admitted
    /\ Enter(c, "replied")
    /\ IF managed[r] \in Terminal
       THEN /\ signalled' = IF Killable(managed[r]) THEN signalled \cup {managed[r]} ELSE signalled
            /\ UNCHANGED managed
       ELSE /\ managed' = IF managed[r] = Absent
                             /\ Cardinality({q \in Run : managed[q] # Absent}) >= MaxManaged
                          THEN managed ELSE [managed EXCEPT ![r] = Retired]
            /\ UNCHANGED signalled
    /\ UNCHANGED <<restart, gate, shutdown, registry, child, runOf, createVars, targets, ever,
                   wakeups, loopVars>>

\* manage, Release: refused while the session runs.
ManageRelease(c, r) ==
    LET running == managed[r] \in Terminal /\ child[managed[r]] # "ended"
        full == managed[r] = Absent
                /\ Cardinality({q \in Run : managed[q] # Absent}) >= MaxManaged IN
    /\ phase[c] = "open" /\ Admitted
    /\ Enter(c, "replied")
    /\ IF running \/ full
       THEN UNCHANGED <<managed, sessionPermit>>
       ELSE managed' = [managed EXCEPT ![r] = Retired] /\ sessionPermit' = TRUE
    /\ UNCHANGED <<restart, gate, shutdown, terminalVars, createVars, targets, ever,
                   connectionPermit, restartWake, loopVars>>

\* KillTerminal, and KillSession for every terminal of the session.
Kill(c, t) ==
    /\ phase[c] = "open"
    /\ t \in registry
    /\ signalled' = IF Killable(t) THEN signalled \cup {t} ELSE signalled
    /\ Enter(c, "replied")
    /\ UNCHANGED <<restart, gate, shutdown, registry, child, runOf, createVars, targets, managed,
                   ever, wakeups, loopVars>>

(***************************************************************************)
(* The waiter thread of a terminal.                                         *)
(***************************************************************************)
\* child.wait returns: the child was killed, or it exited by itself.
Reap(t) ==
    /\ child[t] = "running"
    /\ child' = [child EXCEPT ![t] = "reaped"]
    /\ UNCHANGED <<phase, restart, gate, shutdown, registry, runOf, createVars, targets, signalled,
                   managed, ever, wakeups, loopVars>>

\* The reader has drained the PTY: publish_ended.
PublishEnded(t) ==
    /\ child[t] = "reaped"
    /\ child' = [child EXCEPT ![t] = "ended"]
    /\ UNCHANGED <<phase, restart, gate, shutdown, registry, runOf, createVars, targets, signalled,
                   managed, ever, wakeups, loopVars>>

\* remove_terminal, and the notification.
Remove(t) ==
    /\ child[t] = "ended" /\ t \in registry
    /\ registry' = registry \ {t}
    /\ sessionPermit' = TRUE
    /\ UNCHANGED <<phase, restart, gate, shutdown, child, runOf, createVars, targets, signalled,
                   managed, ever, connectionPermit, restartWake, loopVars>>

(***************************************************************************)
(* Cooperative restart.                                                     *)
(***************************************************************************)
\* notify_waiters
WakeRestart == restartWake' = (restartWake \/ loop = "select")

\* Mutant: the targets are read before creates are held off.
SnapshotUngated(c) ==
    /\ phase[c] = "open" /\ restart = "accepting"
    /\ restart' = "draining"
    /\ targets' = registry
    /\ gate' = c
    /\ Enter(c, "killing")
    /\ UNCHANGED <<shutdown, terminalVars, createVars, managed, ever, wakeups, loopVars>>

\* begin_cooperative_restart, with the gate: Draining, and its targets.
BeginRestart(c) ==
    /\ phase[c] = "open" /\ Admitted
    /\ restart' = "draining"
    /\ targets' = registry
    /\ gate' = c
    /\ Enter(c, "killing")
    /\ UNCHANGED <<shutdown, terminalVars, createVars, managed, ever, wakeups, loopVars>>

KillTarget(c, t) ==
    /\ phase[c] = "killing"
    /\ t \in targets /\ Killable(t)
    /\ targets' = targets \ {t}
    /\ signalled' = signalled \cup {t}
    /\ UNCHANGED <<phase, restart, gate, shutdown, registry, child, runOf, createVars, managed,
                   ever, wakeups, loopVars>>

\* A kill fails: back to normal admission.
AbandonRestart(c, t) ==
    /\ phase[c] = "killing"
    /\ t \in targets /\ ~Killable(t)
    /\ restart' = "accepting"
    /\ targets' = {}
    /\ gate' = None
    /\ WakeRestart
    /\ Enter(c, "replied")
    /\ UNCHANGED <<shutdown, terminalVars, createVars, managed, ever, sessionPermit,
                   connectionPermit, loopVars>>

\* Every target is signalled: clear_managed, and the gate is released.
AcceptRestart(c) ==
    /\ phase[c] = "killing" /\ targets = {}
    /\ managed' = [r \in Run |-> Absent]
    /\ gate' = None
    /\ WakeRestart
    /\ Enter(c, "accepted")
    /\ UNCHANGED <<restart, shutdown, terminalVars, createVars, targets, ever, sessionPermit,
                   connectionPermit, loopVars>>

\* RestartAccepted has been written, or could not be: cancel_other_connections.
CancelOtherConnections(c) ==
    /\ phase[c] = "accepted"
    /\ shutdown' = TRUE
    /\ Enter(c, "replied")
    /\ UNCHANGED <<restart, gate, terminalVars, createVars, targets, managed, ever, wakeups,
                   loopVars>>

(***************************************************************************)
(* Connections.                                                             *)
(***************************************************************************)
\* Mutant: a connection leaves without a notification.
CloseQuietly(c) ==
    /\ phase[c] \in {"open", "replied"}
    /\ Enter(c, "closed")
    /\ UNCHANGED <<restart, gate, shutdown, terminalVars, createVars, targets, managed, ever,
                   wakeups, loopVars>>

\* The handler has returned, its client has left, or it was cancelled:
\* ConnectionGuard::drop.
Close(c) ==
    /\ phase[c] \in {"open", "replied"}
    /\ Enter(c, "closed")
    /\ connectionPermit' = TRUE
    /\ UNCHANGED <<restart, gate, shutdown, terminalVars, createVars, targets, managed, ever,
                   sessionPermit, restartWake, loopVars>>

(***************************************************************************)
(* run: the accept loop.                                                    *)
(***************************************************************************)
Goto(l) == loop' = l

notLoop == <<phase, restart, gate, shutdown, terminalVars, createVars, targets, managed, ever>>

ReadEver ==
    /\ loop = "ever"
    /\ Goto(IF ever THEN "sessions" ELSE "draining")
    /\ UNCHANGED <<notLoop, wakeups, armed>>

ReadDraining ==
    /\ loop = "draining" /\ gate = None
    /\ Goto(IF restart = "draining" THEN "sessions" ELSE "arm")
    /\ UNCHANGED <<notLoop, wakeups, armed>>

ReadSessions ==
    /\ loop = "sessions" /\ ~ManagedLocked
    /\ Goto(IF SessionCount = 0 THEN "connections" ELSE "arm")
    /\ UNCHANGED <<notLoop, wakeups, armed>>

ReadConnections ==
    /\ loop = "connections"
    /\ Goto(IF OpenConnections = {} THEN "exited" ELSE "arm")
    /\ UNCHANGED <<notLoop, wakeups, armed>>

\* The select starts: its preconditions, then its futures.
StartSelect ==
    /\ loop = "arm" /\ (ever \/ gate = None)
    /\ armed' = (~ever /\ restart = "accepting")
    /\ restartWake' = FALSE
    /\ Goto("select")
    /\ UNCHANGED <<notLoop, sessionPermit, connectionPermit>>

Accept(c) ==
    /\ loop = "select"
    /\ phase[c] = "new"
    /\ Enter(c, "open")
    /\ connectionPermit' = TRUE
    /\ Goto("ever")
    /\ UNCHANGED <<restart, gate, shutdown, terminalVars, createVars, targets, managed, ever,
                   sessionPermit, restartWake, armed>>

WakeOnSessions ==
    /\ loop = "select" /\ sessionPermit
    /\ sessionPermit' = FALSE
    /\ Goto("ever")
    /\ UNCHANGED <<notLoop, connectionPermit, restartWake, armed>>

WakeOnConnections ==
    /\ loop = "select" /\ connectionPermit
    /\ connectionPermit' = FALSE
    /\ Goto("ever")
    /\ UNCHANGED <<notLoop, sessionPermit, restartWake, armed>>

WakeOnRestart ==
    /\ loop = "select" /\ restartWake
    /\ Goto("ever")
    /\ UNCHANGED <<notLoop, wakeups, armed>>

\* startup_idle_timeout has passed without a session.
StartupDeadline ==
    /\ loop = "select" /\ armed
    /\ Goto("lateSessions")
    /\ UNCHANGED <<notLoop, wakeups, armed>>

ReadLateSessions ==
    /\ loop = "lateSessions" /\ ~ManagedLocked
    /\ Goto(IF SessionCount = 0 THEN "lateConnections" ELSE "ever")
    /\ UNCHANGED <<notLoop, wakeups, armed>>

ReadLateConnections ==
    /\ loop = "lateConnections"
    /\ Goto(IF OpenConnections = {} THEN "exited" ELSE "ever")
    /\ UNCHANGED <<notLoop, wakeups, armed>>

(***************************************************************************)
(* The specification.  Nothing runs after the loop has returned.            *)
(***************************************************************************)
Init ==
    /\ phase = [c \in Connection |-> "new"]
    /\ restart = "accepting" /\ gate = None /\ shutdown = FALSE
    /\ registry = {} /\ child = [t \in Terminal |-> "none"]
    /\ runOf = [t \in Terminal |-> None]
    /\ created = [c \in Connection |-> None] /\ request = [c \in Connection |-> None]
    /\ targets = {} /\ signalled = {}
    /\ managed = [r \in Run |-> Absent]
    /\ ever = FALSE
    /\ sessionPermit = FALSE /\ connectionPermit = FALSE /\ restartWake = FALSE
    /\ armed = FALSE /\ loop = "ever"

Handler(c) ==
    \/ BeginCreate(c) \/ FailCreate(c) \/ FinishCreate(c)
    \/ \E t \in Terminal : Commit(c, t) \/ Kill(c, t)
    \/ \E r \in Run : ManageStart(c, r) \/ ManageStop(c, r) \/ ManageRelease(c, r)
    \/ BeginRestart(c) \/ AcceptRestart(c) \/ CancelOtherConnections(c)
    \/ \E t \in Terminal : KillTarget(c, t) \/ AbandonRestart(c, t)
    \/ Close(c)

Waiter(t) == Reap(t) \/ PublishEnded(t) \/ Remove(t)

RunLoop ==
    \/ ReadEver \/ ReadDraining \/ ReadSessions \/ ReadConnections \/ StartSelect
    \/ WakeOnSessions \/ WakeOnConnections \/ WakeOnRestart
    \/ StartupDeadline \/ ReadLateSessions \/ ReadLateConnections

Next ==
    /\ loop # "exited"
    /\ \/ \E c \in Connection : Handler(c) \/ Accept(c)
       \/ \E t \in Terminal : Waiter(t)
       \/ RunLoop

\* Handlers that have begun something carry it through; a handler that is
\* done, or that is cancelled, returns; the waiter of a dead child and the
\* loop go on.  No client has to send a request or to leave, and no child has
\* to exit.
Running == loop # "exited"

\* What the handler of c has begun, and its return.
Finishing(c) ==
    \/ FailCreate(c) \/ FinishCreate(c)
    \/ \E t \in Terminal : Commit(c, t) \/ KillTarget(c, t) \/ AbandonRestart(c, t)
    \/ AcceptRestart(c) \/ CancelOtherConnections(c)
    \/ (phase[c] = "replied" \/ shutdown) /\ Close(c)

Fairness ==
    /\ \A c \in Connection : WF_vars(Running /\ Finishing(c))
    /\ \A t \in Terminal : WF_vars(Running /\ (PublishEnded(t) \/ Remove(t)))
    /\ WF_vars(Running /\ RunLoop)

Spec == Init /\ [][Next]_vars /\ Fairness

(***************************************************************************)
(* Properties.                                                              *)
(***************************************************************************)
\* A create completes before the restart takes its targets or is refused
\* (run_while_accepting): once the restart has gone through its targets, every
\* terminal left in the registry has been asked to terminate or is dead.
DrainCovers ==
    restart = "draining" =>
        \A t \in registry : t \in targets \cup signalled \/ ~Killable(t)

\* A start that is repeated, by a retry or after a lost reply, creates no
\* second terminal for its run, whatever is stopped, released or restarted.
RunStartedOnce ==
    \A t, u \in Terminal : runOf[t] # None /\ runOf[t] = runOf[u] => t = u

\* The daemon exits after its final session: no terminal is left in the
\* registry when run returns from its loop.
ExitsEmpty == loop = "exited" => registry = {}

\* The daemon ends when its work does, whatever the order of exits, removals and
\* notifications: with no session and no connection it exits unless somebody
\* connects, and a restart that was accepted ends it once its children are
\* dead, even though notify_waiters may find nobody waiting.
EndsWhenDone ==
    /\ (SessionCount = 0 /\ OpenConnections = {}) ~> (loop = "exited" \/ OpenConnections # {})
    /\ (shutdown /\ \A t \in Terminal : ~Killable(t)) ~> loop = "exited"
=============================================================================
