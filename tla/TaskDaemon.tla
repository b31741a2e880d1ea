----------------------------- MODULE TaskDaemon -----------------------------
(***************************************************************************)
(* ctl-taskd's background tasks and its main loop: the mutations mutex, the  *)
(* requests that start, stop, restart and remove a task, the process of a    *)
(* run with the task that waits for it, the reconciliation, and the          *)
(* cooperative restart of ctl-taskd itself.                                  *)
(*                                                                         *)
(* The mutex is tokio's: first come, first served, and handed to the next in *)
(* the queue when it is released, whether that one is being polled or not.    *)
(* serve polls the reconciliation, the listener and the control channel in   *)
(* one select, so that the reconciliation stands still while the branch of   *)
(* the control channel runs.                                                 *)
(***************************************************************************)
EXTENDS Naturals, Sequences

CONSTANTS
    Client,         \* connections, each with one request
    Task,           \* registered tasks
    Run,            \* run identifiers, each used once
    MaxRestarts,    \* restart requests on the control channel
    MaxSaveFailures, \* saves of state.json that fail
    None

ASSUME TaskDaemonAssumption ==
    /\ None \notin Client \cup Task \cup Run
    /\ {"reconcile", "control"} \cap Client = {}
    /\ MaxRestarts \in Nat /\ MaxSaveFailures \in Nat

VARIABLES
    queue,      \* the mutations mutex: its holder, then those who wait for it
    main,       \* serve
    restarts,   \* restart requests so far
    handler,    \* where the request of every client is
    request,    \* what the client asks for, and of which task
    desired,    \* State.tasks: desired_state
    active,     \* State.tasks: active_run
    owner,      \* the task of every run that has a waiter
    runtimes,   \* State.runtimes: the run whose stop channel is registered
    signal,     \* a message in the stop channel of a run
    child,      \* the process of a run
    waiter,     \* the task that waits for the process
    failures    \* saves that have failed

daemonVars == <<queue, main, restarts, handler, request, desired, active, owner, runtimes, signal, child,
                waiter, failures>>

\* Where a handler is.  "spawned": start has a process; "saved": its run is
\* stored, the handle is to be registered; "stopping": stop has saved the
\* desired state; "sending": it has found the handle; "awaiting": it waits
\* for the run to end; "answered": the reply is written, the mutex released.
Phase == {"new", "queued", "working", "spawned", "saved", "stopping", "sending", "awaiting",
          "answered"}

DaemonTypeOK ==
    /\ queue \in Seq(Client \cup {"reconcile", "control"})
    /\ \A m, n \in DOMAIN queue : queue[m] = queue[n] => m = n
    /\ main \in {"select", "control", "exited"}
    /\ restarts \in 0 .. MaxRestarts
    /\ handler \in [Client -> Phase]
    /\ request \in [Client -> [kind : {"start", "stop", "restart"}, task : Task, run : Run \cup {None}]
                              \cup {None}]
    /\ desired \in [Task -> {"running", "stopped"}]
    /\ active \in [Task -> Run \cup {None}]
    /\ owner \in [Run -> Task \cup {None}]
    /\ runtimes \in [Task -> Run \cup {None}]
    /\ signal \in [Run -> BOOLEAN]
    /\ child \in [Run -> {"none", "running", "exited"}]
    /\ waiter \in [Run -> {"none", "waiting", "stopping", "draining", "finishing", "done"}]
    /\ failures \in 0 .. MaxSaveFailures

Holds(a) == queue # <<>> /\ Head(queue) = a
Queued(a) == \E n \in DOMAIN queue : queue[n] = a

Lock(a) == queue' = Append(queue, a)
Unlock == queue' = Tail(queue)

At(c, phase) == Holds(c) /\ handler[c] = phase
Enter(c, phase) == handler' = [handler EXCEPT ![c] = phase]
\* The reply; the guard of the mutex is dropped.
Reply(c) == Enter(c, "answered") /\ Unlock

SaveFailed == failures < MaxSaveFailures /\ failures' = failures + 1

NewRun == CHOOSE r \in Run : child[r] = "none"
HasNewRun == \E r \in Run : child[r] = "none"

(***************************************************************************)
(* handle_request                                                           *)
(***************************************************************************)
\* A request that changes tasks waits for the mutex.
Receive(c, kind, t) ==
    /\ main # "exited" /\ handler[c] = "new"
    /\ request' = [request EXCEPT ![c] = [kind |-> kind, task |-> t, run |-> None]]
    /\ Enter(c, "queued") /\ Lock(c)
    /\ UNCHANGED <<main, restarts, desired, active, owner, runtimes, signal, child, waiter, failures>>

Dispatch(c) ==
    LET t == request[c].task
        stops == request[c].kind = "stop" \/ (request[c].kind = "restart" /\ active[t] # None) IN
    /\ At(c, "queued")
    /\ IF stops /\ active[t] = None
       THEN Reply(c) /\ UNCHANGED <<desired, failures>>
       ELSE IF stops
            THEN \/ /\ desired' = [desired EXCEPT ![t] = "stopped"]
                    /\ Enter(c, "stopping")
                    /\ UNCHANGED <<queue, failures>>
                 \/ SaveFailed /\ Reply(c) /\ UNCHANGED desired
            ELSE IF active[t] # None
                 THEN Reply(c) /\ UNCHANGED <<desired, failures>>
                 ELSE Enter(c, "working") /\ UNCHANGED <<queue, desired, failures>>
    /\ UNCHANGED <<main, restarts, request, active, owner, runtimes, signal, child, waiter>>

(***************************************************************************)
(* start                                                                    *)
(***************************************************************************)
\* The process comes first.
Spawn(c) ==
    /\ At(c, "working")
    /\ \/ /\ HasNewRun
          /\ child' = [child EXCEPT ![NewRun] = "running"]
          /\ request' = [request EXCEPT ![c].run = NewRun]
          /\ Enter(c, "spawned")
          /\ UNCHANGED queue
       \/ Reply(c) /\ UNCHANGED <<child, request>>
    /\ UNCHANGED <<main, restarts, desired, active, owner, runtimes, signal, waiter, failures>>

\* Mutant: a process whose run could not be saved is left alone.
SaveRunOnly(c) ==
    LET t == request[c].task
        r == request[c].run IN
    /\ At(c, "spawned")
    /\ desired' = [desired EXCEPT ![t] = "running"]
    /\ active' = [active EXCEPT ![t] = r]
    /\ \/ Enter(c, "saved") /\ UNCHANGED <<queue, failures>>
       \/ SaveFailed /\ Reply(c)
    /\ UNCHANGED <<main, restarts, request, owner, runtimes, signal, child, waiter>>

\* The run is stored and saved; when the save fails the process is killed.
SaveRun(c) ==
    LET t == request[c].task
        r == request[c].run IN
    /\ At(c, "spawned")
    /\ desired' = [desired EXCEPT ![t] = "running"]
    /\ active' = [active EXCEPT ![t] = r]
    /\ \/ Enter(c, "saved") /\ UNCHANGED <<queue, child, failures>>
       \/ SaveFailed /\ Reply(c) /\ child' = [child EXCEPT ![r] = "exited"]
    /\ UNCHANGED <<main, restarts, request, owner, runtimes, signal, waiter>>

\* The handle is registered and the waiter is spawned.
Publish(c) ==
    LET t == request[c].task
        r == request[c].run IN
    /\ At(c, "saved")
    /\ owner' = [owner EXCEPT ![r] = t]
    /\ runtimes' = [runtimes EXCEPT ![t] = r]
    /\ waiter' = [waiter EXCEPT ![r] = "waiting"]
    /\ Reply(c)
    /\ UNCHANGED <<main, restarts, request, desired, active, signal, child, failures>>

(***************************************************************************)
(* stop, and restart, which goes on with start                              *)
(***************************************************************************)
Stopped(c) ==
    IF request[c].kind = "restart" THEN Enter(c, "working") /\ UNCHANGED queue ELSE Reply(c)

FindHandle(c) ==
    LET t == request[c].task IN
    /\ At(c, "stopping")
    /\ IF runtimes[t] # None
       THEN /\ request' = [request EXCEPT ![c].run = runtimes[t]]
            /\ Enter(c, "sending")
            /\ UNCHANGED queue
       ELSE /\ IF active[t] = None THEN Stopped(c) ELSE Reply(c)
            /\ UNCHANGED request
    /\ UNCHANGED <<main, restarts, desired, active, owner, runtimes, signal, child, waiter,
                   failures>>

\* Mutant: the sender does not notice that the channel was closed.
SendToEnded(c) ==
    LET r == request[c].run IN
    /\ At(c, "sending")
    /\ ~signal[r]
    /\ signal' = [signal EXCEPT ![r] = TRUE]
    /\ Enter(c, "awaiting")
    /\ UNCHANGED <<queue, main, restarts, request, desired, active, owner, runtimes, child, waiter,
                   failures>>

\* The channel holds one message; it is closed when the waiter has returned.
SendStop(c) ==
    LET r == request[c].run IN
    /\ At(c, "sending")
    /\ \/ /\ waiter[r] # "done" /\ ~signal[r]
          /\ signal' = [signal EXCEPT ![r] = TRUE]
          /\ Enter(c, "awaiting")
          /\ UNCHANGED queue
       \/ /\ waiter[r] = "done"
          /\ IF active[request[c].task] = None
             THEN Stopped(c) ELSE Enter(c, "awaiting") /\ UNCHANGED queue
          /\ UNCHANGED signal
    /\ UNCHANGED <<main, restarts, request, desired, active, owner, runtimes, child, waiter,
                   failures>>

\* STOP_TIMEOUT may pass first.
AwaitStop(c) ==
    /\ At(c, "awaiting")
    /\ (active[request[c].task] = None /\ Stopped(c)) \/ Reply(c)
    /\ UNCHANGED <<main, restarts, request, desired, active, owner, runtimes, signal, child, waiter,
                   failures>>

(***************************************************************************)
(* The process and its waiter.                                              *)
(***************************************************************************)
ChildExits(r) ==
    /\ child[r] = "running"
    /\ child' = [child EXCEPT ![r] = "exited"]
    /\ UNCHANGED <<queue, main, restarts, handler, request, desired, active, owner, runtimes,
                   signal, waiter, failures>>

\* child.wait, or the stop channel and then child.terminate.
AwaitChild(r) ==
    /\ waiter[r] = "waiting"
    /\ \/ /\ child[r] = "exited"
          /\ waiter' = [waiter EXCEPT ![r] = "draining"]
          /\ UNCHANGED signal
       \/ /\ signal[r]
          /\ signal' = [signal EXCEPT ![r] = FALSE]
          /\ waiter' = [waiter EXCEPT ![r] = "stopping"]
    /\ UNCHANGED <<queue, main, restarts, handler, request, desired, active, owner, runtimes, child,
                   failures>>

Terminate(r) ==
    /\ waiter[r] = "stopping"
    /\ child' = [child EXCEPT ![r] = "exited"]
    /\ waiter' = [waiter EXCEPT ![r] = "draining"]
    /\ UNCHANGED <<queue, main, restarts, handler, request, desired, active, owner, runtimes,
                   signal, failures>>

\* The readers of its output have ended: finish_run, under the lock of
\* runtimes ...
RemoveHandle(r) ==
    /\ waiter[r] = "draining"
    /\ runtimes' = [runtimes EXCEPT ![owner[r]] = None]
    /\ waiter' = [waiter EXCEPT ![r] = "finishing"]
    /\ UNCHANGED <<queue, main, restarts, handler, request, desired, active, owner, signal, child,
                   failures>>

\* ... and then under that of tasks; a failing save is ignored.
EndRun(r) ==
    LET t == owner[r] IN
    /\ waiter[r] = "finishing"
    /\ IF active[t] = r
       THEN active' = [active EXCEPT ![t] = None] /\ desired' = [desired EXCEPT ![t] = "stopped"]
       ELSE UNCHANGED <<active, desired>>
    /\ waiter' = [waiter EXCEPT ![r] = "done"]
    /\ UNCHANGED <<queue, main, restarts, handler, request, owner, runtimes, signal, child,
                   failures>>

\* Mutant: the run is ended first, and its handle removed then.
FinishSwapped(r) ==
    \/ /\ waiter[r] = "draining"
       /\ active' = [active EXCEPT ![owner[r]] = None]
       /\ desired' = [desired EXCEPT ![owner[r]] = "stopped"]
       /\ waiter' = [waiter EXCEPT ![r] = "finishing"]
       /\ UNCHANGED <<queue, main, restarts, handler, request, owner, runtimes, signal, child,
                      failures>>
    \/ /\ waiter[r] = "finishing"
       /\ runtimes' = [runtimes EXCEPT ![owner[r]] = None]
       /\ waiter' = [waiter EXCEPT ![r] = "done"]
       /\ UNCHANGED <<queue, main, restarts, handler, request, desired, active, owner, signal,
                      child, failures>>

FinishRun(r) == RemoveHandle(r) \/ EndRun(r)

(***************************************************************************)
(* serve                                                                    *)
(***************************************************************************)
\* reconcile_interactive takes the mutex for a task; while it has it, it
\* awaits ctmuxd.
BeginReconcile ==
    /\ main = "select" /\ ~Queued("reconcile")
    /\ Lock("reconcile")
    /\ UNCHANGED <<main, restarts, handler, request, desired, active, owner, runtimes, signal,
                   child, waiter, failures>>

EndReconcile ==
    /\ main = "select" /\ Holds("reconcile")
    /\ Unlock
    /\ UNCHANGED <<main, restarts, handler, request, desired, active, owner, runtimes, signal,
                   child, waiter, failures>>

\* A restart request is taken from the control channel.
TakeControl ==
    /\ main = "select" /\ restarts < MaxRestarts
    /\ restarts' = restarts + 1
    /\ main' = "control"
    /\ Lock("control")
    /\ UNCHANGED <<handler, request, desired, active, owner, runtimes, signal, child, waiter,
                   failures>>

\* Mutant: only the handles are looked at.
NoHandles == \A t \in Task : runtimes[t] = None

\* restart_response
NothingActive == \A t \in Task : active[t] = None /\ runtimes[t] = None

\* accept_restart: ctl-taskd exits if nothing is active and the answer could
\* be written.
AnswerRestart ==
    /\ main = "control" /\ Holds("control")
    /\ \/ NothingActive /\ main' = "exited"
       \/ main' = "select"
    /\ Unlock
    /\ UNCHANGED <<restarts, handler, request, desired, active, owner, runtimes, signal, child,
                   waiter, failures>>

(***************************************************************************)
(* The specification.                                                       *)
(***************************************************************************)
DaemonInit ==
    /\ queue = <<>> /\ main = "select" /\ restarts = 0
    /\ handler = [c \in Client |-> "new"] /\ request = [c \in Client |-> None]
    /\ desired = [t \in Task |-> "stopped"] /\ active = [t \in Task |-> None]
    /\ owner = [r \in Run |-> None] /\ runtimes = [t \in Task |-> None]
    /\ signal = [r \in Run |-> FALSE] /\ child = [r \in Run |-> "none"]
    /\ waiter = [r \in Run |-> "none"] /\ failures = 0

Handle(c) ==
    \/ Dispatch(c) \/ Spawn(c) \/ SaveRun(c) \/ Publish(c)
    \/ FindHandle(c) \/ SendStop(c) \/ AwaitStop(c)

Wait(r) == AwaitChild(r) \/ Terminate(r) \/ FinishRun(r)

DaemonNext ==
    /\ main # "exited"
    /\ \/ \E c \in Client, k \in {"start", "stop", "restart"}, t \in Task : Receive(c, k, t)
       \/ \E c \in Client : Handle(c)
       \/ \E r \in Run : ChildExits(r) \/ Wait(r)
       \/ BeginReconcile \/ EndReconcile \/ TakeControl \/ AnswerRestart

\* Every task of the runtime is polled again, the reconciliation only by the
\* select of serve; ctmuxd answers or the exchange times out; deadlines pass.
DaemonFairness ==
    /\ \A c \in Client : WF_daemonVars(Handle(c))
    /\ \A r \in Run : WF_daemonVars(Wait(r))
    /\ WF_daemonVars(EndReconcile) /\ WF_daemonVars(AnswerRestart)

DaemonSpec == DaemonInit /\ [][DaemonNext]_daemonVars /\ DaemonFairness

(***************************************************************************)
(* Properties.                                                              *)
(***************************************************************************)
Supervised(r) == waiter[r] \in {"waiting", "stopping", "draining"}

\* A run that is waited for can be stopped: its handle is the one registered
\* for its task, so no run ever loses its handle to the end of an earlier run,
\* and no task has two.  And no process is left without somebody who waits for
\* it: the start that has just made it, or its waiter, also when the run could
\* not be saved.
Stoppable ==
    \A r \in Run :
        /\ Supervised(r) => runtimes[owner[r]] = r /\ active[owner[r]] = r
        /\ child[r] = "running" =>
             \/ waiter[r] \in {"waiting", "stopping"}
             \/ \E c \in Client : Holds(c) /\ handler[c] \in {"spawned", "saved"} /\ request[c].run = r

\* An accepted restart finds an idle daemon: no process runs, no request is
\* half done, and the result of every run has been recorded.
RestartIdle ==
    main = "exited" =>
        /\ \A r \in Run : waiter[r] \in {"none", "done"} /\ child[r] # "running"
        /\ \A c \in Client : handler[c] \in {"new", "queued", "answered"}

\* The reconciliation is ahead of the control branch in the queue of the mutex.
Stalled ==
    main = "control"
    /\ \E m, n \in DOMAIN queue : queue[m] = "reconcile" /\ queue[n] = "control" /\ m < n

\* Every request is answered, though it waits for the mutex, for a process and
\* for the room of a stop channel, unless serve waits for its own reconciliation.
RequestsAnswered ==
    \A c \in Client : (handler[c] = "queued") ~> (handler[c] = "answered" \/ main = "exited" \/ Stalled)

\* A restart request is answered.
RestartAnswered == (main = "control") ~> (main # "control")
=============================================================================
