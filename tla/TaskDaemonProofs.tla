-------------------------- MODULE TaskDaemonProofs --------------------------
(***************************************************************************)
(* Proofs about TaskDaemon, for every set of clients, tasks and runs: its    *)
(* types, that a run that is waited for can be stopped and no process is     *)
(* left alone, and that an accepted restart finds an idle daemon.            *)
(***************************************************************************)
EXTENDS TaskDaemon, TLAPS

(***************************************************************************)
(* The inductive invariant.                                                 *)
(***************************************************************************)
Party == Client \cup {"reconcile", "control"}

Asking == [kind : {"start", "stop", "restart"}, task : Task, run : Run \cup {None}]

\* What a client asks for is known from the moment it was received.
Asked == \A c \in Client : handler[c] # "new" => request[c] \in Asking

\* Nobody queues twice for the mutex.
Unqueued ==
    /\ \A c \in Client : handler[c] = "new" => ~Queued(c)
    /\ main = "select" => ~Queued("control")

\* A request that has begun has the mutex until it is answered.
HolderWorks ==
    \A c \in Client :
        handler[c] \in {"working", "spawned", "saved", "stopping", "sending", "awaiting"} => Holds(c)

\* A start runs for a task without an active run; its process is new, has no
\* waiter yet, and is the active run of the task once it is saved.
Starting ==
    \A c \in Client :
        LET t == request[c].task
            r == request[c].run IN
        /\ handler[c] \in {"working", "spawned"} => active[t] = None
        /\ handler[c] \in {"spawned", "saved"} => r \in Run /\ waiter[r] = "none" /\ child[r] # "none"
        /\ handler[c] = "saved" => active[t] = r

\* A run that has a waiter stays the active run of its task until the waiter
\* has recorded its end, and its handle is registered until its output is read.
Recorded ==
    \A r \in Run :
        /\ waiter[r] # "none" => owner[r] \in Task /\ child[r] # "none"
        /\ Supervised(r) => runtimes[owner[r]] = r
        /\ Supervised(r) \/ waiter[r] = "finishing" => active[owner[r]] = r
        /\ waiter[r] \in {"draining", "finishing", "done"} => child[r] = "exited"

\* A process has its waiter, or the start that has just made it.
Attended ==
    \A r \in Run : child[r] = "running" =>
        \/ waiter[r] \in {"waiting", "stopping"}
        \/ \E c \in Client : handler[c] \in {"spawned", "saved"} /\ request[c].run = r

DaemonInv ==
    /\ DaemonTypeOK /\ Asked /\ Unqueued /\ HolderWorks
    /\ Starting /\ Recorded /\ Attended /\ RestartIdle

(***************************************************************************)
(* The mutations mutex.                                                     *)
(***************************************************************************)
Distinct == \A m, n \in DOMAIN queue : queue[m] = queue[n] => m = n

\* One party holds the mutex.
LEMMA OneHolder ==
    ASSUME NEW a, NEW b, Holds(a), Holds(b)
    PROVE  a = b
BY DEF Holds

\* Whoever comes takes the last place, once.
LEMMA LockStep ==
    ASSUME queue \in Seq(Party), Distinct, NEW a \in Party, ~Queued(a), Lock(a)
    PROVE  /\ queue' \in Seq(Party) /\ Distinct'
           /\ queue' # <<>> /\ (queue # <<>> => Head(queue') = Head(queue))
           /\ \A b : Queued(b)' => Queued(b) \/ b = a
<1>1. queue' = Append(queue, a)
  BY DEF Lock
<1>2. /\ queue' \in Seq(Party) /\ Len(queue') = Len(queue) + 1
      /\ \A n \in 1 .. Len(queue) : queue'[n] = queue[n]
      /\ queue'[Len(queue) + 1] = a
  BY <1>1
<1>3. Distinct'
  <2>1. \A n \in 1 .. Len(queue) : queue[n] # a
    BY DEF Queued
  <2>2. ASSUME NEW m \in 1 .. Len(queue'), NEW n \in 1 .. Len(queue'), queue'[m] = queue'[n]
        PROVE  m = n
    <3>1. \A k \in 1 .. Len(queue') : k \in 1 .. Len(queue) \/ k = Len(queue) + 1
      BY <1>2
    <3> QED BY <1>2, <2>1, <2>2, <3>1 DEF Distinct
  <2> QED BY <1>2, <2>2 DEF Distinct
<1>4. queue' # <<>> /\ (queue # <<>> => Head(queue') = Head(queue))
  BY <1>2
<1>5. \A b : Queued(b)' => Queued(b) \/ b = a
  BY <1>2 DEF Queued
<1> QED BY <1>2, <1>3, <1>4, <1>5

\* The holder leaves, and is nowhere in the queue.
LEMMA UnlockStep ==
    ASSUME queue \in Seq(Party), Distinct, NEW a \in Party, Holds(a), Unlock
    PROVE  /\ queue' \in Seq(Party) /\ Distinct'
           /\ \A b : Queued(b)' => Queued(b) /\ b # a
<1>1. queue' = Tail(queue) /\ queue # <<>> /\ queue[1] = a
  BY DEF Unlock, Holds
<1>2. /\ queue' \in Seq(Party) /\ Len(queue') = Len(queue) - 1
      /\ \A n \in 1 .. Len(queue') : queue'[n] = queue[n + 1]
  BY <1>1
<1>3. Distinct'
  <2>1. ASSUME NEW m \in 1 .. Len(queue'), NEW n \in 1 .. Len(queue'), queue'[m] = queue'[n]
        PROVE  m = n
    <3>1. m + 1 \in 1 .. Len(queue) /\ n + 1 \in 1 .. Len(queue)
      BY <1>2
    <3>2. m + 1 = n + 1
      BY <1>2, <2>1, <3>1 DEF Distinct
    <3> QED BY <3>2
  <2> QED BY <1>2, <2>1 DEF Distinct
<1>4. \A b : Queued(b)' => Queued(b) /\ b # a
  BY <1>1, <1>2 DEF Queued, Distinct
<1> QED BY <1>2, <1>3, <1>4

\* Whoever holds the lock is first in its queue.
LEMMA HolderQueued ==
    ASSUME queue \in Seq(Party), NEW a, Holds(a)
    PROVE  Queued(a)
BY DEF Holds, Queued

\* Every action of DaemonNext, one by one.
LEMMA DaemonCases ==
    ASSUME [DaemonNext]_daemonVars
    PROVE  \/ \E c \in Client, k \in {"start", "stop", "restart"}, t \in Task : Receive(c, k, t)
           \/ \E c \in Client : \/ Dispatch(c) \/ Spawn(c) \/ SaveRun(c) \/ Publish(c)
                                \/ FindHandle(c) \/ SendStop(c) \/ AwaitStop(c)
           \/ \E r \in Run : \/ ChildExits(r) \/ AwaitChild(r) \/ Terminate(r)
                             \/ RemoveHandle(r) \/ EndRun(r)
           \/ BeginReconcile \/ EndReconcile \/ TakeControl \/ AnswerRestart
           \/ UNCHANGED daemonVars
BY DEF DaemonNext, Handle, Wait, FinishRun

\* A run that is spawned is a new one.
LEMMA NewRunIsNew ==
    ASSUME HasNewRun
    PROVE  NewRun \in Run /\ child[NewRun] = "none"
BY DEF HasNewRun, NewRun

\* The mutex with what its parties are doing.
Mutex == queue \in Seq(Party) /\ Distinct /\ Unqueued /\ HolderWorks /\ handler \in [Client -> Phase]

\* A holder that is answered hands the mutex on.
LEMMA ReplyStep ==
    ASSUME Mutex, NEW c \in Client, Holds(c), Reply(c), UNCHANGED main
    PROVE  Mutex'
<1>1. handler' = [handler EXCEPT ![c] = "answered"] /\ Unlock
  BY DEF Reply, Enter
<1>2. queue' \in Seq(Party) /\ Distinct' /\ \A b : Queued(b)' => Queued(b) /\ b # c
  BY <1>1, UnlockStep DEF Mutex, Party
<1>3. handler' \in [Client -> Phase]
  BY <1>1 DEF Mutex, Phase
<1>4. Unqueued'
  BY <1>1, <1>2 DEF Mutex, Unqueued
<1>5. HolderWorks'
  BY <1>1, OneHolder DEF Mutex, HolderWorks
<1> QED BY <1>2, <1>3, <1>4, <1>5 DEF Mutex

\* A holder goes on.
LEMMA KeepStep ==
    ASSUME Mutex, NEW c \in Client, Holds(c), NEW p \in Phase \ {"new"}, Enter(c, p),
           UNCHANGED <<queue, main>>
    PROVE  Mutex'
BY DEF Mutex, Enter, Distinct, Unqueued, HolderWorks, Holds, Queued

\* A stop that is over gives the lock back or goes on with it.
LEMMA StoppedStep ==
    ASSUME Mutex, NEW c \in Client, Holds(c), Stopped(c), UNCHANGED main
    PROVE  Mutex'
BY ReplyStep, KeepStep DEF Stopped, Phase

\* Steps that do not touch the lock.
LEMMA OthersStep ==
    ASSUME Mutex, UNCHANGED <<queue, main, handler>>
    PROVE  Mutex'
BY DEF Mutex, Distinct, Unqueued, HolderWorks, Holds, Queued

\* The lock has one holder at a time.
LEMMA MutexStep ==
    ASSUME Mutex, [DaemonNext]_daemonVars
    PROVE  Mutex'
<1> USE ReplyStep, KeepStep, StoppedStep DEF At
<1>1. ASSUME NEW c \in Client, NEW k \in {"start", "stop", "restart"}, NEW t \in Task,
             Receive(c, k, t)
      PROVE  Mutex'
  <2>1. handler[c] = "new" /\ handler' = [handler EXCEPT ![c] = "queued"] /\ Lock(c) /\ main' = main
    BY <1>1 DEF Receive, Enter
  <2>2. ~Queued(c)
    BY <2>1 DEF Mutex, Unqueued
  <2>3. /\ queue' \in Seq(Party) /\ Distinct'
        /\ queue' # <<>> /\ (queue # <<>> => Head(queue') = Head(queue))
        /\ \A b : Queued(b)' => Queued(b) \/ b = c
    BY <2>1, <2>2, LockStep DEF Mutex, Party
  <2>4. Unqueued'
    BY <2>1, <2>3, TaskDaemonAssumption DEF Mutex, Unqueued
  <2>5. HolderWorks'
    BY <2>1, <2>3 DEF Mutex, HolderWorks, Holds
  <2> QED BY <2>1, <2>3, <2>4, <2>5 DEF Mutex, Phase
<1>2. ASSUME NEW c \in Client, Dispatch(c) PROVE Mutex'
  BY <1>2 DEF Dispatch, Phase
<1>3. ASSUME NEW c \in Client, Spawn(c) PROVE Mutex'
  BY <1>3 DEF Spawn, Phase
<1>4. ASSUME NEW c \in Client, SaveRun(c) PROVE Mutex'
  BY <1>4 DEF SaveRun, Phase
<1>5. ASSUME NEW c \in Client, Publish(c) PROVE Mutex'
  BY <1>5 DEF Publish, Phase
<1>6. ASSUME NEW c \in Client, FindHandle(c) PROVE Mutex'
  BY <1>6 DEF FindHandle, Phase
<1>7. ASSUME NEW c \in Client, SendStop(c) PROVE Mutex'
  BY <1>7 DEF SendStop, Phase
<1>8. ASSUME NEW c \in Client, AwaitStop(c) PROVE Mutex'
  BY <1>8 DEF AwaitStop, Phase
<1>9. ASSUME NEW r \in Run, ChildExits(r) \/ Wait(r) PROVE Mutex'
  BY <1>9, OthersStep
     DEF ChildExits, Wait, AwaitChild, Terminate, FinishRun, RemoveHandle, EndRun
<1>10. ASSUME BeginReconcile PROVE Mutex'
  <2>1. /\ queue' \in Seq(Party) /\ Distinct'
        /\ queue' # <<>> /\ (queue # <<>> => Head(queue') = Head(queue))
        /\ \A b : Queued(b)' => Queued(b) \/ b = "reconcile"
    BY <1>10, LockStep DEF Mutex, Party, BeginReconcile
  <2>2. HolderWorks'
    BY <1>10, <2>1 DEF Mutex, HolderWorks, Holds, BeginReconcile
  <2> QED BY <1>10, <2>1, <2>2, TaskDaemonAssumption DEF Mutex, Unqueued, BeginReconcile
<1>11. ASSUME EndReconcile PROVE Mutex'
  <2>1. queue' \in Seq(Party) /\ Distinct' /\ \A b : Queued(b)' => Queued(b) /\ b # "reconcile"
    BY <1>11, UnlockStep DEF Mutex, Party, EndReconcile
  <2>2. HolderWorks'
    BY <1>11, OneHolder, TaskDaemonAssumption DEF Mutex, HolderWorks, EndReconcile
  <2> QED BY <1>11, <2>1, <2>2 DEF Mutex, Unqueued, EndReconcile
<1>12. ASSUME TakeControl PROVE Mutex'
  <2>1. /\ queue' \in Seq(Party) /\ Distinct'
        /\ queue' # <<>> /\ (queue # <<>> => Head(queue') = Head(queue))
        /\ \A b : Queued(b)' => Queued(b) \/ b = "control"
    BY <1>12, LockStep DEF Mutex, Party, TakeControl, Unqueued
  <2>2. HolderWorks'
    BY <1>12, <2>1 DEF Mutex, HolderWorks, Holds, TakeControl
  <2> QED BY <1>12, <2>1, <2>2, TaskDaemonAssumption DEF Mutex, Unqueued, TakeControl
<1>13. ASSUME AnswerRestart PROVE Mutex'
  <2>1. queue' \in Seq(Party) /\ Distinct' /\ \A b : Queued(b)' => Queued(b) /\ b # "control"
    BY <1>13, UnlockStep DEF Mutex, Party, AnswerRestart
  <2>2. HolderWorks'
    BY <1>13, OneHolder, TaskDaemonAssumption DEF Mutex, HolderWorks, AnswerRestart
  <2> QED BY <1>13, <2>1, <2>2 DEF Mutex, Unqueued, AnswerRestart
<1>14. CASE UNCHANGED daemonVars
  BY <1>14, OthersStep DEF daemonVars
<1> QED BY <1>1, <1>2, <1>3, <1>4, <1>5, <1>6, <1>7, <1>8, <1>9, <1>10, <1>11, <1>12, <1>13,
           <1>14 DEF DaemonNext, Handle

(***************************************************************************)
(* Types.                                                                   *)
(***************************************************************************)
LEMMA TypeStep ==
    ASSUME DaemonTypeOK, Mutex, Asked, Starting, [DaemonNext]_daemonVars
    PROVE  DaemonTypeOK' /\ Asked'
<1> DEFINE Rest ==
      /\ main \in {"select", "control", "exited"} /\ restarts \in 0 .. MaxRestarts
      /\ request \in [Client -> Asking \cup {None}]
      /\ desired \in [Task -> {"running", "stopped"}] /\ active \in [Task -> Run \cup {None}]
      /\ owner \in [Run -> Task \cup {None}] /\ runtimes \in [Task -> Run \cup {None}]
      /\ signal \in [Run -> BOOLEAN] /\ child \in [Run -> {"none", "running", "exited"}]
      /\ waiter \in [Run -> {"none", "waiting", "stopping", "draining", "finishing", "done"}]
      /\ failures \in 0 .. MaxSaveFailures
      /\ Asked
<1> Rest /\ handler \in [Client -> Phase]
  BY DEF DaemonTypeOK, Asking
<1>a. Mutex'
  BY MutexStep
<1>b. SUFFICES Rest'
  BY <1>a DEF DaemonTypeOK, Mutex, Distinct, Party, Asking
<1>c. ASSUME NEW c \in Client, handler[c] # "new"
      PROVE  request[c] \in Asking
  BY <1>c DEF Asked
<1> USE TaskDaemonAssumption
    DEF Asked, Enter, At, Reply, Stopped, SaveFailed, Phase
<1>1. ASSUME NEW c \in Client, NEW k \in {"start", "stop", "restart"}, NEW t \in Task,
             Receive(c, k, t)
      PROVE  Rest'
  BY <1>1 DEF Receive, Asking
<1>2. ASSUME NEW c \in Client, Dispatch(c) PROVE Rest'
  BY <1>2 DEF Dispatch
<1>3. ASSUME NEW c \in Client, Spawn(c) PROVE Rest'
  BY <1>3, <1>c, NewRunIsNew DEF Spawn, Asking
<1>4. ASSUME NEW c \in Client, SaveRun(c) PROVE Rest'
  BY <1>4, <1>c DEF SaveRun, Starting, Asking
<1>5. ASSUME NEW c \in Client, Publish(c) PROVE Rest'
  BY <1>5, <1>c DEF Publish, Starting, Asking
<1>6. ASSUME NEW c \in Client, FindHandle(c) PROVE Rest'
  BY <1>6, <1>c DEF FindHandle, Asking
<1>7. ASSUME NEW c \in Client, SendStop(c) PROVE Rest'
  BY <1>7 DEF SendStop
<1>8. ASSUME NEW c \in Client, AwaitStop(c) PROVE Rest'
  BY <1>8 DEF AwaitStop
<1>9. ASSUME NEW r \in Run, ChildExits(r) PROVE Rest'
  BY <1>9 DEF ChildExits
<1>10. ASSUME NEW r \in Run, AwaitChild(r) PROVE Rest'
  BY <1>10 DEF AwaitChild
<1>11. ASSUME NEW r \in Run, Terminate(r) PROVE Rest'
  BY <1>11 DEF Terminate
<1>12. ASSUME NEW r \in Run, RemoveHandle(r) PROVE Rest'
  BY <1>12 DEF RemoveHandle
<1>13. ASSUME NEW r \in Run, EndRun(r) PROVE Rest'
  BY <1>13 DEF EndRun
<1>14. ASSUME BeginReconcile PROVE Rest'
  BY <1>14 DEF BeginReconcile
<1>15. ASSUME EndReconcile PROVE Rest'
  BY <1>15 DEF EndReconcile
<1>16. ASSUME TakeControl PROVE Rest'
  BY <1>16 DEF TakeControl
<1>17. ASSUME AnswerRestart PROVE Rest'
  BY <1>17 DEF AnswerRestart
<1>18. CASE UNCHANGED daemonVars
  BY <1>18 DEF daemonVars
<1> QED BY DaemonCases, <1>1, <1>2, <1>3, <1>4, <1>5, <1>6, <1>7, <1>8, <1>9, <1>10, <1>11,
           <1>12, <1>13, <1>14, <1>15, <1>16, <1>17, <1>18

(***************************************************************************)
(* Runs.                                                                    *)
(***************************************************************************)
LEMMA RunStep ==
    ASSUME DaemonInv, [DaemonNext]_daemonVars
    PROVE  (Starting /\ Recorded /\ Attended)'
<1> DEFINE Goal == Starting /\ Recorded /\ Attended
<1>0. ASSUME UNCHANGED daemonVars PROVE Goal'
  <2>1. Starting' /\ Recorded'
    BY <1>0 DEF daemonVars, DaemonInv, Starting, Recorded, Supervised, Holds
  <2>2. Attended'
    BY <1>0 DEF daemonVars, DaemonInv, Attended, Supervised, Holds
  <2> QED BY <2>1, <2>2
<1>a. ASSUME NEW c \in Client, NEW d \in Client, c # d, Holds(c)
      PROVE  handler[d] \notin {"working", "spawned", "saved", "stopping", "sending", "awaiting"}
  BY <1>a, OneHolder DEF DaemonInv, HolderWorks
<1>b. ASSUME NEW c \in Client, handler[c] # "new"
      PROVE  request[c] \in Asking
  BY <1>b DEF DaemonInv, Asked
<1> USE TaskDaemonAssumption
    DEF DaemonInv, DaemonTypeOK, Starting, Recorded, Attended, Supervised, Asking, Enter, At,
        Reply, Stopped, Phase
<1>1. ASSUME NEW c \in Client, NEW k \in {"start", "stop", "restart"}, NEW t \in Task,
             Receive(c, k, t)
      PROVE  Goal'
  BY <1>1, <1>a, <1>b DEF Receive
<1>2. ASSUME NEW c \in Client, Dispatch(c) PROVE Goal'
  BY <1>2, <1>a, <1>b DEF Dispatch
<1>3. ASSUME NEW c \in Client, Spawn(c) PROVE Goal'
  <2>1. CASE HasNewRun /\ handler' = [handler EXCEPT ![c] = "spawned"]
    <3>1. PICK r \in Run : /\ child[r] = "none"
                           /\ child' = [child EXCEPT ![r] = "running"]
                           /\ request' = [request EXCEPT ![c].run = r]
      BY <1>3, <2>1, NewRunIsNew DEF Spawn
    <3>2. /\ handler[c] = "working" /\ request[c] \in Asking /\ Holds(c)
          /\ UNCHANGED <<active, owner, runtimes, waiter>>
      BY <1>3, <1>b DEF Spawn
    <3>3. Starting'
      BY <2>1, <3>1, <3>2, <1>a, <1>b
    <3>4. Recorded'
      BY <3>1, <3>2
    <3>5. Attended'
      BY <2>1, <3>1, <3>2, <1>a, <1>b
    <3> QED BY <3>3, <3>4, <3>5
  <2>2. CASE Reply(c) /\ UNCHANGED <<child, request>>
    BY <1>3, <2>2, <1>a, <1>b DEF Spawn
  <2> QED BY <1>3, <2>1, <2>2 DEF Spawn
<1>4. ASSUME NEW c \in Client, SaveRun(c) PROVE Goal'
  <2>1. Starting'
    BY <1>4, <1>a, <1>b DEF SaveRun
  <2>2. Recorded'
    BY <1>4, <1>a, <1>b DEF SaveRun
  <2>3. Attended'
    BY <1>4, <1>a, <1>b DEF SaveRun
  <2> QED BY <2>1, <2>2, <2>3
<1>5. ASSUME NEW c \in Client, Publish(c) PROVE Goal'
  BY <1>5, <1>a, <1>b DEF Publish
<1>6. ASSUME NEW c \in Client, FindHandle(c) PROVE Goal'
  BY <1>6, <1>a, <1>b DEF FindHandle
<1>7. ASSUME NEW c \in Client, SendStop(c) PROVE Goal'
  <2>1. /\ handler[c] = "sending" /\ Holds(c) /\ request[c] \in Asking
        /\ UNCHANGED <<request, active, owner, runtimes, child, waiter>>
    BY <1>7, <1>b DEF SendStop
  <2>2. \/ handler' = [handler EXCEPT ![c] = "awaiting"]
        \/ handler' = [handler EXCEPT ![c] = "answered"]
        \/ handler' = [handler EXCEPT ![c] = "working"] /\ active[request[c].task] = None
    BY <1>7 DEF SendStop
  <2> QED BY <2>1, <2>2, <1>a, <1>b
<1>8. ASSUME NEW c \in Client, AwaitStop(c) PROVE Goal'
  BY <1>8, <1>a, <1>b DEF AwaitStop
<1>9. ASSUME NEW r \in Run, ChildExits(r) PROVE Goal'
  BY <1>9, <1>a, <1>b DEF ChildExits
<1>10. ASSUME NEW r \in Run, AwaitChild(r) PROVE Goal'
  BY <1>10, <1>a, <1>b DEF AwaitChild
<1>11. ASSUME NEW r \in Run, Terminate(r) PROVE Goal'
  BY <1>11, <1>a, <1>b DEF Terminate
<1>12. ASSUME NEW r \in Run, RemoveHandle(r) PROVE Goal'
  BY <1>12, <1>a, <1>b DEF RemoveHandle
<1>13. ASSUME NEW r \in Run, EndRun(r) PROVE Goal'
  BY <1>13, <1>a, <1>b DEF EndRun
<1>14. ASSUME BeginReconcile PROVE Goal'
  BY <1>14, <1>a, <1>b DEF BeginReconcile
<1>15. ASSUME EndReconcile PROVE Goal'
  BY <1>15, <1>a, <1>b DEF EndReconcile
<1>16. ASSUME TakeControl PROVE Goal'
  BY <1>16, <1>a, <1>b DEF TakeControl
<1>17. ASSUME AnswerRestart PROVE Goal'
  BY <1>17, <1>a, <1>b DEF AnswerRestart
<1> HIDE DEF Goal, DaemonInv, DaemonTypeOK, Starting, Recorded, Attended, Supervised, Asking,
             Enter, At, Reply, Stopped, Phase
<1>18. Goal'
  BY DaemonCases, <1>0, <1>1, <1>2, <1>3, <1>4, <1>5, <1>6, <1>7, <1>8, <1>9, <1>10,
     <1>11, <1>12, <1>13, <1>14, <1>15, <1>16, <1>17
<1> QED BY <1>18 DEF Goal

\* With the mutex in the hands of the control branch and nothing active, no
\* process, waiter or request is under way.
LEMMA IdleStep ==
    ASSUME DaemonInv, [DaemonNext]_daemonVars
    PROVE  RestartIdle'
<1>1. CASE AnswerRestart /\ main' = "exited"
  <2>1. Holds("control") /\ UNCHANGED <<handler, waiter, child>>
        /\ (NothingActive \/ main' = "select")
    BY <1>1 DEF AnswerRestart
  <2>2. NothingActive
    BY <1>1, <2>1
  <2>3. \A c \in Client : ~Holds(c)
    BY <2>1, OneHolder, TaskDaemonAssumption
  <2>4. \A c \in Client : handler[c] \in {"new", "queued", "answered"}
    BY <2>3 DEF DaemonInv, DaemonTypeOK, HolderWorks, Phase
  <2>5. \A r \in Run : waiter[r] \in {"none", "done"}
    BY <2>2, TaskDaemonAssumption
       DEF DaemonInv, DaemonTypeOK, Recorded, Supervised, NothingActive
  <2>6. \A r \in Run : child[r] # "running"
    BY <2>4, <2>5 DEF DaemonInv, Attended
  <2> QED BY <2>1, <2>4, <2>5, <2>6 DEF RestartIdle
<1>2. CASE UNCHANGED daemonVars
  BY <1>2 DEF daemonVars, DaemonInv, RestartIdle
<1>3. CASE DaemonNext /\ ~(AnswerRestart /\ main' = "exited")
  <2>1. main' # "exited"
    BY <1>3 DEF DaemonNext, Handle, Wait, FinishRun, Receive, Dispatch, Spawn, SaveRun, Publish,
                FindHandle, SendStop, AwaitStop, ChildExits, AwaitChild, Terminate, RemoveHandle,
                EndRun, BeginReconcile, EndReconcile, TakeControl, AnswerRestart
  <2> QED BY <2>1 DEF RestartIdle
<1> QED BY <1>1, <1>2, <1>3

\* It holds at the start.
LEMMA DaemonInvInit == DaemonInit => DaemonInv
<1> SUFFICES ASSUME DaemonInit PROVE DaemonInv
  OBVIOUS
<1>1. queue = <<>> /\ queue \in Seq(Party) /\ DOMAIN queue = {}
  BY DEF DaemonInit
<1>2. DaemonTypeOK
  BY <1>1, TaskDaemonAssumption DEF DaemonInit, DaemonTypeOK, Phase, Party
<1>3. Asked /\ Unqueued /\ HolderWorks
  BY <1>1 DEF DaemonInit, Asked, Unqueued, HolderWorks, Queued
<1>4. Starting /\ Recorded /\ Attended /\ RestartIdle
  BY DEF DaemonInit, Starting, Recorded, Attended, RestartIdle, Supervised
<1> QED BY <1>2, <1>3, <1>4 DEF DaemonInv

\* The invariant is inductive.
LEMMA DaemonInvStep == DaemonInv /\ [DaemonNext]_daemonVars => DaemonInv'
<1> SUFFICES ASSUME DaemonInv, [DaemonNext]_daemonVars PROVE DaemonInv'
  OBVIOUS
<1>1. Mutex
  BY DEF DaemonInv, DaemonTypeOK, Mutex, Distinct, Party
<1>2. Mutex'
  BY <1>1, MutexStep
<1>3. DaemonTypeOK' /\ Asked'
  BY <1>1, TypeStep DEF DaemonInv
<1> QED BY <1>2, <1>3, RunStep, IdleStep DEF DaemonInv, Mutex

\* Every state of ctl-taskd has the declared types, and nobody is in the queue
\* of the mutations mutex twice.
THEOREM DaemonTyped == DaemonSpec => []DaemonTypeOK
<1>1. DaemonInv => DaemonTypeOK
  BY DEF DaemonInv
<1> QED BY <1>1, DaemonInvInit, DaemonInvStep, PTL DEF DaemonSpec

\* A run that is waited for can be stopped through the handle of its task, and
\* no process is left without a waiter or the start that has just made it,
\* whatever saves fail and however stops, restarts and exits interleave.
THEOREM RunsStoppable == DaemonSpec => []Stoppable
<1>1. DaemonInv => Stoppable
  <2> SUFFICES ASSUME DaemonInv, NEW r \in Run
               PROVE  /\ Supervised(r) => runtimes[owner[r]] = r /\ active[owner[r]] = r
                      /\ child[r] = "running" =>
                           \/ waiter[r] \in {"waiting", "stopping"}
                           \/ \E c \in Client : /\ Holds(c) /\ handler[c] \in {"spawned", "saved"}
                                                /\ request[c].run = r
    BY DEF Stoppable
  <2> QED BY DEF DaemonInv, Recorded, Attended, HolderWorks
<1> QED BY <1>1, DaemonInvInit, DaemonInvStep, PTL DEF DaemonSpec

\* An accepted restart of ctl-taskd finds it idle: the mutex and the active
\* runs that restart_response reads are enough to know that nothing is half
\* done.
THEOREM RestartFindsIdle == DaemonSpec => []RestartIdle
<1>1. DaemonInv => RestartIdle
  BY DEF DaemonInv
<1> QED BY <1>1, DaemonInvInit, DaemonInvStep, PTL DEF DaemonSpec
=============================================================================
