---------------------------- MODULE ManagedTasks ----------------------------
(***************************************************************************)
(* Interactive tasks: ctl-taskd's task records, in memory and in state.json, *)
(* and the sessions that ctmuxd runs for them.  Every request that changes  *)
(* tasks, and the reconciliation of one task, holds the mutations mutex, so  *)
(* at most one job is under way.  A job awaits an answer of ctmuxd at every  *)
(* exchange, and there ctl-taskd may crash, ctmuxd may crash, drain or exit, *)
(* and the answer may be lost, or overtaken by a timeout and executed late.  *)
(*                                                                         *)
(* What ctmuxd does with an operation is SessionManager::manage, in one step:*)
(* DaemonLifecycle has its interleavings with the rest of ctmuxd.            *)
(***************************************************************************)
EXTENDS Naturals

CONSTANTS
    Task,           \* task identifiers
    Run,            \* run identifiers, each used once
    Instance,       \* instance identifiers of ctmuxd, each used once
    MaxUpdates,     \* updates of a task's definition
    MaxFaults,      \* failed saves, lost answers, failed creates and crashes
    None

\* A definition is the number of updates it has had.
Definition == 0 .. MaxUpdates

Outcome == {"success", "failure"}
Absent == "absent"
Retired == "retired"

RunRecord == [run : Run, instance : Instance, definition : Definition, session : BOOLEAN,
              state : {"starting", "running", "unknown", "stopped", "completed", "failed"},
              code : Outcome \cup {None}, released : BOOLEAN]
TaskRecord == [definition : Definition, desired : {"stopped", "running"},
               active : RunRecord \cup {None}, last : RunRecord \cup {None}]
Request == [op : {"start", "stop", "release"}, run : Run, instance : Instance,
            definition : Definition]

\* Where a job is: the exchange it awaits, or the save it does next, or that
\* nothing polls it any more.
Step == {"connect", "releaseStatus", "release", "released", "pin", "intend", "status", "operate",
         "record", "lost", "refused", "unknown", "remove", "stalled"}

Job == [kind : {"reconcile", "start", "stop", "restart", "remove"}, task : Task, at : Step,
        hold : Instance \cup {None}, session : {Absent, "running"} \cup Outcome,
        pinned : Instance \cup {None}]

ASSUME ManagedAssumption ==
    /\ MaxUpdates \in Nat /\ MaxFaults \in Nat
    /\ None \notin Task \cup Run \cup Instance \cup Outcome \cup {"start", "stop"}
    /\ None \notin RunRecord /\ None \notin TaskRecord /\ None \notin Job

VARIABLES
    \* ctl-taskd
    up,         \* ctl-taskd is running
    tasks,      \* State.tasks
    disk,       \* state.json
    job,        \* what holds the mutations mutex
    used,       \* run identifiers given out, each with its task
    \* ctmuxd
    instance,   \* the instance that owns the control socket
    spent,      \* instances that have been started
    draining,   \* a cooperative restart was accepted
    managed,    \* SessionManagerInner.managed
    process,    \* the processes of every run, by the instance that made them
    \* both
    late,       \* requests whose answer nobody awaits any more
    faults

taskd == <<up, tasks, disk, job, used>>
ctmuxd == <<instance, spent, draining, managed, process>>
vars == <<up, tasks, disk, job, used, instance, spent, draining, managed, process, late,
          faults>>

TypeOK ==
    /\ up \in BOOLEAN
    /\ tasks \in [Task -> TaskRecord \cup {None}]
    /\ disk \in [Task -> TaskRecord \cup {None}]
    /\ job \in Job \cup {None}
    /\ used \in [Run -> Task \cup {None}]
    /\ instance \in Instance \cup {None}
    /\ spent \subseteq Instance
    /\ draining \in BOOLEAN
    /\ managed \in [Run -> {Absent, Retired, "session"}]
    /\ process \in [Run -> [Instance -> {"none", "running", "killed", "lost"} \cup Outcome]]
    /\ late \subseteq Request
    /\ faults \in 0 .. MaxFaults

Fault == faults < MaxFaults /\ faults' = faults + 1

Live(r, i) == process[r][i] \in {"running", "killed"}

(***************************************************************************)
(* ctmuxd.                                                                  *)
(***************************************************************************)
\* The session that manage reports for a run.
Reported(r) ==
    IF managed[r] # "session" THEN Absent
    ELSE IF Live(r, instance) THEN "running" ELSE process[r][instance]

\* Mutant: a mutation is accepted whatever instance it was meant for.
AcceptsAny(q) ==
    /\ instance # None /\ ~draining
    /\ \/ q.op = "start" /\ managed[q.run] # Retired
       \/ q.op = "stop"
       \/ q.op = "release" /\ Reported(q.run) # "running"

\* Mutant: tombstones do not reject a start.
AcceptsRetired(q) ==
    /\ instance = q.instance /\ ~draining
    /\ \/ q.op \in {"start", "stop"}
       \/ q.op = "release" /\ Reported(q.run) # "running"

\* manage: the instance is the pinned one, a retired run does not start, and
\* a running session is not released.
Accepts(q) ==
    /\ instance = q.instance /\ ~draining
    /\ \/ q.op = "start" /\ managed[q.run] # Retired
       \/ q.op = "stop"
       \/ q.op = "release" /\ Reported(q.run) # "running"

\* What an accepted operation does.
Execute(q) ==
    LET creates == q.op = "start" /\ managed[q.run] # "session"
        retires == q.op = "release" \/ (q.op = "stop" /\ managed[q.run] # "session")
        kills == q.op = "stop" /\ managed[q.run] = "session"
                 /\ process[q.run][instance] = "running" IN
    /\ managed' = [managed EXCEPT ![q.run] = IF retires THEN Retired
                                             ELSE IF creates THEN "session" ELSE @]
    /\ process' = [process EXCEPT ![q.run][instance] =
                       IF creates THEN "running" ELSE IF kills THEN "killed" ELSE @]
    /\ UNCHANGED <<instance, spent, draining>>

\* The session in the answer of an operation.
Answer(q) ==
    IF q.op = "start" /\ managed[q.run] # "session" THEN "running"
    ELSE IF q.op = "release" THEN Absent ELSE Reported(q.run)

\* A process exits by itself or because it was killed.
Exit(r, i) ==
    /\ Live(r, i)
    /\ \E code \in Outcome : process' = [process EXCEPT ![r][i] = code]
    /\ UNCHANGED <<taskd, instance, spent, draining, managed, late, faults>>

\* The instance is gone: its PTYs hang up and its outcomes are lost.
Vanish ==
    /\ instance' = None /\ draining' = FALSE
    /\ managed' = [r \in Run |-> Absent]
    /\ process' = [r \in Run |-> [i \in Instance |->
                       IF process[r][i] = "none" THEN "none" ELSE "lost"]]
    /\ late' = {}
    /\ UNCHANGED <<taskd, spent>>

\* Identifiers are random: which unused one is taken makes no difference.
NewInstance == CHOOSE i \in Instance : i \notin spent

CrashCtmuxd == instance # None /\ Fault /\ Vanish

\* ctmuxd exits when nothing is retained and no connection is open, and after
\* a restart when the processes are dead.
ExitCtmuxd ==
    /\ instance # None
    /\ \/ /\ \A r \in Run : managed[r] # "session"
          /\ ~(job # None /\ job.hold = instance)
       \/ draining
    /\ \A r \in Run : ~Live(r, instance)
    /\ Vanish
    /\ UNCHANGED faults

\* A client of ctmux starts it.
StartCtmuxd ==
    /\ instance = None /\ spent # Instance
    /\ instance' = NewInstance /\ spent' = spent \cup {NewInstance}
    /\ UNCHANGED <<taskd, draining, managed, process, late, faults>>

\* begin_cooperative_restart
RestartCtmuxd ==
    /\ instance # None /\ ~draining
    /\ draining' = TRUE
    /\ managed' = [r \in Run |-> Absent]
    /\ process' = [r \in Run |-> [i \in Instance |->
                       IF Live(r, i) THEN "killed" ELSE process[r][i]]]
    /\ UNCHANGED <<taskd, instance, spent, late, faults>>

\* A request that was given up reaches ctmuxd.
Deliver(q) ==
    /\ q \in late
    /\ late' = late \ {q}
    /\ IF Accepts(q) THEN Execute(q) ELSE UNCHANGED ctmuxd
    /\ UNCHANGED <<taskd, faults>>

(***************************************************************************)
(* ctl-taskd: saving.  state.json is replaced atomically by all tasks.       *)
(***************************************************************************)
Save(t, record) ==
    /\ tasks' = [tasks EXCEPT ![t] = record]
    /\ disk' = tasks'
    /\ UNCHANGED faults

\* store_task, and the others that put the previous record back.
SaveFails == Fault /\ UNCHANGED <<tasks, disk>>

Current == tasks[job.task]
Active == Current.active
Last == Current.last

Goto(step) == job' = [job EXCEPT !.at = step]
Done == job' = None

\* Where reconcile_one begins, and release_outcome's early returns.
Unreleased(task) == task.active = None /\ task.last # None /\ ~task.last.released

Idle == up /\ job = None

Begin(kind, t, step) ==
    job' = [kind |-> kind, task |-> t, at |-> step, hold |-> None, session |-> Absent,
            pinned |-> None]

(***************************************************************************)
(* Requests.                                                                *)
(***************************************************************************)
Fresh == [definition |-> 0, desired |-> "stopped", active |-> None, last |-> None]

\* register: a failing save is undone.
Register(t) ==
    /\ Idle /\ tasks[t] = None
    /\ Save(t, Fresh)
    /\ UNCHANGED <<up, job, used, ctmuxd, late>>

\* create: a failing save leaves the task in memory.
Create(t) ==
    /\ Idle /\ tasks[t] = None
    /\ \/ Save(t, Fresh)
       \/ /\ Fault
          /\ tasks' = [tasks EXCEPT ![t] = Fresh]
          /\ UNCHANGED disk
    /\ UNCHANGED <<up, job, used, ctmuxd, late>>

\* Mutant: a definition may change under an active run.
UpdateActive(t) ==
    /\ Idle /\ tasks[t] # None
    /\ tasks[t].definition < MaxUpdates
    /\ Save(t, [tasks[t] EXCEPT !.definition = @ + 1])
    /\ UNCHANGED <<up, job, used, ctmuxd, late>>

\* update_definition
Update(t) ==
    /\ Idle /\ tasks[t] # None
    /\ tasks[t].active = None
    /\ tasks[t].definition < MaxUpdates
    /\ Save(t, [tasks[t] EXCEPT !.definition = @ + 1])
    /\ UNCHANGED <<up, job, used, ctmuxd, late>>

Start(t) ==
    /\ Idle /\ tasks[t] # None /\ tasks[t].active = None
    /\ Begin("start", t, "connect")
    /\ UNCHANGED <<up, tasks, disk, used, ctmuxd, late, faults>>

\* stop and restart: the desired state is saved first.
Stop(kind, t) ==
    /\ Idle /\ tasks[t] # None /\ tasks[t].active # None
    /\ \/ Save(t, [tasks[t] EXCEPT !.desired = "stopped"]) /\ Begin(kind, t, "status")
       \/ SaveFails /\ UNCHANGED job
    /\ UNCHANGED <<up, used, ctmuxd, late>>

\* remove: an outcome that is not released yet is released first.
Remove(t) ==
    /\ Idle /\ tasks[t] # None /\ tasks[t].active = None
    /\ Begin("remove", t, IF Unreleased(tasks[t]) THEN "releaseStatus" ELSE "remove")
    /\ UNCHANGED <<up, tasks, disk, used, ctmuxd, late, faults>>

\* A failing save leaves the task removed in memory.
FinishRemove ==
    /\ job.at = "remove"
    /\ \/ Save(job.task, None)
       \/ /\ Fault
          /\ tasks' = [tasks EXCEPT ![job.task] = None]
          /\ UNCHANGED disk
    /\ Done
    /\ UNCHANGED <<up, used, ctmuxd, late>>

\* Mutant: a task that is to stop is left to the stop request.
ReconcileRunning(t) ==
    /\ Idle /\ tasks[t] # None
    /\ (tasks[t].active # None /\ tasks[t].desired = "running") \/ Unreleased(tasks[t])
    /\ Begin("reconcile", t, IF tasks[t].active # None THEN "status" ELSE "releaseStatus")
    /\ UNCHANGED <<up, tasks, disk, used, ctmuxd, late, faults>>

\* Mutant: only active runs are looked at.
ReconcileActive(t) ==
    /\ Idle /\ tasks[t] # None
    /\ tasks[t].active # None
    /\ Begin("reconcile", t, "status")
    /\ UNCHANGED <<up, tasks, disk, used, ctmuxd, late, faults>>

\* reconcile_interactive, for one task.
Reconcile(t) ==
    /\ Idle /\ tasks[t] # None
    /\ tasks[t].active # None \/ Unreleased(tasks[t])
    /\ Begin("reconcile", t, IF tasks[t].active # None THEN "status" ELSE "releaseStatus")
    /\ UNCHANGED <<up, tasks, disk, used, ctmuxd, late, faults>>

(***************************************************************************)
(* start_interactive.                                                       *)
(***************************************************************************)
NewRun == CHOOSE r \in Run : used[r] = None

\* connect_for_creation starts ctmuxd when none is running.
Connect ==
    /\ job.at = "connect"
    /\ \/ /\ instance # None /\ ~draining
          /\ job' = [job EXCEPT !.hold = instance,
                                !.at = IF Unreleased(Current) THEN "releaseStatus" ELSE "pin"]
          /\ UNCHANGED ctmuxd
       \/ /\ instance = None
          /\ spent # Instance
          /\ instance' = NewInstance /\ spent' = spent \cup {NewInstance}
          /\ job' = [job EXCEPT !.hold = NewInstance,
                                !.at = IF Unreleased(Current) THEN "releaseStatus" ELSE "pin"]
          /\ UNCHANGED <<draining, managed, process>>
       \/ Done /\ UNCHANGED ctmuxd
    /\ UNCHANGED <<up, tasks, disk, used, late, faults>>

\* The answers a status request may get: no endpoint, an error, or the
\* instance that answers.
Asked(answer) ==
    \/ answer = "gone" /\ instance = None /\ UNCHANGED faults
    \/ answer = "error" /\ instance # None /\ draining /\ UNCHANGED faults
    \/ answer = "error" /\ instance # None /\ Fault
    \/ answer = "observed" /\ instance # None /\ ~draining /\ UNCHANGED faults

Pin ==
    /\ job.at = "pin"
    /\ \/ Asked("observed") /\ job' = [job EXCEPT !.at = "intend", !.pinned = instance]
       \/ (Asked("gone") \/ Asked("error")) /\ Done
    /\ UNCHANGED <<up, tasks, disk, used, ctmuxd, late>>

\* The durable intent.
Intend ==
    /\ job.at = "intend"
    /\ \/ /\ \E r \in Run : used[r] = None
          /\ used' = [used EXCEPT ![NewRun] = job.task]
          /\ Save(job.task,
                  [Current EXCEPT !.desired = "running",
                      !.active = [run |-> NewRun, instance |-> job.pinned,
                                  definition |-> Current.definition, session |-> FALSE,
                                  state |-> "starting", code |-> None, released |-> FALSE]])
          /\ job' = [job EXCEPT !.at = "status", !.pinned = None]
       \/ SaveFails /\ Done /\ UNCHANGED used
    /\ UNCHANGED <<up, ctmuxd, late>>

(***************************************************************************)
(* reconcile_one.                                                           *)
(***************************************************************************)
Again(step) == job' = [job EXCEPT !.at = step, !.session = Absent]

\* reconcile_one has returned: stop goes on until the run is gone or its
\* deadline has passed, and restart then starts the task again.
Return(active) ==
    CASE job.kind \in {"reconcile", "start"} -> Done
      [] job.kind = "stop" -> IF active = None THEN Done ELSE Done \/ Again("status")
      [] job.kind = "restart" -> IF active = None
                                 THEN job' = [job EXCEPT !.kind = "start", !.at = "connect",
                                                         !.session = Absent]
                                 ELSE Done \/ Again("status")

\* The operation that follows the status.
Wanted(session) ==
    IF Current.desired = "stopped" THEN "stop"
    ELSE IF session = Absent /\ ~Active.session THEN "start" ELSE None

Status ==
    /\ job.at = "status"
    /\ \/ /\ Asked("observed")
          /\ IF instance = Active.instance
             THEN job' = [job EXCEPT !.at = IF Wanted(Reported(Active.run)) = None
                                            THEN "record" ELSE "operate",
                                     !.session = Reported(Active.run)]
             ELSE Goto("lost")
       \/ Asked("gone") /\ Goto("lost")
       \/ Asked("error") /\ Goto("unknown")
    /\ UNCHANGED <<up, tasks, disk, used, ctmuxd, late>>

Operation == [op |-> Wanted(job.session), run |-> Active.run, instance |-> Active.instance,
              definition |-> Current.definition]

\* The exchange: answered; refused; or given up, executed already or not yet.
Operate ==
    /\ job.at = "operate"
    /\ \/ /\ instance = None
          /\ Goto("lost")
          /\ UNCHANGED <<ctmuxd, late, faults>>
       \/ /\ instance # None /\ Accepts(Operation)
          /\ Execute(Operation)
          /\ \/ job' = [job EXCEPT !.at = "record", !.session = Answer(Operation)]
                /\ UNCHANGED faults
             \/ Fault /\ Goto("unknown")
          /\ UNCHANGED late
       \/ /\ instance # None
          /\ \/ ~Accepts(Operation) /\ UNCHANGED faults
             \/ Accepts(Operation) /\ Fault
          /\ Goto(IF Operation.op = "start" THEN "refused" ELSE "unknown")
          /\ UNCHANGED <<ctmuxd, late>>
       \/ /\ instance # None /\ Fault
          /\ late' = late \cup {Operation}
          /\ Goto("unknown")
          /\ UNCHANGED ctmuxd
    /\ UNCHANGED <<up, tasks, disk, used>>

\* complete_interactive
Completed(code) ==
    [Current EXCEPT !.active = None, !.desired = "stopped",
        !.last = [Active EXCEPT !.code = code,
                     !.session = @ \/ (job.at = "record" /\ job.session # Absent),
                     !.state = IF Current.desired = "stopped" THEN "stopped"
                               ELSE IF code = "success" THEN "completed" ELSE "failed"]]

\* Mutant: a record that could not be saved is kept in memory.
RecordUnsaved ==
    LET running == [Current EXCEPT !.active.state = "running", !.active.session = TRUE]
        ended == Completed(IF job.session = Absent THEN None ELSE job.session)
        record == IF job.session = "running" THEN running ELSE ended IN
    /\ job.at = "record"
    /\ \/ Save(job.task, record) /\ Return(record.active)
       \/ /\ Fault /\ Done
          /\ tasks' = [tasks EXCEPT ![job.task] = record]
          /\ UNCHANGED disk
    /\ UNCHANGED <<up, used, ctmuxd, late>>

Record ==
    LET running == [Current EXCEPT !.active.state = "running", !.active.session = TRUE]
        ended == Completed(IF job.session = Absent THEN None ELSE job.session)
        record == IF job.session = "running" THEN running ELSE ended IN
    /\ job.at = "record"
    /\ \/ Save(job.task, record) /\ Return(record.active)
       \/ record # Current /\ SaveFails /\ Done
    /\ UNCHANGED <<up, used, ctmuxd, late>>

\* The instance is gone or replaced.
Lose ==
    /\ job.at = "lost"
    /\ \/ Save(job.task, Completed(None)) /\ Return(None)
       \/ SaveFails /\ Done
    /\ UNCHANGED <<up, used, ctmuxd, late>>

\* A refused creation ends the run.
Refuse ==
    /\ job.at = "refused"
    /\ Save(job.task, Completed(None)) \/ SaveFails
    /\ Done
    /\ UNCHANGED <<up, used, ctmuxd, late>>

\* An uncertain answer keeps the run.
Doubt ==
    /\ job.at = "unknown"
    /\ Save(job.task, [Current EXCEPT !.active.state = "unknown"]) \/ SaveFails
    /\ Done
    /\ UNCHANGED <<up, used, ctmuxd, late>>

(***************************************************************************)
(* release_outcome.                                                         *)
(***************************************************************************)
ReleaseStatus ==
    /\ job.at = "releaseStatus"
    /\ \/ Asked("observed") /\ Goto(IF instance = Last.instance THEN "release" ELSE "released")
       \/ Asked("gone") /\ Goto("released")
       \/ Asked("error") /\ Done
    /\ UNCHANGED <<up, tasks, disk, used, ctmuxd, late>>

Releasing == [op |-> "release", run |-> Last.run, instance |-> Last.instance,
              definition |-> Last.definition]

Release ==
    /\ job.at = "release"
    /\ \/ /\ Accepts(Releasing) /\ Execute(Releasing)
          /\ \/ Goto("released") /\ UNCHANGED faults
             \/ Done /\ Fault
          /\ UNCHANGED late
       \/ /\ ~Accepts(Releasing) /\ Done
          /\ UNCHANGED <<ctmuxd, late, faults>>
       \/ /\ instance # None /\ Fault /\ Done
          /\ late' = late \cup {Releasing}
          /\ UNCHANGED ctmuxd
    /\ UNCHANGED <<up, tasks, disk, used>>

Released ==
    /\ job.at = "released"
    /\ \/ /\ Save(job.task, [Current EXCEPT !.last.released = TRUE])
          /\ CASE job.kind = "reconcile" -> Done
               [] job.kind = "start" -> Goto("pin")
               [] job.kind = "remove" -> Goto("remove")
       \/ SaveFails /\ Done
    /\ UNCHANGED <<up, used, ctmuxd, late>>

(***************************************************************************)
(* The select of serve: a restart request is taken while the reconciliation *)
(* has the mutex, or is ahead in its queue.  The control branch then waits  *)
(* for the mutex and polls nothing, so the reconciliation keeps it for ever. *)
(* Requests ahead of the reconciliation are still served: the step here is   *)
(* the one after which nobody is.  TaskDaemon has the queue.                 *)
(***************************************************************************)
Stalled == job # None /\ job.at = "stalled"

\* A request that is on its way when its job is left may still be executed.
LeftBehind ==
    \/ UNCHANGED late
    \/ /\ job # None /\ job.at = "operate" /\ instance # None
       /\ late' = late \cup {Operation}
    \/ /\ job # None /\ job.at = "release" /\ instance # None
       /\ late' = late \cup {Releasing}

\* The mutex passes to the reconciliation, which is not polled, or stays there.
Stall(t) ==
    /\ up /\ tasks[t] # None
    /\ \/ job = None /\ Begin("reconcile", t, "stalled") /\ UNCHANGED late
       \/ job # None /\ job.kind = "reconcile" /\ job.task = t /\ Goto("stalled") /\ LeftBehind
    /\ UNCHANGED <<up, tasks, disk, used, ctmuxd, faults>>

(***************************************************************************)
(* Crash and load.                                                          *)
(***************************************************************************)
Crash ==
    /\ up /\ Fault
    /\ up' = FALSE /\ Done
    /\ tasks' = [t \in Task |-> None]
    /\ LeftBehind
    /\ UNCHANGED <<disk, used, ctmuxd>>

\* Mutant: an intent that was not confirmed is dropped.
LoadConfirmed(task) ==
    IF task # None /\ task.active # None
    THEN IF task.active.state = "starting"
         THEN [task EXCEPT !.active = None]
         ELSE [task EXCEPT !.active.state = "unknown"]
    ELSE task

Loaded(task) ==
    IF task # None /\ task.active # None
    THEN [task EXCEPT !.active.state = IF @ = "starting" THEN "starting" ELSE "unknown"]
    ELSE task

Load ==
    /\ ~up /\ up' = TRUE
    /\ tasks' = [t \in Task |-> Loaded(disk[t])]
    /\ disk' = tasks'
    /\ UNCHANGED <<job, used, ctmuxd, late, faults>>

(***************************************************************************)
(* The specification.                                                       *)
(***************************************************************************)
Init ==
    /\ up = TRUE
    /\ tasks = [t \in Task |-> None] /\ disk = tasks
    /\ job = None
    /\ used = [r \in Run |-> None]
    /\ instance = None /\ spent = {} /\ draining = FALSE
    /\ managed = [r \in Run |-> Absent]
    /\ process = [r \in Run |-> [i \in Instance |-> "none"]]
    /\ late = {} /\ faults = 0

Client ==
    \E t \in Task :
        \/ Register(t) \/ Create(t) \/ Update(t)
        \/ Start(t) \/ Stop("stop", t) \/ Stop("restart", t) \/ Remove(t)

JobStep ==
    /\ job # None
    /\ \/ Connect \/ Pin \/ Intend
       \/ Status \/ Operate \/ Record \/ Lose \/ Refuse \/ Doubt
       \/ ReleaseStatus \/ Release \/ Released \/ FinishRemove

Next ==
    \/ Client \/ JobStep \/ \E t \in Task : Reconcile(t) \/ Stall(t)
    \/ Crash \/ Load
    \/ \E r \in Run, i \in Instance : Exit(r, i)
    \/ StartCtmuxd \/ CrashCtmuxd \/ ExitCtmuxd \/ RestartCtmuxd
    \/ \E q \in late : Deliver(q)

\* The holder of the mutex goes on and the reconciliation gets its turn (the
\* mutex is fair), but no longer when it is stalled; a ctmuxd that drains exits
\* when its processes are dead (DaemonLifecycle: EndsWhenDone).  Nobody has to
\* send a request, and no process has to exit, not even one that was killed: the
\* kill is one hangup.
Fairness ==
    /\ WF_vars(JobStep)
    /\ \A t \in Task : SF_vars(Reconcile(t))
    /\ WF_vars(draining /\ ExitCtmuxd)

Spec == Init /\ [][Next]_vars /\ Fairness

(***************************************************************************)
(* Properties.                                                              *)
(***************************************************************************)
\* No two instances of ctmuxd create the same run: neither a retry after an
\* uncertain answer, nor one after a crash of ctl-taskd, nor a replaced ctmuxd
\* makes a process for it in a second one.  A second creation inside one
\* instance is what RunStartedOnce of DaemonLifecycle excludes.
RunCreatedOnce ==
    \A r \in Run : \A i, j \in Instance :
        process[r][i] # "none" /\ process[r][j] # "none" => i = j

\* Each task permits one active run: no process of an earlier run of the task
\* is alive beside that of a later one, whatever was delayed or lost.
OneProcessPerTask ==
    \A r, q \in Run : \A i, j \in Instance :
        Live(r, i) /\ Live(q, j) /\ used[r] = used[q] => r = q

\* Taskd can recover a live session after restarting: state.json names the
\* run of every live process as active, or as ended and not yet released.
Recoverable ==
    \A r \in Run : \A i \in Instance : Live(r, i) =>
        LET saved == disk[used[r]] IN
        /\ saved # None
        /\ \/ saved.active # None /\ saved.active.run = r /\ saved.active.instance = i
           \/ Unreleased(saved) /\ saved.last.run = r

\* A run uses an immutable definition snapshot: the start requests of an active
\* run, also the ones that are retried after a crash or executed late, carry
\* the definition its record has.
SnapshotSent ==
    \A t \in Task : tasks[t] # None /\ tasks[t].active # None =>
        LET run == tasks[t].active IN
        /\ \A q \in late : q.op = "start" /\ q.run = run.run => q.definition = run.definition
        /\ tasks[t].definition = run.definition

\* Taskd acknowledges a result only after saving it: when ctmuxd forgets an
\* outcome, state.json has the end of that run, with its exit code if ctl-taskd
\* was ever told of the session.
OutcomesSaved ==
    [][\A r \in Run : managed[r] = "session" /\ managed'[r] = Retired /\ instance' = instance =>
          LET saved == disk[used[r]] IN
          /\ saved # None /\ saved.last # None /\ saved.last.run = r
          /\ saved.last.session => saved.last.code = process[r][instance]]_vars

\* ctmuxd drains, and a process that was sent the hangup has not exited.
HeldOpen == draining /\ \E r \in Run : Live(r, instance)

\* A run that is to stop does stop: its process is sent the hangup, whatever was
\* lost, and once it has exited the end is recorded.  The wait is given up only
\* for a process that has not exited since, for a ctmuxd that drains and waits
\* for such a process, or when ctl-taskd is gone or its reconciliation stalled.
StopHonoured ==
    \A t \in Task : (up /\ tasks[t] # None /\ tasks[t].active # None /\ tasks[t].desired = "stopped")
        ~> \/ ~up \/ Stalled \/ HeldOpen
           \/ tasks[t] = None \/ tasks[t].active = None
           \/ \E i \in Instance : process[tasks[t].active.run][i] = "killed"

\* An outcome is not retained forever, so that ctmuxd may exit in the end: the
\* release is retried until it succeeds.  It is given up only while a process of
\* the run is alive, or ctmuxd drains and waits for a process, or when ctl-taskd
\* is gone or its reconciliation stalled.
OutcomesReleased ==
    \A t \in Task : (up /\ tasks[t] # None /\ Unreleased(tasks[t]))
        ~> \/ ~up \/ Stalled \/ HeldOpen
           \/ tasks[t] = None \/ ~Unreleased(tasks[t])
           \/ \E i \in Instance : Live(tasks[t].last.run, i)
=============================================================================
