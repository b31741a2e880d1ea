# TLA+ models of ctl and ctmux

`ctl` is a family of tools around remote shells: `ctmux`, a terminal
multiplexer with a persistent daemon (`ctmuxd`) and clients; `ctl-taskd`, which
supervises task runs; `ctld`, which owns SSH connections; an agent that runs on
remote hosts; a command line, a terminal UI and a desktop application. This
directory models the concurrent core of the system: `ctmuxd` and its protocol
with attached clients, the desktop's cache of a session, `ctl-taskd` with its
runs in `ctmuxd`, and the connection of a host in `ctld`. TLC checks the models
on small instances, TLAPS proves theorems about them for all instances.
`PROJECT.json` lists runs, properties, mutants, hazards, findings, theorems and
the source lines of every definition.

Run a model with `tlc -config attachments.cfg MCAttachments` and the proofs
of a module with `tlapm AttachmentsProofs.tla` (section 4 lists them).

## 1. Inventory

| Component | State | Operations | What is hard | Modules |
|---|---|---|---|---|
| Attachments and leases (`session.rs`, `server.rs`) | records (token, generation, connected), input lease per terminal, layout lease per view, watches | create, resume, detach, lose the transport, expire, acquire, release, notify | three mutexes visited one after another; superseded connections and timers; panes that move in between | `LeaseRegistry`, `Attachments` |
| Terminal output state (`session.rs`) | journal window, checkpoint, geometry revision and fence | append, resize, refresh, snapshot, end | eviction past the checkpoint; boundaries that are exactly equal | `TerminalStream` |
| Output journal (`core/lib.rs`) | chunks, byte count, next sequence | append, evict, slice, coalesce | eviction inside a chunk, frames that start inside one | `OutputJournal` |
| Output delivery (`server.rs`) | sent and applied sequence, frames in flight, pending checkpoint and end, pinned history | send, replace, acknowledge, recover from lag, end | the terminal goes on between any two frames; the broadcast lags; credit and checkpoints wait for each other | `OutputDelivery` |
| Client controller (`client/lib.rs`) | received sequence, resume cursor, ledger of events queued for the renderer | process frames, accept acknowledgements, reconnect | acknowledgements coalesce; the connection is lost at any point | `AttachmentController`, `TerminalView` |
| Client cache and archive (`client/cache.rs`, the desktop's `cache_writer.rs`) | data files, `current.json`, live and archived directories; queue, permits and epochs of the writer | apply an event, mark a gap, archive, load, delete; enqueue, persist, recover | killed or failing between two file operations; a full queue; a write that fails with others behind it | `SessionCache`, `CacheWriter` |
| Session registry (`session.rs`, `session/topology.rs`) | terminals, sessions with one view each, names, pending names, published views | create, split, promote, break, merge, rename, edit, zoom, terminate, remove | plans and reservations that span several critical sections; reflows that fail halfway | `SessionRegistry` |
| Daemon lifecycle (`server.rs`, `session.rs`) | connections, restart state and gate, managed runs, wakeups, the accept loop | accept, create, kill, manage, restart, exit | an exit condition read in pieces; notifications without a permit; delayed and repeated starts | `DaemonLifecycle` |
| Interactive tasks of `ctl-taskd` (`task/daemon`: `lib.rs`, `interactive.rs`) | task records in memory and in `state.json`, the job that holds the mutations mutex; managed runs and instances of ctmuxd | start, stop, restart, remove, update, reconcile, release, load | either daemon crashes or is replaced at any await; saves fail; requests are lost or executed after a timeout | `ManagedTasks` |
| Processes, mutex and restart of `ctl-taskd` (`lib.rs`, `process.rs`, `control.rs`) | mutations mutex, handles, stop channels, waiters, the main select | start, stop, restart, finish, reconcile, accept a restart | handle and run end in two steps; a select that waits for a lock which one of its own futures holds | `TaskDaemon` |
| Connection of a host in `ctld` (`ctl/daemon`) | generation and authorization of the target, its lock, masters, sockets, the pinned lease, forward records and listeners | connect, quiet connect, disconnect, cancel, consent, enable and disable a forward | cancellation while `ssh` starts; cleanup that outlives its request; records about a master that is gone | `HostConnection` |
| Layout geometry (`proto/layout.rs`) | none (pure) | fit, split, resize, divide | rounding and minimum sizes | planned |
| Wake recovery and approvals of `ctld` | pending recoveries, approvals | recover, approve, expire | reuse of an approval after a wake | planned |
| VPNs, shell reporter, process monitor, ConPTY, emulator (`avt`), framing, history projection, agent, command lines, desktop and terminal UI | parsers, conversions and I/O | | | not modelled |

How they interact. A connection task in ctmuxd serves one client. It
creates or resumes an attachment (attachment map, then leases), subscribes to
its terminal's broadcast, takes a snapshot, and then loops over client messages,
terminal events and watches, sending output within the client's presentation
window. A reader thread per terminal appends to the journal; a waiter thread
reaps the child, publishes the end and removes the terminal from the registry,
which wakes the accept loop. Requests that create terminals pass the admission
gate that a cooperative restart closes. The client's controller turns frames
into events for a renderer, whose acknowledgements return as flow-control
credit and advance the resume cursor. The desktop gives the same events to its
cache writer, which saves them behind the renderer's back and asks the
controller for a checkpoint when it has lost something. ctl-taskd asks ctmuxd,
over its control socket, to start, stop and release the run of an interactive
task, and reads the outcome from there; it starts other tasks as its own
children. ctld starts an OpenSSH master per host and everything else goes
through that master's socket.

What makes each part correct:

* attachments: no lease is stolen, leaked or kept by an attachment that is
  gone; nobody is told something stale about a lease; a reconnect is never
  undone by what is left of the older connection;
* delivery: the client accepts every frame, sees every byte once, never paints
  output on a screen that predates a resize, is told of the end last, and
  always catches up; the window is respected;
* journal: what it retains is exactly the newest bytes, whatever the chunks;
* cache: what was committed can be read after any crash, the history has
  neither holes nor repetitions, what is missing is shown as missing, and the
  writer recovers;
* registry: owners and layouts agree, managed roots stay alone, names are unique
  but for a reservation that is released twice, a
  terminating session gains nothing, revisions order the published views;
* lifecycle: a restart reaches every terminal, a run is started at most once,
  the daemon exits exactly when nothing is left, and it does exit;
* tasks: a run is created once, a task has one process, nothing that runs is
  forgotten, an outcome is on disk before ctmuxd forgets it, and a stop is
  carried out in the end;
* taskd: what runs can be stopped and has a waiter, an accepted restart finds
  nothing running, requests are answered;
* host: a disconnect is final and is answered, no master is lost or ended by
  somebody else's cleanup, and a connect that is answered has its forward.

## 2. Modules

`LeaseRegistry` has the operators of `AttachmentLeaseRegistry` (request, acquire,
release, status) on the owner of one lease.

`Attachments` has a *driver* for every generation of every attachment: the
connection task and, after the transport is lost, the grace timer. Its `pc` says
which critical section is next. `create_attachment` is three steps (record,
input lease, layout lease), and so are closing and expiry. Superseded drivers
keep running: only the generation checks of the code separate them from the
current one. A watch (`layout_lease_updates`) is the set `dirty` of drivers with an
unseen change; `seen` is what the driver last reported. Panes move
(`promote_terminal`, `break_pane`), merge and end independently.

`TerminalStream` is the state of one terminal under its mutex. A byte is its
sequence number; a checkpoint is the boundary and the geometry revision it
represents; `boundaries` records where every revision began, which the code does
not keep and the properties need. `OutputJournal` is the same window as the
chunks it is made of, down to the byte.

`OutputDelivery` is the connection task: the initial snapshot (one critical
section when resuming, two when fresh), the select, and
`send_available_output` with a step per frame, because the task awaits there.
`AttachmentController` adds the client. `Interactive = TRUE` is the command-line
client, whose renderer is dropped with the controller and may have another grid
than the terminal; `FALSE` is the controller API that the desktop application
uses, where the renderer drains the queue and the position it has presented is
what it resumes from. The two specifications are one: `Spec` of
`AttachmentController`. `TerminalView` is the abstract specification: a screen
moves forward through what was produced, and is finished only when it shows all
of it.

`SessionRegistry` treats a layout as the sequence of its `terminal_ids`. Requests are jobs
of clients: *plan, reserve, spawn, commit, drop*, each under its own lock.
Whether a layout fits, and whether a reflow succeeds, is an input. Creates,
splits and renames hold the gate (`GateFree`); promote and break do not.

`DaemonLifecycle` has every read of the exit condition as a step, both `Notify`
objects that keep a permit as Booleans, and the restart's `notify_waiters` as a
wakeup that only a waiting loop receives. A waiter thread reaps, publishes the
end and removes in three steps. `manage` keeps its mutex while a terminal is
created, so `session_count` waits for it.

`SessionCache` is the store of one terminal as files: data files that are
appended to or replaced, the manifest `current.json` that names one of them and
how much of it counts, the live directory, the archive, and the `.previous`
that an archive leaves while it is replaced; a directory is a record that says
whether it exists, which files it has and what its `current.json` says. Every operation holds the lock of
the store, so it is one step; but it is written as the sequence of what is on
disk after each of its file operations (`Apply`, `Archive`), and a fault is a step
that stops after some of them. A byte of output scrolls one row into the
history, so that a correct history is a run of numbers that ends at the
record's sequence. `CacheWriter` adds the desktop: the bridge that enqueues
without waiting, permits and slots, `Recovery` with its epochs, and
`run_writer` with a step between any two of its locks. The server is reduced to
the events it sends: checkpoints with a short seed and a history that is
transferred later, output that may clear the history, resizes.

`ManagedTasks` has the records of ctl-taskd in memory (`tasks`) and on disk
(`disk`), and the one job that holds the mutations mutex. A job awaits an
answer of ctmuxd at every exchange; there, either daemon may crash, ctmuxd may
drain or exit and be replaced by another instance, an answer may be lost, and a
request whose timeout has passed joins `late` and may be executed at any later
time. What ctmuxd does with an operation is one step (`SessionManager::manage`):
its interleavings with the rest of ctmuxd are in `DaemonLifecycle`. `Stall` is what
`TaskDaemon` shows in detail: `serve` awaits the mutex that the reconciliation
has or gets next, and stops polling it. The reconciliation then keeps the mutex
until ctl-taskd is killed; a request it had sent may still be executed.

`TaskDaemon` is the other half of ctl-taskd: tokio's first-come mutex as a
queue, a handler per request, the process of a run with its waiter and its stop
channel of one message, the reconciliation, and the `select` of `serve`, in which
the reconciliation stands still while the branch of the control channel runs.

`HostConnection` is one host of ctld with a private master. A connect carries
the generation it began with and gives up when a disconnect changes it or its
client goes away, at every await. A started process belongs to its
`PendingMaster`; when that is dropped early, the lock of the host stays with a
cleanup. OpenSSH is external: it authenticates, forks, fails and dies when it likes.

Operators marked *Mutant* in the modules are plausible bugs of the code next to
them. They are used by nothing; `PROJECT.json` names the property that must fail
when one of them takes the place of the definition it imitates.

## 3. Runs

| Run | Instance | Shows |
|---|---|---|
| `attachments` | 2 attachments, 2 panes, 2 sessions, no reconnect | `LayoutNotified`, `LeaseHandovers` |
| `attachments_reconnect` | 1 attachment, 1 pane, 2 reconnects | `NoOrphan`, `InputLostOnlyByStaleAcquire`, `GraceEnds` |
| `delivery` | controller API, 2 connections, 3 bytes, journal of 2, window of 2, 2 replacing transitions | `FramesAccepted`, `FlowControl`, `ScreenFaithful`, `ReplayExact`; implements `TerminalView` (`ViewSpec`) |
| `delivery_interactive` | interactive client, 2 connections, 2 bytes, journal of 1, presentation queue of 1 | `CursorSafe`, `EndDelivered`, `CatchesUp` |
| `journal` | every journal within the bounds | `WindowExact`, `FramesExact` |
| `cache` | 2 bytes, 1 transferred history, 2 incidents; starts with nothing, an archive, or a legacy transcript | `Durable`, `HistoryExact`, `GapShown`, `WriterRecovers` |
| `lifecycle` | 3 connections, 2 terminals, 1 managed run | `DrainCovers`, `RunStartedOnce`, `EndsWhenDone` |
| `registry` | 2 clients of several steps beside single-step requests, 2 terminals and a managed one, 2 sessions, 2 names, 2 panes per view | `Ownership`, `ViewsOrdered`, `ClosingFrozen`, `NamesLostOnlyBySecondRelease` |
| `tasks` | 1 task, 2 runs, 2 instances of ctmuxd, 1 update, 2 faults | `RunCreatedOnce`, `OneProcessPerTask`, `Recoverable`, `SnapshotSent`, `OutcomesSaved`, `StopHonoured`, `OutcomesReleased` |
| `taskd` | 3 requests, 1 task, 2 runs, 1 restart, 1 failed save | `Stoppable`, `RestartIdle`, `RequestsAnswered` |
| `host` | 3 requests, 1 fault, 1 consent, perhaps a master of an earlier ctld | `DisconnectFinal`, `MasterOwned`, `ReadyComplete`, `DisconnectAnswered` |
| `taskd_restart` | 1 request, 1 run, 1 restart; expects a violation | `RestartAnswered` |

`CHECK_DEADLOCK FALSE` is in every configuration: sessions end, identifiers are
used up, and daemons exit, so every model may stop. Modules whose type
invariant is not in a run still define it: it is the first conjunct of an
inductive invariant.

`taskd_restart` shows where the code departs from its documentation. `serve`
takes a restart request off the control channel and awaits the mutations mutex
inside that branch of its select (`lib.rs:635`). The reconciliation is another
branch of the same select and is not polled meanwhile. If it holds the
mutex, suspended in an exchange with ctmuxd, or if it is next in the queue, the
lock is never granted: the daemon neither answers nor accepts connections again.
`docs/ctmux-local-control.md:142` promises an answer.

### Observations without a run

The models also show the following; each line says how to see it.

* `LayoutReleased` in `Attachments` (constants of `attachments`) fails: an
  attachment's record is gone and its layout lease not yet released when its
  pane is promoted; the release goes to the pane's new session, and the old
  session's lease has an owner that no longer exists. With one session it holds.
* `InputReleased`, as an invariant of `attachments_reconnect`, fails:
  `acquire_lease` is given the attachment and not its generation, so a superseded
  connection that has read a lease request may act on it after its successor was
  detached. That this is the only way is what the run checks
  (`InputLostOnlyByStaleAcquire`).
* `ReplayExact` fails with `Interactive = TRUE`: the interactive client prints,
  loses its connection before it acknowledges, and resumes from the acknowledged
  sequence. `EndComplete` fails there too: the client returns with
  `session_ended` and drops what its renderer has not printed.
* `ExitsEmpty` in `DaemonLifecycle` (constants of `lifecycle`) fails: a
  connection that comes, creates a session and goes between two reads of the
  exit condition (`server.rs:171`) leaves a session in a daemon that exits, while
  `docs/architecture.md:84` says it exits "after its final session and client are gone".
* `UniqueNames`, as an invariant of `registry`, fails: a split
  that fails at commit (`session.rs:1790`) frees its name, a move that does not
  take the admission gate reserves it, the drop of the split's reservation frees
  it a second time, and the next request takes it too. That a second release is
  the only way is what the run checks (`NamesLostOnlyBySecondRelease`).
* `docs/ctmux-protocol.md` (line 419) says that a cursor older than the history
  is replayed from the earliest retained byte; the code sends the
  checkpoint and replays from there.
* ctl-taskd: a save that fails in `start` (`lib.rs:322`) kills the child but
  leaves `active_run` set without a handle, so later stops answer an error; a
  stop that comes while `finish_run` is between its two steps answers an
  internal error (`lib.rs:435`); a third stop waits in the full channel with the
  mutex (`lib.rs:446`). A start that is executed after its timeout may leave a
  live session whose run is recorded as failed; the next reconciliation or stop finds it.
* ctld: a killed master that leaves its socket makes every later observation
  unknown (`master_observation.rs:98`); a connect that is cancelled during the
  forward command leaves a listener that the record does not know
  (`port_forwarding.rs:369`); a connect that is queued between `pause` and `lock`
  of a disconnect is ended by it although it is newer (`lib.rs:1974`).
* Cache: `mark_history_gap` says that a "fresh authoritative checkpoint is required
  before history can resume", but a reconnect that resumes by cursor starts a
  new writer, which accepts output that continues the record without a
  checkpoint. The record keeps its gap mark, which is what `GapShown` and
  `HistoryExact` ask; the cached screen may lack a resize that was dropped.
* Not modelled, read in the code: a cooperative restart that meets a child that
  was just reaped fails halfway (`server.rs:468`); a failing spawn of the second
  thread leaves a terminal nobody waits for (`session.rs:1843`); killing a session
  stops at the first terminal that cannot be signalled (`server.rs:1183`).

### Bounds

Identifiers are used once in all models, so their number bounds the requests. In
`OutputDelivery` a window, a journal and queues of one to three suffice for the
cases that matter: a byte that is evicted while a client waits, a frame that
does not fit, a full queue, two transitions behind one client. `EventCapacity` is
larger than `MaxRevision`: after the end only resizes are broadcast, and in
the code 256 of them would be needed to push the end out of the channel.
`MaxRevision` of the registry limits voluntary edits only, which end when some
view has that revision; splits, moves, merges and removals always go on, and with
2 a view that was split can still be edited or renamed. Two
clients are what a confusion of names takes: one whose reservation is released
twice and one that has reserved the name in between.

In `CacheWriter` one bound counts the *incidents*: faults, kills, resizes, closed
attachments, archiving and deleting. Two of them suffice for a failed append that
a later attachment continues, a kill during the migration of a legacy record, an
archive that is interrupted and resumed from. With `Limit = 1` every second row
moves the window of the history, with `CompactAt = 1` it also rewrites the file,
with `MaxReplay = 1` an output of two bytes is too much to retain. A queue with
two slots and three permits has room for a checkpoint and one more event, so
everything else overflows. A history of the run is at most one row long; that a
longer one has no hole or repetition inside is left to `CachedHistoryExact`, which
holds for every limit. The three invariants were also checked with three
incidents (2.4 million states).

In `tasks` two faults allow a lost answer followed by a crash, a failed save
followed by a late request, or two crashes; two instances allow ctmuxd to be
replaced once, two runs allow a run to be started while its predecessor
is doubtful. In `taskd` three requests are a start, a stop and one that competes
with either. In `host` a connect, a competitor and a disconnect or a change of
the forward meet, with one master that dies or one command that fails.

Symmetry is used for identifiers in the safety runs; the specifications treat
them alike, and no run that checks liveness uses it.

### Fairness

Only the daemons' and the clients' own tasks are fair: a task that can go on is
scheduled, a running timer fires, a write completes or is cut off by its
deadline, and a pinned history expires. Nothing is assumed of users, networks,
requests or the processes in the terminals. In `DaemonLifecycle` a
handler that has begun a request carries it through, because nothing in these handlers
awaits a client; cancelled and finished handlers return; the waiter of a dead
child and the accept loop go on. Reaping itself is not fair: a child may ignore
its signal.

* `CacheWriter`: the worker goes on while it can (every step changes where it
  is, so the fairness is stated on that variable), and a server that was asked for a
  checkpoint sends one. Events, the user and the disk owe nothing.
* `ManagedTasks`: a job that holds the mutex goes on, because every exchange has
  a timeout; the reconciliation of a task is strongly fair, because it runs on an
  interval and tokio's mutex is first come, first served, so that other requests
  cannot keep it out for ever; a draining ctmuxd exits when its processes have.
  A reconciliation that stalled (`Stall`) gets no turn, and no process has to exit,
  a killed one neither: the kill is one hangup signal. So `StopHonoured` and
  `OutcomesReleased` promise nothing once the reconciliation has stalled, while a killed
  process of the run stays, or while a draining ctmuxd waits for a process
  (`HeldOpen`).
* `TaskDaemon`: handlers and waiters are tasks of the runtime and are polled;
  the reconciliation only by `serve`'s select, which is why its fairness does not help
  when the select is busy. The log readers that a waiter joins are assumed to end.
* `HostConnection`: commands on a control socket end or time out, the exit of
  a process is noticed, a quiet connect meets its deadline. The wait for the
  fair mutex of the forwards is strongly fair. OpenSSH and the user, who may never
  answer a prompt, are not fair: that is why `DisconnectAnswered` is interesting.

## 4. Proofs

| Module | About | Theorems (the property, as a run checks it) |
|---|---|---|
| `AttachmentsProofs` | `Attachments` | `TypeCorrect`, `NeverOrphaned` (`NoOrphan`), `LeasesNeverStolen` (`LeaseHandovers`), `LayoutAlwaysNotified` (`LayoutNotified`), `InputLeaseLostOnlyByStaleAcquire` (`InputLostOnlyByStaleAcquire`) |
| `DeliveryProofs` | `AttachmentController` with `OutputDelivery` and `TerminalStream` | `DeliveryInvariant`, `DeliveryTypeCorrect`, `FramesAreAccepted` (`FramesAccepted`), `AcknowledgementsAccepted`, `CreditInvariant`, `FlowIsControlled` (`FlowControl`), `CursorIsSafe` (`CursorSafe`), `ReplayIsExact` (`ReplayExact`), `ScreenIsFaithful` (`ScreenFaithful`), `ImplementsView` (`ViewSpec`) |
| `DaemonLifecycleProofs` | `DaemonLifecycle` | `LifecycleTyped`, `RestartCoversAll` (`DrainCovers`), `StartedOnce` (`RunStartedOnce`) |
| `RegistryProofs` | `SessionRegistry` | `RegistryInvariant`, `OwnersAgree` (`Ownership`), `RevisionsOrderViews` (`ViewsOrdered`), `TerminationIsComplete` (`ClosingFrozen`), `NamesLostBySecondRelease` (`NamesLostOnlyBySecondRelease`), `NamesUniqueUnlessReleasedTwice` |
| `ManagedTasksProofs` | `ManagedTasks` | `TasksInvariant`, `TasksTyped`, `CreatedOnce` (`RunCreatedOnce`), `OneProcess` (`OneProcessPerTask`), `LiveRunsRecoverable` (`Recoverable`), `SnapshotsSent` (`SnapshotSent`), `OutcomesAreSaved` (`OutcomesSaved`) |
| `CacheProofs` | `CacheWriter` with `SessionCache` | `CacheInvariant`, `CommittedReadable` (`Durable`), `ExactInvariant`, `CachedHistoryExact` (`HistoryExact`), `MissingOutputShown` (`GapShown`) |
| `TaskDaemonProofs` | `TaskDaemon` | `DaemonTyped`, `RunsStoppable` (`Stoppable`), `RestartFindsIdle` (`RestartIdle`) |
| `HostConnectionProofs` | `HostConnection` | `HostInvariant`, `HostTyped`, `DisconnectIsFinal` (`DisconnectFinal`), `MastersOwned` (`MasterOwned`), `ReadyIsComplete` (`ReadyComplete`) |

Every theorem is about the specification that the runs check, and holds for any
sets of attachments, clients, terminals, sessions, tasks, runs and instances, and
any values of the bounds. The assumptions are the `ASSUME`s of the modules:
bounds are natural numbers, capacities and windows are not zero, and the value
`None` (or `NoOwner`, `Absent`, `Old`, ...) is none of the values it stands in for. No theorem
uses the fairness of a specification. `ReplayIsExact`, `ScreenIsFaithful` and `ImplementsView`
also assume `~Interactive`, the renderer that keeps its own cursor; for the
interactive client `ReplayExact` is false (section 3). `InputReleased` and
`UniqueNames` are not invariants of the code (section 3); the theorems about them
name the one step that can break each: a lease taken by a superseded
connection (`StaleAcquire`), a name released a second time (`SecondRelease`).

How the proofs are laid out. None of the properties is inductive. Each module
begins with the invariant that is: a conjunction of named parts, which TLC has
checked on the run's instance. The actions are then brought down to a few
*effects*, predicates that say what a step changes in the terms of the
invariant; there is a lemma for every effect and every part of the invariant
that it can disturb, and the actions are shown to have their effect. What the
strengthened invariants say:

* `Attachments`. `NoOrphan` with `TypeOK` is inductive; the generation check is
  what its guards need. For `LayoutNotified`, `NotifyInv` says the same of
  every phase in which a driver holds a receiver, apart from the one in which
  it has marked its watch and not read the status yet; and that an attachment
  that was never created has no drivers. For `InputReleased`, `InputInv` says
  that the owner of an input lease is an attachment to that pane (`OwnerHere`)
  and that a connection which is being prepared serves the current generation
  (`PreparedCurrent`); only a connection that acquires under an older generation
  leaves it.
* Delivery (`DeliveryInv`). While the daemon knows the applied position, only
  output is under way and every frame of it is in flight (`Streaming`); while a
  checkpoint is pending, it is the only frame under way that changes the screen
  (`Replacing`). Beside that: what the journal and the checkpoint of a terminal
  cover (`Stream`), that every phase of the connection task has read what it
  relies on (`Task`), the frames on the wire, the events in the client's queue
  and what the screen shows form one chain (`Frames`, `Queue`, `Shown`), and the
  cursor a client resumes from lies within it (`Resume`). The refinement maps
  the screen, its position and its end; every step is one of `TerminalView` or
  leaves its variables alone.
* The flow control of the delivery (`Credit`). The charge of a connection is the
  sum of the charges of its frames in flight, at most the window, and no frame is
  charged less than its bytes. Sums over a sequence are folds; what these proofs
  need of them (a term can be taken out, a sum of larger terms is larger) is
  shown by induction on the size of the index set, as the absence of a least
  counterexample in the natural numbers. By `Streaming`, the frames in flight
  cover everything between what was applied and what was sent, so the output on
  the transport and in the client's queue fits in the window.
* `DaemonLifecycle`. Creates and restarts hold the mutex of the restart state
  from their first step to their last, so one of them at a time is between
  admission and commit (`GateHeld`, `CreatesAdmitted`). A start under way is for
  a run without an entry, and every terminal that was created for a run has one,
  until a restart has cleared them and admits nothing (`RunInv`).
* `SessionRegistry` (`RegistryInv`). `Placement` is `Ownership` as a statement
  about sets of panes, so that the layouts as sequences are needed only in
  lemmas about inserting, removing, exchanging and joining panes. For the order
  of views, `Origin` says where the last view of a terminal can come from: its
  session, or one that is gone for good. Then a step is fine if a view that
  changes gets a new revision and a terminal that changes its session goes to
  one it has never had a view of (`Progress`). `update_view` checks length and
  membership only; that this excludes repetitions is the pigeonhole principle
  of the library (`Reordered`). For names, `NamesInv` says that the name of a
  request whose reservation is in force is pending and nobody else's (`Held`,
  `Apart`) and that no session has a pending name (`Fresh`). Requests that are
  dropping are left out of it: some still own their name and some, after
  `commit`, do not. That every step but a second release keeps it is what the
  `registry` run checks.
* `ManagedTasks` (`TasksInv`). A run is tied to one instance of ctmuxd, by the
  record in memory, the one on disk, the request under way, late requests and
  processes alike (`Claimed`, `Lateness`, `Managing`); a run that may still
  have a process is named on disk (`Named`); what the job believes about the
  run it works for is true (`Working`, `Learned`).
* `CacheWriter` (`CacheInv`). What holds of the disk, `Kept`, is stated for a
  value and not for a state, because it must hold after every single file
  operation of an event, an archive or a deletion: a crash may stop after any.
  It says more than `Durable`: a legacy transcript that is not preserved is the
  record, intact and not copied yet (`Untouched`), and a live directory without
  a record hides no archive. The lemmas follow the code: a data file is new,
  under a name that no record on disk has (`FreshName`, `Beyond`), or it is cut
  and extended behind the end of the committed record (`Behind`,
  `ExtendPreserves`); so the files of a half-written event preserve every record
  on disk (`Preserves`), and the record is replaced when its data is complete
  (`Committed`). `OpensSession`, `AppliesWell`, `MarksWell`, `ArchivesWell` and
  `DeletesWell` put these together, one operation each.
* The contents of the cache (`HistoryInv`, `GapInv`). `HistoryExact` compares the
  rows on disk with those of the server, whose checkpoints the disk cannot
  know; `HistoryInv` says that there is a record `m` of where they were taken
  (`Known`) for which every directory is a run of rows that ends at its sequence
  (`Exact`) and every event in the queue continues some such run (`EventSound`).
  A write then replaces, extends or skips, and none of the three leaves a hole
  that the record does not tell. `GapInv` orders the epochs of the worker, the
  queue and the attachment (`Epochs`, `InOrder`) and says that output which was
  not written is told, queued to be told, or will be repaired by a checkpoint
  that is still queued (`GapTold`). It also shows that, in the model, the mark that
  `run_writer` makes after its loop is not needed: the worker leaves the loop
  with nothing unmarked. That rests on `Size`: any event fits in an empty queue,
  as frames of 8 MiB and encoded rows of at most 16 MiB do in the 32 MiB of
  permits. The test at `cache_writer.rs:367` reaches that mark with an event that is
  larger than the queue.
* `TaskDaemon` (`DaemonInv`). The mutex is a queue in which nobody is twice and
  a request at work is its head (`Unqueued`, `HolderWorks`); every process has a waiter
  or the start that made it (`Attended`), whose handle is the one registered for
  its task (`Recorded`).
* `HostConnection` (`HostInv`). What every phase of a request holds: the lock of
  the host, the mutex of the forwards, a pending master, a pin (`Locked`,
  `ForwardsHeld`, `Pending`, `Pins`); whose socket and listener is there
  (`Sockets`, `Listener`, `Forwarded`); and, while the newest disconnect counts,
  that every older request has seen or will see the changed generation
  (`Paused`, `Final`).

### Only model-checked

* Liveness, out of this prover's reach: `GraceEnds`, `EndDelivered`, `CatchesUp`,
  `WriterRecovers`, `EndsWhenDone`, `StopHonoured`, `OutcomesReleased`,
  `RequestsAnswered`, `DisconnectAnswered`, and the refuted `RestartAnswered`.
* `WindowExact` and `FramesExact` of `OutputJournal`: what a recursive function
  and a fold over sequences compute for every input, which needs induction over
  data.

## 5. Left out

Terminal contents, styles, modes and parsing; layout geometry; input bytes and
resize requests of clients; metrics and logging; Windows paths; `ctrl_c`;
failing thread spawns and listener errors; serialisation and protocol
versions; a transport that corrupts or reorders (it is a local socket or an SSH
channel, so it is ordered until it is lost). Of the cache: the screen itself,
wrapped lines, byte limits beside the limit of rows, several panes of a session,
the paging of archives, and a bridge that is aborted after its deadline
(`state.rs:579`, `state/document.rs:173`): its writer is dropped without `finish`, so
that its worker may run on beside the writer of a new attachment. Of ctl-taskd: names and selectors, log streaming,
restart by `ctrl_c`. Of ctld: shared masters, UDP forwards, jump hosts, status
requests, `list_remote_listeners` (`lib.rs:2158`, which takes the lock of the target
as well), credentials, VPNs, and the recovery after a wake, of which only the
consent reaches a host.

## 6. Plan

1. Recovery after wake and reuse of approvals in ctld, on top of `HostConnection`.
2. Layout geometry as operators, checked against a reference definition on
   small layouts.
