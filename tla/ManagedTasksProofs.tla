------------------------- MODULE ManagedTasksProofs -------------------------
(***************************************************************************)
(* Proofs about module ManagedTasks, for any number of tasks, runs,         *)
(* instances of ctmuxd, updates and faults.                                 *)
(***************************************************************************)
EXTENDS ManagedTasks, TLAPS

(***************************************************************************)
(* The inductive invariant.                                                 *)
(***************************************************************************)
\* The record names r as the run of its task that is not finished with.
Names(record, r) ==
    /\ record # None
    /\ \/ record.active # None /\ record.active.run = r
       \/ Unreleased(record) /\ record.last.run = r

OnRecord(record, r, i) ==
    /\ record # None
    /\ \/ record.active # None /\ record.active.run = r /\ record.active.instance = i
       \/ record.last # None /\ record.last.run = r /\ record.last.instance = i

\* Everything that ties run r to instance i.
Claims(r, i) ==
    \/ process[r][i] # "none"
    \/ \E q \in late : q.run = r /\ q.instance = i
    \/ \E t \in Task : OnRecord(disk[t], r, i)

Quiet(record) == record = None \/ (record.active = None /\ ~Unreleased(record))

\* ctmuxd is there and manages runs.
Serving(i) == instance = i /\ ~draining

\* The memory is what was saved, but for a task whose creation or removal
\* could not be saved.
Memory ==
    /\ \A t \in Task : up => \/ tasks[t] = disk[t]
                             \/ tasks[t] \in {None, Fresh} /\ Quiet(disk[t])
    /\ \A t \in Task : ~up => tasks[t] = None

Records ==
    \A t \in Task : disk[t] # None =>
        /\ disk[t].active # None =>
              /\ used[disk[t].active.run] = t
              /\ ~disk[t].active.released
              /\ disk[t].definition = disk[t].active.definition
        /\ disk[t].last # None => used[disk[t].last.run] = t
        /\ disk[t].active # None /\ disk[t].last # None
              => disk[t].active.run # disk[t].last.run

\* A run belongs to one instance of ctmuxd.
Claimed ==
    \A r \in Run : \A i \in Instance : Claims(r, i) =>
        /\ used[r] # None
        /\ i \in spent
        /\ \A j \in Instance : Claims(r, j) => i = j

\* What a request that arrives late says of an active run.
Lateness ==
    \A q \in late : \A t \in Task :
        disk[t] # None /\ disk[t].active # None /\ disk[t].active.run = q.run =>
            /\ q.op # "release"
            /\ q.op = "start" => q.definition = disk[t].active.definition

Managing ==
    /\ instance # None => instance \in spent
    /\ instance = None => ~draining
    /\ \A r \in Run : managed[r] # Absent => instance # None /\ ~draining
    /\ \A r \in Run : managed[r] = "session" =>
           process[r][instance] \in {"running", "killed"} \cup Outcome
    /\ \A r \in Run : \A i \in Instance : Serving(i) /\ managed[r] = Absent =>
           process[r][i] = "none"
    /\ \A r \in Run : \A i \in Instance : Live(r, i) =>
           i = instance /\ (draining \/ managed[r] = "session")

\* A run that ctmuxd could still start, or has a process of, is named.
Named ==
    /\ \A r \in Run : \A i \in Instance : Live(r, i) => Names(disk[used[r]], r)
    /\ \A r \in Run : \A i \in Instance : Serving(i) /\ Claims(r, i) =>
           managed[r] = Retired \/ Names(disk[used[r]], r)

\* What ctl-taskd was told of a session is still so.
Seen ==
    \A t \in Task : disk[t] # None =>
        /\ disk[t].active # None /\ disk[t].active.session /\ Serving(disk[t].active.instance)
              => managed[disk[t].active.run] = "session"
        /\ disk[t].last # None /\ disk[t].last.session /\ Serving(disk[t].last.instance)
              => \/ managed[disk[t].last.run] = Retired
                 \/ /\ managed[disk[t].last.run] = "session"
                    /\ disk[t].last.code \in Outcome
                    /\ process[disk[t].last.run][disk[t].last.instance] = disk[t].last.code

Reconciling == {"status", "operate", "record", "lost", "refused", "unknown"}
Releases == {"releaseStatus", "release", "released"}

\* Where a job is, and what the task it is about looks like there.
Working ==
    job # None =>
        /\ up /\ Current # None
        /\ job.at \in Reconciling => Active # None /\ job.kind # "remove"
        /\ job.at \notin Reconciling \cup {"stalled"} => Active = None
        /\ job.at \in Releases => Unreleased(Current) /\ job.kind \in {"reconcile", "start", "remove"}
        /\ job.at \in {"pin", "intend", "remove"} => ~Unreleased(Current)
        /\ job.at \in {"connect", "pin", "intend"} => job.kind = "start"
        /\ job.at = "intend" => job.pinned # None /\ job.pinned \in spent

\* What a job has learned, for as long as it matters.
Learned ==
    job # None =>
        /\ job.at = "operate" => Wanted(job.session) # None
        /\ job.at = "refused" => ~Active.session
        /\ job.at = "lost" => instance # Active.instance
        /\ job.at = "record" /\ Serving(Active.instance) =>
              IF job.session = Absent THEN managed[Active.run] = Retired
              ELSE /\ managed[Active.run] = "session"
                   /\ job.session # "running" => process[Active.run][Active.instance] = job.session
        /\ job.at = "released" =>
              /\ \A i \in Instance : ~Live(Last.run, i)
              /\ Serving(Last.instance) => managed[Last.run] = Retired

TasksInv ==
    /\ TypeOK /\ Memory /\ Records /\ Claimed /\ Lateness /\ Managing /\ Named /\ Seen
    /\ Working /\ Learned
(***************************************************************************)
(* Facts about the state.                                                   *)
(***************************************************************************)
\* The job, and the record of the task it is about, are what they seem.
LEMMA JobRecord ==
    ASSUME TypeOK, Memory, Working, job # None
    PROVE  /\ job \in Job /\ job.task \in Task /\ up
           /\ Current \in TaskRecord /\ Current # None
           /\ job.at \in Reconciling => Active \in RunRecord /\ Active # None
           /\ job.at \in Releases => Last \in RunRecord /\ Last # None /\ Active = None
           /\ job.at \in Reconciling \cup Releases => disk[job.task] = Current
  <1>1. job \in Job /\ job.task \in Task /\ up /\ Current # None
    BY DEF TypeOK, Working, Job
  <1>2. Current \in TaskRecord
    BY <1>1 DEF TypeOK, Current
  <1>3. Current.active \in RunRecord \cup {None} /\ Current.last \in RunRecord \cup {None}
    BY <1>2 DEF TaskRecord
  <1>4. job.at \in Reconciling => Active \in RunRecord /\ Active # None
    BY <1>3 DEF Working, Active
  <1>5. job.at \in Releases => Last \in RunRecord /\ Last # None /\ Active = None
    BY <1>3, ManagedAssumption DEF Working, Unreleased, Last, Active
  <1>6. job.at \in Reconciling \cup Releases => Current # Fresh
    BY <1>4, <1>5 DEF Fresh, Active, Last
  <1>7. job.at \in Reconciling \cup Releases => disk[job.task] = Current
    BY <1>1, <1>6 DEF Memory, Current
  <1> QED BY <1>1, <1>2, <1>4, <1>5, <1>7

(***************************************************************************)
(* What the saves do to the records on disk.                                *)
(***************************************************************************)
Blanked(old, new) ==
    Quiet(old) /\ (new = None \/ (new # None /\ new.active = None /\ new.last = None))

SameRun(old, new) ==
    /\ new.run = old.run /\ new.instance = old.instance
    /\ new.definition = old.definition /\ new.released = old.released

Adjusted(old, new) ==
    /\ old # None /\ new # None /\ old.active # None /\ new.active # None
    /\ new.definition = old.definition /\ new.last = old.last
    /\ SameRun(old.active, new.active)
    /\ new.active.session /\ Serving(old.active.instance)
         => old.active.session \/ managed[old.active.run] = "session"

Redefined(old, new) ==
    /\ old # None /\ new # None /\ old.active = None /\ new.active = None
    /\ new.last = old.last

Ended(old, new) ==
    /\ old # None /\ new # None /\ old.active # None /\ new.active = None /\ new.last # None
    /\ SameRun(old.active, new.last)
    /\ new.last.session /\ Serving(old.active.instance) =>
         \/ managed[old.active.run] = Retired
         \/ /\ managed[old.active.run] = "session" /\ new.last.code \in Outcome
            /\ process[old.active.run][old.active.instance] = new.last.code

Acknowledged(old, new) ==
    /\ old # None /\ new # None /\ Unreleased(old) /\ new.active = None /\ new.last # None
    /\ new.last.run = old.last.run /\ new.last.instance = old.last.instance
    /\ new.last.session = old.last.session /\ new.last.code = old.last.code
    /\ \A i \in Instance : ~Live(old.last.run, i)
    /\ Serving(old.last.instance) => managed[old.last.run] = Retired

Evolves(t) ==
    \/ disk'[t] = disk[t]
    \/ Blanked(disk[t], disk'[t])
    \/ Adjusted(disk[t], disk'[t])
    \/ Redefined(disk[t], disk'[t])
    \/ Ended(disk[t], disk'[t])
    \/ Acknowledged(disk[t], disk'[t])

\* A save of task t, as the flat assignments the proofs use.
Wrote(t) ==
    /\ up /\ up' = up
    /\ tasks'[t] = disk'[t]
    /\ \A u \in Task : u # t => tasks'[u] = tasks[u] /\ disk'[u] = tasks[u]

\* The other tasks are saved as they are in memory.
LEMMA WroteOthers ==
    ASSUME Memory, NEW t \in Task, Wrote(t), NEW u \in Task, u # t
    PROVE  disk'[u] = disk[u] \/ Blanked(disk[u], disk'[u])
  BY DEF Memory, Wrote, Blanked, Fresh

\* A save is such an assignment, and succeeds as a whole.
LEMMA SaveWrites ==
    ASSUME TypeOK, up, UNCHANGED up, NEW t \in Task, NEW record, Save(t, record)
    PROVE  Wrote(t) /\ disk'[t] = record /\ faults' = faults
           /\ (record \in TaskRecord \cup {None} =>
                  tasks' \in [Task -> TaskRecord \cup {None}] /\ disk' \in [Task -> TaskRecord \cup {None}])
  BY DEF TypeOK, Save, Wrote

\* After a save the memory is what was saved.
LEMMA WroteMemory ==
    ASSUME Memory, NEW t \in Task, Wrote(t)
    PROVE  Memory'
  BY DEF Memory, Wrote
(***************************************************************************)
(* Records that evolve keep the invariant, as long as ctmuxd, the requests   *)
(* under way and the runs given out stay as they are.                        *)
(***************************************************************************)
Standing == UNCHANGED <<instance, spent, draining, managed, process, late>>

\* What TypeOK says of the records.
LEMMA DiskTyped ==
    ASSUME TypeOK, NEW t \in Task, disk[t] # None
    PROVE  /\ disk[t] \in TaskRecord
           /\ disk[t].active \in RunRecord \cup {None}
           /\ disk[t].last \in RunRecord \cup {None}
           /\ disk[t].active # None => disk[t].active.run \in Run /\ disk[t].active.instance \in Instance
           /\ disk[t].last # None => disk[t].last.run \in Run /\ disk[t].last.instance \in Instance
  BY DEF TypeOK, TaskRecord, RunRecord

\* Records that evolve stay consistent.
LEMMA EvolvesRecords ==
    ASSUME Records, \A t \in Task : Evolves(t), UNCHANGED used
    PROVE  Records'
  <1> SUFFICES ASSUME NEW t \in Task, disk'[t] # None
               PROVE  /\ disk'[t].active # None =>
                           /\ used[disk'[t].active.run] = t
                           /\ ~disk'[t].active.released
                           /\ disk'[t].definition = disk'[t].active.definition
                      /\ disk'[t].last # None => used[disk'[t].last.run] = t
                      /\ disk'[t].active # None /\ disk'[t].last # None
                           => disk'[t].active.run # disk'[t].last.run
    BY DEF Records
  <1>1. CASE disk'[t] = disk[t]
    BY <1>1 DEF Records
  <1>2. CASE Blanked(disk[t], disk'[t])
    BY <1>2 DEF Blanked
  <1>3. CASE Adjusted(disk[t], disk'[t])
    BY <1>3 DEF Records, Adjusted, SameRun
  <1>4. CASE Redefined(disk[t], disk'[t])
    BY <1>4 DEF Records, Redefined
  <1>5. CASE Ended(disk[t], disk'[t])
    BY <1>5 DEF Records, Ended, SameRun
  <1>6. CASE Acknowledged(disk[t], disk'[t])
    BY <1>6 DEF Records, Acknowledged, Unreleased
  <1> QED BY <1>1, <1>2, <1>3, <1>4, <1>5, <1>6 DEF Evolves

\* They tie no run to an instance that was not tied to it before.
LEMMA EvolvesOnRecord ==
    ASSUME NEW t \in Task, Evolves(t), NEW r \in Run, NEW i \in Instance, OnRecord(disk'[t], r, i)
    PROVE  OnRecord(disk[t], r, i)
  BY DEF Evolves, Blanked, Adjusted, Redefined, Ended, Acknowledged, SameRun, OnRecord, Unreleased

\* So nothing is claimed anew.
LEMMA EvolvesClaims ==
    ASSUME \A t \in Task : Evolves(t), Standing,
           NEW r \in Run, NEW i \in Instance, Claims(r, i)'
    PROVE  Claims(r, i)
  <1>1. UNCHANGED <<process, late>>
    BY DEF Standing
  <1>2. CASE process'[r][i] # "none" \/ \E q \in late' : q.run = r /\ q.instance = i
    BY <1>1, <1>2 DEF Claims
  <1>3. CASE \E t \in Task : OnRecord(disk'[t], r, i)
    BY <1>3, EvolvesOnRecord DEF Claims
  <1> QED BY <1>2, <1>3 DEF Claims, OnRecord

\* A run still belongs to one instance.
LEMMA EvolvesClaimed ==
    ASSUME Claimed, \A t \in Task : Evolves(t), Standing, UNCHANGED used
    PROVE  Claimed'
  <1> UNCHANGED spent
    BY DEF Standing
  <1> QED BY EvolvesClaims DEF Claimed

\* Late requests still agree with the active runs.
LEMMA EvolvesLateness ==
    ASSUME Lateness, \A t \in Task : Evolves(t), Standing
    PROVE  Lateness'
  <1> UNCHANGED late
    BY DEF Standing
  <1> QED
    BY DEF Lateness, Evolves, Blanked, Adjusted, Redefined, Ended, Acknowledged, SameRun

\* A run stays named until its release is recorded.
LEMMA EvolvesNames ==
    ASSUME Records, NEW t \in Task, Evolves(t), NEW r \in Run, Names(disk[t], r)
    PROVE  \/ Names(disk'[t], r)
           \/ Acknowledged(disk[t], disk'[t]) /\ disk[t].last.run = r
  <1>1. CASE disk'[t] = disk[t]
    BY <1>1
  <1>2. CASE Blanked(disk[t], disk'[t])
    BY <1>2 DEF Blanked, Quiet, Names
  <1>3. CASE Adjusted(disk[t], disk'[t])
    BY <1>3 DEF Adjusted, SameRun, Names, Unreleased
  <1>4. CASE Redefined(disk[t], disk'[t])
    BY <1>4 DEF Redefined, Names, Unreleased
  <1>5. CASE Ended(disk[t], disk'[t])
    BY <1>5 DEF Ended, SameRun, Names, Unreleased, Records
  <1>6. CASE Acknowledged(disk[t], disk'[t])
    BY <1>6 DEF Acknowledged, Names, Unreleased
  <1> QED BY <1>1, <1>2, <1>3, <1>4, <1>5, <1>6 DEF Evolves

\* What ctmuxd has, or may start, is still named.
LEMMA EvolvesNamed ==
    ASSUME TypeOK, Records, Claimed, Managing, Named, \A t \in Task : Evolves(t), Standing, UNCHANGED used
    PROVE  Named'
  <1> UNCHANGED <<instance, draining, managed, process>>
    BY DEF Standing
  <1>1. ASSUME NEW r \in Run, NEW i \in Instance, Live(r, i)
        PROVE  Names(disk'[used[r]], r)
    <2>1. Claims(r, i) /\ used[r] \in Task
      BY <1>1 DEF Live, Claims, Claimed, TypeOK
    <2>2. Names(disk[used[r]], r)
      BY <1>1 DEF Named
    <2>3. ~(Acknowledged(disk[used[r]], disk'[used[r]]) /\ disk[used[r]].last.run = r)
      BY <1>1 DEF Acknowledged
    <2> QED BY <2>1, <2>2, <2>3, EvolvesNames
  <1>2. ASSUME NEW r \in Run, NEW i \in Instance, Serving(i), Claims(r, i)'
        PROVE  managed[r] = Retired \/ Names(disk'[used[r]], r)
    <2>1. Claims(r, i) /\ used[r] \in Task
      BY <1>2, EvolvesClaims DEF Claimed, TypeOK
    <2>2. CASE managed[r] = Retired
      BY <2>2
    <2>3. CASE managed[r] # Retired
      <3>1. Names(disk[used[r]], r)
        BY <1>2, <2>1, <2>3 DEF Named
      <3>2. CASE Acknowledged(disk[used[r]], disk'[used[r]]) /\ disk[used[r]].last.run = r
        <4>1. OnRecord(disk[used[r]], r, disk[used[r]].last.instance)
          BY <3>2 DEF OnRecord, Acknowledged, Unreleased
        <4>2. disk[used[r]].last.instance \in Instance
          BY <2>1, <3>2, DiskTyped DEF Acknowledged, Unreleased
        <4>3. disk[used[r]].last.instance = i
          BY <2>1, <4>1, <4>2 DEF Claims, Claimed
        <4> QED BY <1>2, <3>2, <4>3 DEF Acknowledged
      <3> QED BY <2>1, <3>1, <3>2, EvolvesNames
    <2> QED BY <2>2, <2>3
  <1>3. \A r \in Run : \A i \in Instance : (Live(r, i)' <=> Live(r, i)) /\ (Serving(i)' <=> Serving(i))
    BY DEF Live, Serving
  <1> QED BY <1>1, <1>2, <1>3 DEF Named

\* What was learned of sessions is still so.
LEMMA EvolvesSeen ==
    ASSUME Seen, \A t \in Task : Evolves(t), Standing
    PROVE  Seen'
  <1> UNCHANGED <<instance, draining, managed, process>>
    BY DEF Standing
  <1> SUFFICES ASSUME NEW t \in Task, disk'[t] # None
               PROVE  /\ disk'[t].active # None /\ disk'[t].active.session /\ Serving(disk'[t].active.instance)
                           => managed[disk'[t].active.run] = "session"
                      /\ disk'[t].last # None /\ disk'[t].last.session /\ Serving(disk'[t].last.instance)
                           => \/ managed[disk'[t].last.run] = Retired
                              \/ /\ managed[disk'[t].last.run] = "session"
                                 /\ disk'[t].last.code \in Outcome
                                 /\ process[disk'[t].last.run][disk'[t].last.instance] = disk'[t].last.code
    BY DEF Seen, Serving
  <1>1. CASE disk'[t] = disk[t]
    BY <1>1 DEF Seen
  <1>2. CASE Blanked(disk[t], disk'[t])
    BY <1>2 DEF Blanked
  <1>3. CASE Adjusted(disk[t], disk'[t])
    BY <1>3 DEF Seen, Adjusted, SameRun
  <1>4. CASE Redefined(disk[t], disk'[t])
    BY <1>4 DEF Seen, Redefined
  <1>5. CASE Ended(disk[t], disk'[t])
    BY <1>5 DEF Ended, SameRun
  <1>6. CASE Acknowledged(disk[t], disk'[t])
    BY <1>6 DEF Acknowledged
  <1> QED BY <1>1, <1>2, <1>3, <1>4, <1>5, <1>6 DEF Evolves

\* ctmuxd is as it was.
LEMMA StandingManages ==
    ASSUME Managing, Standing
    PROVE  Managing'
  BY DEF Managing, Standing, Serving, Live

\* All of it: everything in the invariant but the types, the memory and the job.
World == Records /\ Claimed /\ Lateness /\ Managing /\ Named /\ Seen

\* All of these together.
LEMMA EvolvesWorld ==
    ASSUME TypeOK, World, \A t \in Task : Evolves(t), Standing, UNCHANGED used
    PROVE  World'
  BY EvolvesRecords, EvolvesClaimed, EvolvesLateness, EvolvesNamed, EvolvesSeen, StandingManages
     DEF World

\* Records that do not change evolve.
LEMMA SameEvolves ==
    ASSUME UNCHANGED disk
    PROVE  \A t \in Task : Evolves(t)
  BY DEF Evolves

(***************************************************************************)
(* A run that begins.                                                       *)
(***************************************************************************)
Began(t, r, i) ==
    /\ used[r] = None /\ i \in spent
    /\ used'[r] = t /\ \A s \in Run : s # r => used'[s] = used[s]
    /\ Quiet(disk[t])
    /\ disk'[t] # None /\ disk'[t].active # None
    /\ disk'[t].active.run = r /\ disk'[t].active.instance = i
    /\ ~disk'[t].active.released /\ ~disk'[t].active.session
    /\ disk'[t].definition = disk'[t].active.definition
    /\ disk'[t].last # None => disk[t] # None /\ disk'[t].last = disk[t].last
    /\ \A u \in Task : u # t => disk'[u] = disk[u] \/ Blanked(disk[u], disk'[u])

\* A run that was not given out is tied to nothing.
LEMMA Unclaimed ==
    ASSUME TypeOK, Claimed, NEW r \in Run, used[r] = None
    PROVE  /\ \A i \in Instance : ~Claims(r, i)
           /\ \A q \in late : q.run # r
           /\ \A t \in Task : disk[t] # None =>
                 /\ disk[t].active # None => disk[t].active.run # r
                 /\ disk[t].last # None => disk[t].last.run # r
  <1>1. \A i \in Instance : ~Claims(r, i)
    BY DEF Claimed
  <1>2. \A q \in late : q.run # r
    BY <1>1 DEF Claims, TypeOK, Request
  <1>3. ASSUME NEW t \in Task, disk[t] # None, disk[t].active # None
        PROVE  disk[t].active.run # r
    <2>1. OnRecord(disk[t], disk[t].active.run, disk[t].active.instance)
      BY <1>3 DEF OnRecord
    <2> QED BY <1>1, <1>3, <2>1, DiskTyped DEF Claims
  <1>4. ASSUME NEW t \in Task, disk[t] # None, disk[t].last # None
        PROVE  disk[t].last.run # r
    <2>1. OnRecord(disk[t], disk[t].last.run, disk[t].last.instance)
      BY <1>4 DEF OnRecord
    <2> QED BY <1>1, <1>4, <2>1, DiskTyped DEF Claims
  <1> QED BY <1>1, <1>2, <1>3, <1>4

\* The record of a run that begins is consistent.
LEMMA BeganRecords ==
    ASSUME TypeOK, Records, Claimed, NEW t \in Task, NEW r \in Run, NEW i \in Instance, Began(t, r, i)
    PROVE  Records'
  <1>1. ASSUME NEW u \in Task, u # t, disk'[u] # None
        PROVE  /\ disk'[u].active # None =>
                    /\ used'[disk'[u].active.run] = u
                    /\ ~disk'[u].active.released
                    /\ disk'[u].definition = disk'[u].active.definition
               /\ disk'[u].last # None => used'[disk'[u].last.run] = u
               /\ disk'[u].active # None /\ disk'[u].last # None
                    => disk'[u].active.run # disk'[u].last.run
    <2>1. CASE disk'[u] = disk[u]
      BY <1>1, <2>1, Unclaimed, DiskTyped DEF Records, Began
    <2>2. CASE Blanked(disk[u], disk'[u])
      BY <1>1, <2>2 DEF Blanked
    <2> QED BY <1>1, <2>1, <2>2 DEF Began
  <1>2. disk'[t].last # None => used'[disk'[t].last.run] = t /\ disk'[t].last.run # r
    BY Unclaimed, DiskTyped DEF Records, Began
  <1> QED BY <1>1, <1>2 DEF Records, Began

\* It claims its instance, and nothing else is claimed.
LEMMA BeganClaims ==
    ASSUME NEW t \in Task, NEW r \in Run, NEW i \in Instance, Began(t, r, i), Standing,
           NEW s \in Run, NEW j \in Instance, Claims(s, j)'
    PROVE  Claims(s, j) \/ (s = r /\ j = i)
  <1>1. UNCHANGED <<process, late>>
    BY DEF Standing
  <1>2. CASE process'[s][j] # "none" \/ \E q \in late' : q.run = s /\ q.instance = j
    BY <1>1, <1>2 DEF Claims
  <1>3. ASSUME NEW u \in Task, OnRecord(disk'[u], s, j)
        PROVE  Claims(s, j) \/ (s = r /\ j = i)
    <2>1. CASE u = t
      BY <1>3, <2>1 DEF Began, OnRecord, Claims
    <2>2. CASE u # t
      BY <1>3, <2>2 DEF Began, Blanked, OnRecord, Claims
    <2> QED BY <2>1, <2>2
  <1> QED BY <1>2, <1>3 DEF Claims, OnRecord

\* It belongs to that instance alone, because its identifier is new.
LEMMA BeganClaimed ==
    ASSUME TypeOK, Claimed, NEW t \in Task, NEW r \in Run, NEW i \in Instance, Began(t, r, i), Standing
    PROVE  Claimed'
  <1> UNCHANGED spent
    BY DEF Standing
  <1>1. t # None /\ i \in spent /\ used'[r] = t /\ \A s \in Run : s # r => used'[s] = used[s]
    BY ManagedAssumption DEF Began
  <1>2. \A j \in Instance : ~Claims(r, j)
    BY Unclaimed DEF Began
  <1> QED BY <1>1, <1>2, BeganClaims DEF Claimed

\* A run that begins keeps everything but the job.
LEMMA BeganWorld ==
    ASSUME TypeOK, World, NEW t \in Task, NEW r \in Run, NEW i \in Instance, Began(t, r, i), Standing
    PROVE  World'
  <1>0. UNCHANGED <<instance, draining, managed, process, late>>
    BY DEF Standing
  <1>1. Records' /\ Claimed' /\ Managing'
    BY BeganRecords, BeganClaimed, StandingManages DEF World
  <1>2. \A s \in Run : used[s] # None => s # r /\ used'[s] = used[s] /\ used[s] \in Task
    BY DEF Began, TypeOK
  <1>3. ASSUME NEW s \in Run, used[s] # None, Names(disk[used[s]], s)
        PROVE  Names(disk'[used'[s]], s)
    BY <1>2, <1>3 DEF Began, Quiet, Blanked, Names
  <1>4. Lateness'
    <2>1. \A q \in late : q.run # r
      BY Unclaimed DEF World, Began
    <2> QED BY <1>0, <2>1 DEF World, Lateness, Began, Blanked
  <1>5. Named'
    <2>1. \A s \in Run : \A j \in Instance : (Live(s, j)' <=> Live(s, j)) /\ (Serving(j)' <=> Serving(j))
      BY <1>0 DEF Live, Serving
    <2>2. ASSUME NEW s \in Run, NEW j \in Instance, Live(s, j)
          PROVE  Names(disk'[used'[s]], s)
      <3>1. used[s] # None
        BY <2>2 DEF Live, Claims, World, Claimed
      <3> QED BY <1>3, <2>2, <3>1 DEF World, Named
    <2>3. ASSUME NEW s \in Run, NEW j \in Instance, Serving(j), Claims(s, j)'
          PROVE  managed[s] = Retired \/ Names(disk'[used'[s]], s)
      <3>1. CASE Claims(s, j)
        BY <1>3, <2>3, <3>1 DEF World, Claimed, Named
      <3>2. CASE s = r
        BY <3>2 DEF Began, Names
      <3> QED BY <2>3, <3>1, <3>2, BeganClaims
    <2> QED BY <1>0, <2>1, <2>2, <2>3 DEF Named
  <1>6. Seen'
    <2>1. \A j \in Instance : Serving(j)' <=> Serving(j)
      BY <1>0 DEF Serving
    <2>2. ASSUME NEW u \in Task, u # t
          PROVE  disk'[u] = disk[u] \/ Blanked(disk[u], disk'[u])
      BY <2>2 DEF Began
    <2> QED BY <1>0, <2>2 DEF World, Seen, Serving, Began, Blanked
  <1> QED BY <1>1, <1>4, <1>5, <1>6 DEF World

(***************************************************************************)
(* Steps of ctmuxd, with the records left as they are.                       *)
(***************************************************************************)
Kept == UNCHANGED <<disk, used>>
SameInstance == UNCHANGED <<instance, spent, draining>>

\* Run r of instance i is now managed as m, and its process is p.
Becomes(r, i, m, p) ==
    /\ managed'[r] = m /\ \A s \in Run : s # r => managed'[s] = managed[s]
    /\ process'[r][i] = p
    /\ \A s \in Run : \A j \in Instance : s # r \/ j # i => process'[s][j] = process[s][j]

\* A request that may be executed: its run is tied to its instance, and it
\* says what Lateness asks of it.
Founded(q) ==
    /\ q \in Request
    /\ Claims(q.run, q.instance)
    /\ \A t \in Task : disk[t] # None /\ disk[t].active # None /\ disk[t].active.run = q.run =>
          /\ q.op # "release"
          /\ q.op = "start" => q.definition = disk[t].active.definition

\* The outcomes of an execution.
Outcomes(q) ==
    \/ Becomes(q.run, q.instance, managed[q.run], process[q.run][q.instance])
    \/ /\ q.op = "start" /\ managed[q.run] = Absent
       /\ Becomes(q.run, q.instance, "session", "running")
    \/ /\ managed[q.run] = "session" /\ process[q.run][q.instance] = "running"
       /\ Becomes(q.run, q.instance, "session", "killed")
    \/ /\ ~Live(q.run, q.instance) /\ (managed[q.run] = "session" => q.op = "release")
       /\ Becomes(q.run, q.instance, Retired, process[q.run][q.instance])

\* A request that ctmuxd accepts has one of these outcomes.
LEMMA ExecuteOutcomes ==
    ASSUME TypeOK, Managing, NEW q \in Request, Accepts(q), Execute(q)
    PROVE  Serving(q.instance) /\ SameInstance /\ Outcomes(q)
  <1>1. q.run \in Run /\ q.instance \in Instance /\ q.op \in {"start", "stop", "release"}
    BY DEF Request
  <1>2. Serving(q.instance) /\ SameInstance /\ q.instance = instance
    BY DEF Accepts, Execute, Serving, SameInstance
  <1>3. managed[q.run] \in {Absent, Retired, "session"}
    BY <1>1 DEF TypeOK
  <1>4. managed[q.run] # "session" => ~Live(q.run, q.instance)
    BY <1>1, <1>2 DEF Managing, Serving
  <1>5. managed[q.run] = "session" /\ Reported(q.run) # "running" => ~Live(q.run, q.instance)
    BY <1>2 DEF Reported
  <1>6. CASE q.op = "start"
    <2>1. managed[q.run] # Retired
      BY <1>6 DEF Accepts
    <2>2. CASE managed[q.run] = "session"
      BY <1>1, <1>2, <1>6, <2>2 DEF Execute, Outcomes, Becomes, TypeOK
    <2>3. CASE managed[q.run] = Absent
      BY <1>1, <1>2, <1>6, <2>3 DEF Execute, Outcomes, Becomes, TypeOK, Absent, Retired
    <2> QED BY <1>2, <1>3, <2>1, <2>2, <2>3
  <1>7. CASE q.op = "stop"
    <2>1. CASE managed[q.run] = "session" /\ process[q.run][q.instance] = "running"
      BY <1>1, <1>2, <1>7, <2>1 DEF Execute, Outcomes, Becomes, TypeOK
    <2>2. CASE managed[q.run] = "session" /\ process[q.run][q.instance] # "running"
      BY <1>1, <1>2, <1>7, <2>2 DEF Execute, Outcomes, Becomes, TypeOK
    <2>3. CASE managed[q.run] # "session"
      BY <1>1, <1>2, <1>4, <1>7, <2>3 DEF Execute, Outcomes, Becomes, TypeOK
    <2> QED BY <1>2, <2>1, <2>2, <2>3
  <1>8. CASE q.op = "release"
    <2>1. ~Live(q.run, q.instance)
      BY <1>4, <1>5, <1>8 DEF Accepts
    <2>2. Becomes(q.run, q.instance, Retired, process[q.run][q.instance])
      BY <1>1, <1>2, <1>8 DEF Execute, Becomes, TypeOK
    <2> QED BY <1>2, <1>8, <2>1, <2>2 DEF Outcomes
  <1> QED BY <1>1, <1>6, <1>7, <1>8

\* The claims do not grow when nothing is created for a run that has none.
LEMMA KeptClaims ==
    ASSUME Kept,
           NEW r \in Run, NEW i \in Instance, Claims(r, i)',
           process'[r][i] # "none" => Claims(r, i),
           \A q \in late' : q \in late \/ (q.run = r /\ q.instance = i => Claims(r, i))
    PROVE  Claims(r, i)
  BY DEF Kept, Claims, OnRecord

\* Serving a claimed run claims nothing else.
LEMMA ServesClaims ==
    ASSUME Kept, late' \subseteq late,
           NEW s \in Run, NEW j \in Instance, Claims(s, j), NEW m, NEW p, Becomes(s, j, m, p),
           NEW r \in Run, NEW i \in Instance, Claims(r, i)'
    PROVE  Claims(r, i)
  <1>1. process'[r][i] # "none" => Claims(r, i)
    BY DEF Becomes, Claims
  <1> QED BY <1>1, KeptClaims

\* ctmuxd may serve any request that is founded in a record.
LEMMA ExecuteWorld ==
    ASSUME TypeOK, World, NEW q, Founded(q), Accepts(q), Execute(q), Kept, late' \subseteq late
    PROVE  World'
  <1> DEFINE r == q.run
             i == q.instance
  <1>0. q \in Request /\ r \in Run /\ i \in Instance
    BY DEF Founded, Request
  <1>1. Serving(i) /\ SameInstance /\ Outcomes(q)
    BY <1>0, ExecuteOutcomes DEF World
  <1>2. \A s \in Run : \A j \in Instance : Claims(s, j)' => Claims(s, j)
    BY <1>0, <1>1, ServesClaims DEF Outcomes, Founded
  <1>3. Records' /\ Lateness'
    BY DEF World, Records, Lateness, Kept
  <1>4. Claimed'
    BY <1>1, <1>2 DEF World, Claimed, Kept, SameInstance
  <1>5. instance = i /\ ~draining /\ instance' = i /\ ~draining' /\ i \in spent'
    BY <1>0, <1>1, ManagedAssumption DEF Serving, SameInstance, World, Managing
  <1>6. i # None
    BY <1>0, ManagedAssumption
  <1>7. Managing'
    <2>1. \A s \in Run : managed'[s] = "session" => process'[s][i] \in {"running", "killed"} \cup Outcome
      BY <1>0, <1>1, <1>5 DEF World, Managing, Outcomes, Becomes, Retired
    <2>2. \A s \in Run : managed'[s] = Absent => process'[s][i] = "none"
      BY <1>0, <1>1, <1>5 DEF World, Managing, Outcomes, Becomes, Retired, Absent, Serving
    <2>3. \A s \in Run : \A j \in Instance : Live(s, j)' => j = i /\ managed'[s] = "session"
      BY <1>0, <1>1, <1>5 DEF World, Managing, Outcomes, Becomes, Live
    <2> QED BY <1>5, <1>6, <2>1, <2>2, <2>3 DEF Managing, Serving
  <1>8. Named'
    <2>1. \A s \in Run : \A j \in Instance : Live(s, j)' => Names(disk[used[s]], s)
      <3>1. managed[r] # Retired => Names(disk[used[r]], r)
        BY <1>0, <1>1 DEF World, Named, Founded
      <3>2. \A j \in Instance : Live(r, j)' => Live(r, j) \/ managed[r] # Retired
        BY <1>0, <1>1 DEF Outcomes, Becomes, Live, Absent, Retired
      <3>3. \A s \in Run : s # r => \A j \in Instance : Live(s, j)' => Live(s, j)
        BY <1>0, <1>1 DEF Outcomes, Becomes, Live
      <3> QED BY <3>1, <3>2, <3>3 DEF World, Named
    <2>2. \A s \in Run : managed[s] = Retired => managed'[s] = Retired
      BY <1>0, <1>1 DEF Outcomes, Becomes, Absent, Retired
    <2>3. \A j \in Instance : Serving(j)' => Serving(j)
      BY <1>1 DEF Serving, SameInstance
    <2> QED BY <1>2, <2>1, <2>2, <2>3 DEF World, Named, Kept
  <1>9. Seen'
    <2>2. ASSUME NEW t \in Task, disk[t] # None, disk[t].active # None, disk[t].active.session,
                 disk[t].active.instance = i
          PROVE  managed'[disk[t].active.run] = "session"
      <3>1. disk[t].active.run \in Run /\ disk[t].active.instance = i
        BY <2>2, DiskTyped
      <3>2. managed[disk[t].active.run] = "session"
        BY <1>1, <2>2, <3>1 DEF World, Seen
      <3>3. disk[t].active.run = r => q.op # "release"
        BY <2>2 DEF Founded
      <3> QED BY <1>0, <1>1, <3>1, <3>2, <3>3 DEF Outcomes, Becomes
    <2>3. ASSUME NEW t \in Task, disk[t] # None, disk[t].last # None, disk[t].last.session,
                 disk[t].last.instance = i
          PROVE  \/ managed'[disk[t].last.run] = Retired
                 \/ /\ managed'[disk[t].last.run] = "session"
                    /\ disk[t].last.code \in Outcome
                    /\ process'[disk[t].last.run][disk[t].last.instance] = disk[t].last.code
      <3>1. disk[t].last.run \in Run /\ disk[t].last.instance = i
        BY <2>3, DiskTyped
      <3>2. \/ managed[disk[t].last.run] = Retired
            \/ /\ managed[disk[t].last.run] = "session"
               /\ disk[t].last.code \in Outcome
               /\ process[disk[t].last.run][i] = disk[t].last.code
        BY <1>1, <2>3, <3>1 DEF World, Seen
      <3> QED BY <1>0, <1>1, <3>1, <3>2 DEF Outcomes, Becomes, Absent, Retired, Outcome
    <2> QED BY <1>5, <2>2, <2>3 DEF Seen, Kept, Serving
  <1> QED BY <1>3, <1>4, <1>7, <1>8, <1>9 DEF World

\* A request is given up and may still be executed.
LEMMA LeftWorld ==
    ASSUME TypeOK, World, NEW q, Founded(q), late' = late \cup {q}, Kept,
           SameInstance, UNCHANGED <<managed, process>>
    PROVE  World'
  <1>1. \A r \in Run : \A i \in Instance : Claims(r, i)' => Claims(r, i)
    <2> SUFFICES ASSUME NEW r \in Run, NEW i \in Instance, Claims(r, i)'
                 PROVE  Claims(r, i)
      OBVIOUS
    <2>1. process'[r][i] # "none" => Claims(r, i)
      BY DEF Claims
    <2>2. \A p \in late' : p \in late \/ (p.run = r /\ p.instance = i => Claims(r, i))
      BY DEF Founded
    <2> QED BY <2>1, <2>2, KeptClaims
  <1>2. Records' /\ Managing' /\ Seen'
    BY DEF World, Records, Managing, Seen, Kept, SameInstance, Serving, Live
  <1>3. Claimed'
    BY <1>1 DEF World, Claimed, Kept, SameInstance
  <1>4. Lateness'
    BY DEF World, Lateness, Founded, Kept
  <1>5. Named'
    BY <1>1 DEF World, Named, Kept, SameInstance, Serving, Live
  <1> QED BY <1>2, <1>3, <1>4, <1>5 DEF World

\* A process exits.
LEMMA ExitWorld ==
    ASSUME TypeOK, World, Kept, SameInstance, UNCHANGED <<managed, late>>,
           NEW r \in Run, NEW i \in Instance, Live(r, i), NEW code \in Outcome,
           Becomes(r, i, managed[r], code)
    PROVE  World'
  <1>1. \A s \in Run : \A j \in Instance : Claims(s, j)' => Claims(s, j)
    <2>1. Claims(r, i)
      BY DEF Live, Claims
    <2> QED BY <2>1, ServesClaims
  <1>2. \A s \in Run : \A j \in Instance : Live(s, j)' => Live(s, j)
    BY DEF Becomes, Live
  <1>3. Records' /\ Lateness'
    BY DEF World, Records, Lateness, Kept
  <1>4. Claimed'
    BY <1>1 DEF World, Claimed, Kept, SameInstance
  <1>5. instance = i /\ (draining \/ managed[r] = "session")
    BY DEF World, Managing
  <1>6. Managing'
    <2>1. \A s \in Run : managed[s] = "session" => process'[s][instance] \in {"running", "killed"} \cup Outcome
      BY <1>5 DEF World, Managing, Becomes
    <2>2. \A s \in Run : Serving(i) /\ managed[s] = Absent => process'[s][i] = "none"
      BY <1>5 DEF World, Managing, Becomes, Serving, Absent
    <2> QED BY <1>2, <1>5, <2>1, <2>2 DEF World, Managing, SameInstance, Serving
  <1>7. Named'
    BY <1>1, <1>2 DEF World, Named, Kept, SameInstance, Serving
  <1>8. Seen'
    <2>1. ASSUME NEW t \in Task, disk[t] # None, disk[t].last # None, disk[t].last.session,
                 Serving(disk[t].last.instance),
                 managed[disk[t].last.run] = "session",
                 disk[t].last.code \in Outcome,
                 process[disk[t].last.run][disk[t].last.instance] = disk[t].last.code
          PROVE  process'[disk[t].last.run][disk[t].last.instance] = disk[t].last.code
      BY <2>1, DiskTyped DEF Becomes, Live, Outcome
    <2> QED BY <2>1 DEF World, Seen, Kept, SameInstance, Serving
  <1> QED BY <1>3, <1>4, <1>6, <1>7, <1>8 DEF World

\* The instance is gone.
LEMMA VanishWorld ==
    ASSUME TypeOK, World, Vanish
    PROVE  World'
  <1>0. Kept /\ spent' = spent /\ instance' = None /\ draining' = FALSE /\ late' = {}
    BY DEF Vanish, Kept, taskd
  <1>1. \A r \in Run : managed'[r] = Absent
    BY DEF Vanish
  <1>2. \A r \in Run : \A i \in Instance :
           process'[r][i] = IF process[r][i] = "none" THEN "none" ELSE "lost"
    BY DEF Vanish
  <1>3. \A r \in Run : \A i \in Instance : Claims(r, i)' => Claims(r, i)
    <2> SUFFICES ASSUME NEW r \in Run, NEW i \in Instance, Claims(r, i)'
                 PROVE  Claims(r, i)
      OBVIOUS
    <2>1. process'[r][i] # "none" => Claims(r, i)
      BY <1>2 DEF Claims
    <2> QED BY <1>0, <2>1, KeptClaims
  <1>4. \A r \in Run : \A i \in Instance : ~Live(r, i)'
    BY <1>2 DEF Live
  <1>5. \A i \in Instance : ~Serving(i)'
    BY <1>0, ManagedAssumption DEF Serving
  <1>6. Records' /\ Lateness'
    BY <1>0 DEF World, Records, Lateness, Kept
  <1>7. Claimed'
    BY <1>0, <1>3 DEF World, Claimed, Kept
  <1>8. Managing'
    BY <1>0, <1>1, <1>4, <1>5 DEF Managing, Absent
  <1>9. Named'
    BY <1>4, <1>5 DEF Named
  <1>10. Seen'
    <2>1. \A t \in Task : disk'[t] # None =>
             /\ disk'[t].active # None => disk'[t].active.instance \in Instance
             /\ disk'[t].last # None => disk'[t].last.instance \in Instance
      BY <1>0, DiskTyped DEF Kept
    <2> QED BY <1>0, <2>1, ManagedAssumption DEF Seen, Serving
  <1> QED BY <1>6, <1>7, <1>8, <1>9, <1>10 DEF World

\* An instance with a new identifier starts: nothing is tied to it.
LEMMA StartWorld ==
    ASSUME TypeOK, World, Kept, UNCHANGED <<draining, managed, process, late>>,
           instance = None, NEW i \in Instance, i \notin spent,
           instance' = i, spent' = spent \cup {i}
    PROVE  World'
  <1>1. \A r \in Run : \A j \in Instance : Claims(r, j)' => Claims(r, j)
    <2> SUFFICES ASSUME NEW r \in Run, NEW j \in Instance, Claims(r, j)'
                 PROVE  Claims(r, j)
      OBVIOUS
    <2>1. process'[r][j] # "none" => Claims(r, j)
      BY DEF Claims
    <2> QED BY <2>1, KeptClaims
  <1>2. \A r \in Run : ~Claims(r, i)
    BY DEF World, Claimed
  <1>3. \A r \in Run : process[r][i] = "none"
    BY <1>2 DEF Claims
  <1>4. \A r \in Run : managed[r] = Absent /\ \A j \in Instance : ~Live(r, j)
    BY ManagedAssumption DEF World, Managing
  <1>5. Records' /\ Lateness'
    BY DEF World, Records, Lateness, Kept
  <1>6. Claimed'
    BY <1>1 DEF World, Claimed, Kept
  <1>7. Managing'
    <2>1. \A r \in Run : \A j \in Instance : ~Live(r, j)'
      BY <1>4 DEF Live
    <2>2. i # None /\ ~draining
      BY ManagedAssumption DEF World, Managing
    <2> QED BY <1>3, <1>4, <2>1, <2>2 DEF Managing, Serving, Absent
  <1>8. Named'
    <2>1. \A r \in Run : \A j \in Instance : ~Live(r, j)'
      BY <1>4 DEF Live
    <2>2. \A r \in Run : \A j \in Instance : Serving(j)' => ~Claims(r, j)'
      BY <1>1, <1>2 DEF Serving
    <2> QED BY <2>1, <2>2 DEF Named
  <1>9. Seen'
    <2>1. \A t \in Task : disk[t] # None =>
             /\ disk[t].active # None => disk[t].active.instance # i
             /\ disk[t].last # None => disk[t].last.instance # i
      <3> SUFFICES ASSUME NEW t \in Task, disk[t] # None
                   PROVE  /\ disk[t].active # None => disk[t].active.instance # i
                          /\ disk[t].last # None => disk[t].last.instance # i
        OBVIOUS
      <3>1. disk[t].active # None => OnRecord(disk[t], disk[t].active.run, disk[t].active.instance)
        BY DEF OnRecord
      <3>2. disk[t].last # None => OnRecord(disk[t], disk[t].last.run, disk[t].last.instance)
        BY DEF OnRecord
      <3> QED BY <1>2, <3>1, <3>2, DiskTyped DEF Claims
    <2> QED BY <2>1 DEF Seen, Serving, Kept
  <1> QED BY <1>5, <1>6, <1>7, <1>8, <1>9 DEF World

\* ctmuxd drains: it manages nothing any more, and kills what is alive.
LEMMA RestartWorld ==
    ASSUME TypeOK, World, RestartCtmuxd
    PROVE  World'
  <1>0. Kept /\ spent' = spent /\ instance' = instance /\ draining' = TRUE /\ late' = late
        /\ instance # None
    BY DEF RestartCtmuxd, Kept, taskd
  <1>1. \A r \in Run : managed'[r] = Absent
    BY DEF RestartCtmuxd
  <1>2. \A r \in Run : \A i \in Instance :
           process'[r][i] = IF Live(r, i) THEN "killed" ELSE process[r][i]
    BY DEF RestartCtmuxd
  <1>3. \A r \in Run : \A i \in Instance : Claims(r, i)' => Claims(r, i)
    <2> SUFFICES ASSUME NEW r \in Run, NEW i \in Instance, Claims(r, i)'
                 PROVE  Claims(r, i)
      OBVIOUS
    <2>1. process'[r][i] # "none" => Claims(r, i)
      BY <1>2 DEF Claims, Live
    <2> QED BY <1>0, <2>1, KeptClaims
  <1>4. \A r \in Run : \A i \in Instance : Live(r, i)' => Live(r, i)
    BY <1>2 DEF Live
  <1>5. \A i : ~Serving(i)'
    BY <1>0 DEF Serving
  <1>6. Records' /\ Lateness'
    BY <1>0 DEF World, Records, Lateness, Kept
  <1>7. Claimed'
    BY <1>0, <1>3 DEF World, Claimed, Kept
  <1>8. Managing'
    BY <1>0, <1>1, <1>4, <1>5 DEF World, Managing, Absent
  <1>9. Named'
    BY <1>0, <1>4, <1>5 DEF World, Named, Kept
  <1>10. Seen'
    BY <1>0 DEF Seen, Serving
  <1> QED BY <1>6, <1>7, <1>8, <1>9, <1>10 DEF World

(***************************************************************************)
(* Steps of ctl-taskd: what their proofs have in common.                     *)
(***************************************************************************)
LEMMA NoJob ==
    ASSUME job' = None
    PROVE  Working' /\ Learned'
  BY DEF Working, Learned

\* A save that lets the record of task t evolve.
LEMMA SavedWorld ==
    ASSUME TasksInv, NEW t \in Task, Wrote(t), Evolves(t), Standing, UNCHANGED used
    PROVE  Memory' /\ World'
  <1>1. Memory'
    BY WroteMemory DEF TasksInv
  <1>2. \A u \in Task : Evolves(u)
    BY WroteOthers DEF TasksInv, Evolves
  <1>3. World'
    BY <1>2, EvolvesWorld DEF TasksInv, World
  <1> QED BY <1>1, <1>3

\* A step that leaves the records and ctmuxd alone.
LEMMA StillWorld ==
    ASSUME TasksInv, UNCHANGED <<up, tasks, disk, used>>, Standing
    PROVE  Memory' /\ World'
  <1>1. Memory'
    BY DEF TasksInv, Memory
  <1>2. World'
    BY SameEvolves, EvolvesWorld DEF TasksInv, World
  <1> QED BY <1>1, <1>2

\* The types of what no step of ctl-taskd on its own changes.
StandingTyped ==
    /\ up \in BOOLEAN /\ used \in [Run -> Task \cup {None}]
    /\ instance \in Instance \cup {None} /\ spent \subseteq Instance /\ draining \in BOOLEAN
    /\ managed \in [Run -> {Absent, Retired, "session"}]
    /\ process \in [Run -> [Instance -> {"none", "running", "killed", "lost"} \cup Outcome]]
    /\ late \subseteq Request

StoreTyped ==
    tasks \in [Task -> TaskRecord \cup {None}] /\ disk \in [Task -> TaskRecord \cup {None}]

\* The type invariant, in parts.
LEMMA TypeParts ==
    TypeOK <=> StandingTyped /\ StoreTyped /\ job \in Job \cup {None} /\ faults \in 0 .. MaxFaults
  BY DEF TypeOK, StandingTyped, StoreTyped

\* The same, after a step.
LEMMA TypePartsNext ==
    TypeOK' <=> StandingTyped' /\ StoreTyped' /\ job' \in Job \cup {None} /\ faults' \in 0 .. MaxFaults
  BY DEF TypeOK, StandingTyped, StoreTyped

\* What does not change keeps its type.
LEMMA StandingTypes ==
    ASSUME TypeOK, Standing, UNCHANGED <<up, used>>
    PROVE  StandingTyped'
  BY DEF TypeOK, Standing, StandingTyped

\* The faults stay within their bound.
LEMMA FaultTyped ==
    ASSUME TypeOK, Fault \/ UNCHANGED faults
    PROVE  faults' \in 0 .. MaxFaults
  BY ManagedAssumption DEF TypeOK, Fault

\* A new record is a record.
LEMMA FreshTyped == Fresh \in TaskRecord /\ Fresh # None
  BY ManagedAssumption DEF Fresh, TaskRecord, Definition

\* A job that begins is where it was said to begin.
LEMMA BeginTyped ==
    ASSUME NEW kind \in {"reconcile", "start", "stop", "restart", "remove"}, NEW t \in Task,
           NEW step \in Step, Begin(kind, t, step)
    PROVE  /\ job' \in Job /\ job' # None
           /\ job'.kind = kind /\ job'.task = t /\ job'.at = step
  BY ManagedAssumption DEF Begin, Job

(***************************************************************************)
(* Requests.                                                                *)
(***************************************************************************)
LEMMA RegisterStep ==
    ASSUME TasksInv, NEW t \in Task, Register(t) \/ Create(t)
    PROVE  TasksInv'
  <1>1. /\ up /\ job = None /\ tasks[t] = None
        /\ UNCHANGED <<up, job, used>> /\ Standing
    BY DEF Register, Create, Idle, Standing, ctmuxd
  <1>2. TypeOK /\ Memory /\ Fresh \in TaskRecord \cup {None} /\ Fresh # None
    BY FreshTyped DEF TasksInv
  <1>3. Quiet(disk[t])
    BY <1>1, <1>2 DEF Memory, Quiet
  <1>4. Working' /\ Learned' /\ StandingTyped'
    BY <1>1, <1>2, NoJob, StandingTypes
  <1>5. CASE Save(t, Fresh)
    <2>1. Wrote(t) /\ disk'[t] = Fresh /\ StoreTyped' /\ faults' = faults
      BY <1>1, <1>2, <1>5, SaveWrites DEF StoreTyped
    <2>2. Evolves(t)
      BY <1>2, <1>3, <2>1 DEF Evolves, Blanked, Fresh
    <2>3. TypeOK'
      BY <1>1, <1>2, <1>4, <2>1, TypePartsNext DEF TypeOK
    <2> QED BY <1>1, <1>4, <2>1, <2>2, <2>3, SavedWorld DEF TasksInv, World
  <1>6. CASE Fault /\ tasks' = [tasks EXCEPT ![t] = Fresh] /\ UNCHANGED disk
    <2>1. TypeOK'
      <3>1. StoreTyped'
        BY <1>2, <1>6 DEF TypeOK, StoreTyped
      <3> QED BY <1>1, <1>2, <1>4, <1>6, <3>1, FaultTyped, TypePartsNext DEF TypeOK
    <2>2. Memory'
      BY <1>1, <1>2, <1>3, <1>6 DEF TypeOK, Memory, Quiet
    <2>3. World'
      BY <1>1, <1>6, SameEvolves, EvolvesWorld DEF TasksInv, World
    <2> QED BY <1>4, <2>1, <2>2, <2>3 DEF TasksInv, World
  <1> QED BY <1>5, <1>6 DEF Register, Create

\* Create or update of a task.
LEMMA UpdateStep ==
    ASSUME TasksInv, NEW t \in Task, Update(t)
    PROVE  TasksInv'
  <1> DEFINE record == [tasks[t] EXCEPT !.definition = @ + 1]
  <1>1. /\ up /\ job = None /\ tasks[t] # None /\ tasks[t].active = None
        /\ tasks[t].definition < MaxUpdates
        /\ Save(t, record)
        /\ UNCHANGED <<up, job, used>> /\ Standing
    BY DEF Update, Idle, Standing, ctmuxd
  <1>2. TypeOK /\ Memory /\ tasks[t] \in TaskRecord
    BY <1>1 DEF TasksInv, TypeOK
  <1>3. tasks[t].definition \in 0 .. MaxUpdates
    BY <1>2 DEF TaskRecord, Definition
  <1>4. tasks[t].definition + 1 \in Definition
    BY <1>1, <1>3, ManagedAssumption DEF Definition
  <1>5. record \in TaskRecord /\ record.active = None /\ record.last = tasks[t].last
    BY <1>1, <1>2, <1>4 DEF TaskRecord
  <1>6. Wrote(t) /\ disk'[t] = record /\ StoreTyped' /\ faults' = faults
    BY <1>1, <1>2, <1>5, SaveWrites DEF StoreTyped
  <1>7. record # None
    BY <1>5, ManagedAssumption
  <1>8. Evolves(t)
    <2>1. CASE tasks[t] = disk[t]
      BY <1>1, <1>5, <1>6, <1>7, <2>1 DEF Evolves, Redefined
    <2>2. CASE tasks[t] = Fresh /\ Quiet(disk[t])
      BY <1>1, <1>5, <1>6, <1>7, <2>2 DEF Evolves, Blanked, Fresh
    <2> QED BY <1>1, <1>2, <2>1, <2>2 DEF Memory
  <1>9. Working' /\ Learned' /\ StandingTyped'
    BY <1>1, <1>2, NoJob, StandingTypes
  <1>10. TypeOK'
    BY <1>1, <1>2, <1>6, <1>9, TypePartsNext DEF TypeOK
  <1> QED BY <1>1, <1>6, <1>8, <1>9, <1>10, SavedWorld DEF TasksInv, World

\* Start, remove and reconcile only begin a job.
LEMMA BeginStep ==
    ASSUME TasksInv, NEW t \in Task, Start(t) \/ Remove(t) \/ Reconcile(t)
    PROVE  TasksInv'
  <1>1. /\ up /\ tasks[t] # None /\ UNCHANGED <<up, tasks, disk, used, faults>> /\ Standing
    BY DEF Start, Remove, Reconcile, Idle, Standing, ctmuxd
  <1>2. Memory' /\ World'
    BY <1>1, StillWorld
  <1>3. StandingTyped' /\ StoreTyped'
    BY <1>1, StandingTypes DEF TasksInv, TypeOK, StoreTyped
  <1>4. \/ tasks[t].active = None /\ Begin("start", t, "connect")
        \/ /\ tasks[t].active = None
           /\ Begin("remove", t, IF Unreleased(tasks[t]) THEN "releaseStatus" ELSE "remove")
        \/ /\ tasks[t].active # None \/ Unreleased(tasks[t])
           /\ Begin("reconcile", t, IF tasks[t].active # None THEN "status" ELSE "releaseStatus")
    BY DEF Start, Remove, Reconcile
  <1>5. \E kind \in {"reconcile", "start", "remove"} :
          \E step \in {"connect", "releaseStatus", "remove", "status"} :
            /\ Begin(kind, t, step)
            /\ step = "connect" => tasks[t].active = None /\ kind = "start"
            /\ step = "remove" => tasks[t].active = None /\ ~Unreleased(tasks[t])
            /\ step = "releaseStatus" => tasks[t].active = None /\ Unreleased(tasks[t])
            /\ step = "status" => tasks[t].active # None /\ kind # "remove"
    BY <1>4
  <1>6. PICK kind \in {"reconcile", "start", "remove"},
             step \in {"connect", "releaseStatus", "remove", "status"} :
            /\ Begin(kind, t, step)
            /\ step = "connect" => tasks[t].active = None /\ kind = "start"
            /\ step = "remove" => tasks[t].active = None /\ ~Unreleased(tasks[t])
            /\ step = "releaseStatus" => tasks[t].active = None /\ Unreleased(tasks[t])
            /\ step = "status" => tasks[t].active # None /\ kind # "remove"
    BY <1>5
  <1>7. /\ job' \in Job /\ job' # None
        /\ job'.kind = kind /\ job'.task = t /\ job'.at = step
    BY <1>6, BeginTyped DEF Step
  <1>8. Working'
    BY <1>1, <1>6, <1>7 DEF Working, Current, Active, Reconciling, Releases
  <1>9. Learned'
    BY <1>7 DEF Learned
  <1>10. TypeOK'
    BY <1>1, <1>3, <1>7, TypePartsNext DEF TasksInv, TypeOK
  <1> QED BY <1>2, <1>8, <1>9, <1>10 DEF TasksInv, World

\* The record of a run whose desired state, state or session changed.
LEMMA AdjustedSaves ==
    ASSUME TasksInv, up, UNCHANGED <<up, used>>, Standing, NEW t \in Task,
           tasks[t] # None, tasks[t].active # None,
           NEW record, record \in TaskRecord, record.active \in RunRecord,
           record.definition = tasks[t].definition, record.last = tasks[t].last,
           SameRun(tasks[t].active, record.active),
           record.active.session /\ Serving(tasks[t].active.instance)
             => tasks[t].active.session \/ managed[tasks[t].active.run] = "session",
           Save(t, record)
    PROVE  Memory' /\ World' /\ StoreTyped' /\ faults' = faults /\ tasks'[t] = record
           /\ record # None /\ record.active # None
  <1>1. tasks[t] = disk[t]
    BY DEF TasksInv, Memory, Fresh
  <1>2. Wrote(t) /\ disk'[t] = record /\ StoreTyped' /\ faults' = faults
    BY SaveWrites DEF TasksInv, StoreTyped
  <1>3. record # None /\ record.active # None
    BY ManagedAssumption
  <1>4. Evolves(t)
    BY <1>1, <1>2, <1>3 DEF Evolves, Adjusted
  <1>5. tasks'[t] = record
    BY <1>2 DEF Wrote
  <1> QED BY <1>2, <1>3, <1>4, <1>5, SavedWorld

\* The beginning of a stop.
LEMMA StopStep ==
    ASSUME TasksInv, NEW t \in Task, NEW kind \in {"stop", "restart"}, Stop(kind, t)
    PROVE  TasksInv'
  <1> DEFINE record == [tasks[t] EXCEPT !.desired = "stopped"]
  <1>1. /\ up /\ job = None /\ tasks[t] # None /\ tasks[t].active # None
        /\ UNCHANGED <<up, used>> /\ Standing
        /\ \/ Save(t, record) /\ Begin(kind, t, "status")
           \/ SaveFails /\ UNCHANGED job
    BY DEF Stop, Idle, Standing, ctmuxd
  <1>2. TypeOK /\ tasks[t] \in TaskRecord /\ StandingTyped'
    BY <1>1, StandingTypes DEF TasksInv, TypeOK
  <1>3. CASE Save(t, record) /\ Begin(kind, t, "status")
    <2>1. /\ record \in TaskRecord /\ record.active = tasks[t].active
          /\ record.active \in RunRecord
          /\ record.definition = tasks[t].definition /\ record.last = tasks[t].last
      BY <1>1, <1>2 DEF TaskRecord
    <2>2. SameRun(tasks[t].active, record.active)
      BY <2>1 DEF SameRun
    <2> HIDE DEF record
    <2>3. Memory' /\ World' /\ StoreTyped' /\ faults' = faults /\ tasks'[t] = record
          /\ record # None /\ record.active # None
      BY <1>1, <1>3, <2>1, <2>2, AdjustedSaves
    <2>4. /\ job' \in Job /\ job' # None
          /\ job'.kind = kind /\ job'.task = t /\ job'.at = "status"
      BY <1>3, BeginTyped DEF Step
    <2>5. Working' /\ Learned'
      BY <1>1, <2>3, <2>4 DEF Working, Learned, Current, Active, Reconciling, Releases
    <2>6. TypeOK'
      BY <1>2, <2>3, <2>4, TypePartsNext DEF TypeOK
    <2> QED BY <2>3, <2>5, <2>6 DEF TasksInv, World
  <1>4. CASE SaveFails /\ UNCHANGED job
    <2>1. UNCHANGED <<tasks, disk>> /\ faults' \in 0 .. MaxFaults
      BY <1>2, <1>4, FaultTyped DEF SaveFails
    <2>2. Memory' /\ World'
      BY <1>1, <2>1, StillWorld
    <2>3. TypeOK'
      BY <1>1, <1>2, <1>4, <2>1, TypePartsNext DEF TypeOK, StoreTyped
    <2>4. Working' /\ Learned'
      BY <1>1, <1>4, NoJob
    <2> QED BY <2>2, <2>3, <2>4 DEF TasksInv, World
  <1> QED BY <1>1, <1>3, <1>4

(***************************************************************************)
(* Steps of a job.                                                          *)
(***************************************************************************)
\* A save that fails ends the job.
LEMMA FailedStep ==
    ASSUME TasksInv, UNCHANGED <<up, used, tasks, disk>>, Standing, Fault \/ UNCHANGED faults, job' = None
    PROVE  TasksInv'
  <1>1. Memory' /\ World'
    BY StillWorld
  <1>2. StandingTyped' /\ StoreTyped' /\ faults' \in 0 .. MaxFaults
    BY StandingTypes, FaultTyped DEF TasksInv, TypeOK, StoreTyped
  <1>3. TypeOK'
    BY <1>2, TypePartsNext
  <1> QED BY <1>1, <1>3, NoJob DEF TasksInv, World

\* A step to another place, with the records and ctmuxd left alone.
LEMMA GoStep ==
    ASSUME TasksInv, UNCHANGED <<up, used, tasks, disk>>, Standing, Fault \/ UNCHANGED faults,
           job' \in Job, Working', Learned'
    PROVE  TasksInv'
  <1>1. Memory' /\ World'
    BY StillWorld
  <1>2. StandingTyped' /\ StoreTyped' /\ faults' \in 0 .. MaxFaults
    BY StandingTypes, FaultTyped DEF TasksInv, TypeOK, StoreTyped
  <1>3. TypeOK'
    BY <1>2, TypePartsNext
  <1> QED BY <1>1, <1>3 DEF TasksInv, World

\* A job that goes on keeps all but its place.
LEMMA GotoTyped ==
    ASSUME job \in Job, NEW step \in Step, Goto(step)
    PROVE  /\ job' \in Job /\ job' # None /\ job'.at = step /\ job'.task = job.task
           /\ job'.kind = job.kind /\ job'.session = job.session /\ job'.pinned = job.pinned
  BY ManagedAssumption DEF Goto, Job

\* A request costs at most one fault.
LEMMA AskedFaults ==
    ASSUME NEW answer, Asked(answer)
    PROVE  Fault \/ UNCHANGED faults
  BY DEF Asked

\* The end of a removal.
LEMMA FinishRemoveStep ==
    ASSUME TasksInv, job # None, FinishRemove
    PROVE  TasksInv'
  <1>0. TypeOK /\ Memory /\ Working
    BY DEF TasksInv
  <1> DEFINE t == job.task
  <1>1. /\ t \in Task /\ up /\ job.at = "remove" /\ job' = None
        /\ UNCHANGED <<up, used>> /\ Standing
    BY <1>0, JobRecord DEF FinishRemove, Done, Standing, ctmuxd
  <1>2. tasks[t] # None /\ tasks[t].active = None /\ ~Unreleased(tasks[t])
    BY <1>0, <1>1 DEF Working, Current, Active, Reconciling
  <1>3. Quiet(disk[t])
    BY <1>0, <1>1, <1>2 DEF Memory, Quiet
  <1>4. Working' /\ Learned' /\ StandingTyped'
    BY <1>0, <1>1, NoJob, StandingTypes
  <1>5. CASE Save(t, None)
    <2>1. Wrote(t) /\ disk'[t] = None /\ StoreTyped' /\ faults' = faults
      BY <1>0, <1>1, <1>5, SaveWrites DEF StoreTyped
    <2>2. Evolves(t)
      BY <1>3, <2>1 DEF Evolves, Blanked
    <2>3. TypeOK'
      BY <1>0, <1>1, <1>4, <2>1, TypePartsNext DEF TypeOK
    <2> QED BY <1>1, <1>4, <2>1, <2>2, <2>3, SavedWorld DEF TasksInv, World
  <1>6. CASE Fault /\ tasks' = [tasks EXCEPT ![t] = None] /\ UNCHANGED disk
    <2>1. TypeOK'
      <3>1. StoreTyped'
        BY <1>0, <1>6 DEF TypeOK, StoreTyped
      <3> QED BY <1>0, <1>1, <1>4, <1>6, <3>1, FaultTyped, TypePartsNext DEF TypeOK
    <2>2. Memory'
      BY <1>0, <1>1, <1>3, <1>6 DEF TypeOK, Memory, Quiet
    <2>3. World'
      BY <1>1, <1>6, SameEvolves, EvolvesWorld DEF TasksInv, World
    <2> QED BY <1>4, <2>1, <2>2, <2>3 DEF TasksInv, World
  <1> QED BY <1>5, <1>6 DEF FinishRemove

\* A ctmuxd that is started has a new identifier.
LEMMA NewInstanceFresh ==
    ASSUME TypeOK, spent # Instance
    PROVE  NewInstance \in Instance /\ NewInstance \notin spent
  BY DEF TypeOK, NewInstance

\* Starting ctmuxd keeps the types.
LEMMA StartTyped ==
    ASSUME TypeOK, NEW i \in Instance, instance' = i, spent' = spent \cup {i},
           UNCHANGED <<up, used, draining, managed, process, late>>
    PROVE  StandingTyped'
  BY DEF TypeOK, StandingTyped

\* A start connects to ctmuxd, which may have to be started.
LEMMA ConnectStep ==
    ASSUME TasksInv, job # None, Connect
    PROVE  TasksInv'
  <1>0. TypeOK /\ Memory /\ Working /\ World
    BY DEF TasksInv, World
  <1> DEFINE step == IF Unreleased(Current) THEN "releaseStatus" ELSE "pin"
  <1>1. /\ job \in Job /\ job.task \in Task /\ up /\ job.at = "connect"
        /\ UNCHANGED <<up, tasks, disk, used, late, faults>>
    BY <1>0, JobRecord DEF Connect
  <1>2. Current # None /\ Active = None /\ job.kind = "start"
    BY <1>0, <1>1 DEF Working, Reconciling
  <1>3. ASSUME NEW h \in Instance, job' = [job EXCEPT !.hold = h, !.at = step]
        PROVE  job' \in Job /\ Working' /\ Learned'
    <2>1. job' \in Job /\ job' # None /\ job'.at = step /\ job'.task = job.task /\ job'.kind = "start"
      BY <1>1, <1>2, <1>3, ManagedAssumption DEF Job, Step
    <2>2. Current' = Current /\ Active' = Active
      BY <1>1, <2>1 DEF Current, Active
    <2> QED BY <1>1, <1>2, <2>1, <2>2 DEF Working, Learned, Reconciling, Releases, Unreleased
  <1>4. CASE instance # None /\ job' = [job EXCEPT !.hold = instance, !.at = step] /\ UNCHANGED ctmuxd
    <2>1. instance \in Instance /\ Standing
      BY <1>0, <1>1, <1>4 DEF TypeOK, Standing, ctmuxd
    <2>2. job' \in Job /\ Working' /\ Learned'
      BY <1>3, <1>4, <2>1
    <2> QED BY <1>1, <2>1, <2>2, GoStep
  <1>5. CASE /\ instance = None /\ spent # Instance
             /\ instance' = NewInstance /\ spent' = spent \cup {NewInstance}
             /\ job' = [job EXCEPT !.hold = NewInstance, !.at = step]
             /\ UNCHANGED <<draining, managed, process>>
    <2>1. NewInstance \in Instance /\ NewInstance \notin spent
      BY <1>0, <1>5, NewInstanceFresh
    <2>2. job' \in Job /\ Working' /\ Learned'
      BY <1>3, <1>5, <2>1
    <2>3. World'
      BY <1>0, <1>1, <1>5, <2>1, StartWorld DEF Kept
    <2>4. Memory'
      BY <1>0, <1>1 DEF Memory
    <2>5. StandingTyped' /\ StoreTyped'
      BY <1>0, <1>1, <1>5, <2>1, StartTyped DEF TypeOK, StoreTyped
    <2>6. TypeOK'
      BY <1>0, <1>1, <2>2, <2>5, TypePartsNext DEF TypeOK
    <2> QED BY <2>2, <2>3, <2>4, <2>6 DEF TasksInv, World
  <1>6. CASE Done /\ UNCHANGED ctmuxd
    BY <1>1, <1>6, FailedStep DEF Done, Standing, ctmuxd
  <1> QED BY <1>4, <1>5, <1>6 DEF Connect

\* It remembers the instance.
LEMMA PinStep ==
    ASSUME TasksInv, job # None, Pin
    PROVE  TasksInv'
  <1>0. TypeOK /\ Memory /\ Working /\ World
    BY DEF TasksInv, World
  <1>1. /\ job \in Job /\ job.task \in Task /\ up /\ job.at = "pin"
        /\ UNCHANGED <<up, tasks, disk, used>> /\ Standing
        /\ Fault \/ UNCHANGED faults
    BY <1>0, JobRecord, AskedFaults DEF Pin, Standing, ctmuxd
  <1>2. Current # None /\ Active = None /\ job.kind = "start" /\ ~Unreleased(Current)
    BY <1>0, <1>1 DEF Working, Reconciling
  <1>3. CASE Asked("observed") /\ job' = [job EXCEPT !.at = "intend", !.pinned = instance]
    <2>1. instance \in Instance /\ instance \in spent /\ instance # None
      BY <1>0, <1>3 DEF Asked, TypeOK, World, Managing
    <2>2. /\ job' \in Job /\ job' # None /\ job'.at = "intend" /\ job'.task = job.task
          /\ job'.kind = "start" /\ job'.pinned = instance
      BY <1>1, <1>2, <1>3, <2>1, ManagedAssumption DEF Job, Step
    <2>3. Current' = Current /\ Active' = Active /\ spent' = spent
      BY <1>1, <2>2 DEF Current, Active, Standing
    <2>4. Working' /\ Learned'
      BY <1>1, <1>2, <2>1, <2>2, <2>3 DEF Working, Learned, Reconciling, Releases, Unreleased
    <2> QED BY <1>1, <2>2, <2>4, GoStep
  <1>4. CASE Done
    BY <1>1, <1>4, FailedStep DEF Done
  <1> QED BY <1>3, <1>4 DEF Pin

\* It saves the intent to run before anything is sent.
LEMMA IntendStep ==
    ASSUME TasksInv, job # None, Intend
    PROVE  TasksInv'
  <1>0. TypeOK /\ Memory /\ Working /\ World
    BY DEF TasksInv, World
  <1> DEFINE t == job.task
             r == NewRun
             run == [run |-> NewRun, instance |-> job.pinned,
                     definition |-> Current.definition, session |-> FALSE,
                     state |-> "starting", code |-> None, released |-> FALSE]
             record == [Current EXCEPT !.desired = "running", !.active = run]
  <1>1. /\ job \in Job /\ t \in Task /\ up /\ job.at = "intend" /\ Current \in TaskRecord
        /\ UNCHANGED up /\ Standing
    BY <1>0, JobRecord DEF Intend, Standing, ctmuxd
  <1>2. /\ Current # None /\ Active = None /\ job.kind = "start" /\ ~Unreleased(Current)
        /\ job.pinned \in Instance /\ job.pinned \in spent
    BY <1>0, <1>1 DEF Working, Reconciling, Job
  <1>3. CASE /\ \E s \in Run : used[s] = None
             /\ used' = [used EXCEPT ![NewRun] = t]
             /\ Save(t, record)
             /\ job' = [job EXCEPT !.at = "status", !.pinned = None]
    <2>1. r \in Run /\ used[r] = None
      BY <1>3 DEF NewRun
    <2>2. /\ run \in RunRecord /\ run.run = r /\ run.instance = job.pinned
          /\ run.definition = Current.definition /\ ~run.session /\ ~run.released
      BY <1>1, <1>2, <2>1 DEF RunRecord, TaskRecord
    <2> HIDE DEF run
    <2>3. /\ record \in TaskRecord /\ record.active = run
          /\ record.definition = Current.definition /\ record.last = Current.last
      BY <1>1, <2>2 DEF TaskRecord
    <2> HIDE DEF record
    <2>4. record # None /\ run # None
      BY <2>2, <2>3, ManagedAssumption
    <2>5. Wrote(t) /\ disk'[t] = record /\ StoreTyped' /\ faults' = faults
      BY <1>0, <1>1, <1>3, <2>3, SaveWrites DEF StoreTyped
    <2>6. Quiet(disk[t])
      BY <1>0, <1>1, <1>2 DEF Memory, Current, Active, Quiet
    <2>7. record.last # None => disk[t] # None /\ record.last = disk[t].last
      BY <1>0, <1>1, <1>2, <2>3 DEF Memory, Current, Fresh
    <2>8. \A u \in Task : u # t => disk'[u] = disk[u] \/ Blanked(disk[u], disk'[u])
      BY <1>0, <1>1, <2>5, WroteOthers
    <2>9. used'[r] = t /\ \A s \in Run : s # r => used'[s] = used[s]
      BY <1>0, <1>3, <2>1 DEF TypeOK
    <2>10. Began(t, r, job.pinned)
      BY <1>2, <2>1, <2>2, <2>3, <2>4, <2>5, <2>6, <2>7, <2>8, <2>9 DEF Began
    <2>11. World'
      BY <1>0, <1>1, <1>2, <2>1, <2>10, BeganWorld
    <2>12. Memory'
      BY <1>0, <1>1, <2>5, WroteMemory
    <2>13. job' \in Job /\ job' # None /\ job'.at = "status" /\ job'.task = t /\ job'.kind = "start"
      BY <1>1, <1>2, <1>3, ManagedAssumption DEF Job, Step
    <2>14. tasks'[t] = record
      BY <2>5 DEF Wrote
    <2>15. Working' /\ Learned'
      BY <1>1, <2>3, <2>4, <2>13, <2>14 DEF Working, Learned, Current, Active, Reconciling, Releases
    <2>16. StandingTyped'
      BY <1>0, <1>1, <1>3 DEF TypeOK, StandingTyped, Standing
    <2>17. TypeOK'
      BY <1>0, <2>5, <2>13, <2>16, TypePartsNext DEF TypeOK
    <2> QED BY <2>11, <2>12, <2>15, <2>17 DEF TasksInv, World
  <1>4. CASE SaveFails /\ Done /\ UNCHANGED used
    BY <1>1, <1>4, FailedStep DEF SaveFails, Done
  <1> QED BY <1>3, <1>4 DEF Intend

\* The session that ctmuxd reports for a run of the instance that serves.
LEMMA ReportedTyped ==
    ASSUME TypeOK, Managing, NEW r \in Run, instance # None
    PROVE  /\ Reported(r) \in {Absent, "running"} \cup Outcome
           /\ Reported(r) = Absent <=> managed[r] # "session"
           /\ managed[r] = "session" /\ Reported(r) # "running" => process[r][instance] = Reported(r)
           /\ managed[r] = "session" /\ process[r][instance] = "running" => Reported(r) = "running"
  BY DEF Reported, Managing, Live, Absent, Outcome

\* The status of the active run is asked for.
LEMMA StatusStep ==
    ASSUME TasksInv, job # None, Status
    PROVE  TasksInv'
  <1>0. TypeOK /\ Memory /\ Working /\ World
    BY DEF TasksInv, World
  <1>1. /\ job \in Job /\ job.task \in Task /\ up /\ job.at = "status"
        /\ UNCHANGED <<up, tasks, disk, used>> /\ Standing
        /\ Fault \/ UNCHANGED faults
    BY <1>0, JobRecord, AskedFaults DEF Status, Standing, ctmuxd
  <1>2. /\ Current # None /\ Active # None /\ job.kind # "remove"
        /\ Active \in RunRecord /\ disk[job.task] = Current
    BY <1>0, <1>1, JobRecord DEF Working, Reconciling
  <1>3. Active.run \in Run /\ Active.instance \in Instance /\ Active.instance # None
    BY <1>2, ManagedAssumption DEF RunRecord
  <1>4. ASSUME NEW step \in Reconciling, step # "status", job' \in Job, job' # None, job'.at = step,
               job'.task = job.task, job'.kind = job.kind
        PROVE  Working' /\ Current' = Current /\ Active' = Active
    <2>1. Current' = Current /\ Active' = Active
      BY <1>1, <1>4 DEF Current, Active
    <2> QED BY <1>1, <1>2, <1>4, <2>1 DEF Working, Reconciling, Releases
  <1>5. CASE instance # Active.instance /\ Goto("lost")
    <2>1. job' \in Job /\ job' # None /\ job'.at = "lost" /\ job'.task = job.task /\ job'.kind = job.kind
      BY <1>1, <1>5, GotoTyped DEF Step
    <2>2. Working' /\ Active' = Active
      BY <1>4, <2>1 DEF Reconciling
    <2>3. Learned'
      BY <1>1, <1>5, <2>1, <2>2 DEF Learned, Standing
    <2> QED BY <1>1, <2>1, <2>2, <2>3, GoStep
  <1>6. CASE Goto("unknown")
    <2>1. job' \in Job /\ job' # None /\ job'.at = "unknown" /\ job'.task = job.task /\ job'.kind = job.kind
      BY <1>1, <1>6, GotoTyped DEF Step
    <2>2. Working'
      BY <1>4, <2>1 DEF Reconciling
    <2>3. Learned'
      BY <2>1 DEF Learned
    <2> QED BY <1>1, <2>1, <2>2, <2>3, GoStep
  <1>7. CASE /\ Asked("observed") /\ instance = Active.instance
             /\ job' = [job EXCEPT !.at = IF Wanted(Reported(Active.run)) = None
                                          THEN "record" ELSE "operate",
                                   !.session = Reported(Active.run)]
    <2> DEFINE session == Reported(Active.run)
    <2>1. /\ session \in {Absent, "running"} \cup Outcome
          /\ session = Absent <=> managed[Active.run] # "session"
          /\ managed[Active.run] = "session" /\ session # "running"
               => process[Active.run][instance] = session
      BY <1>0, <1>3, <1>7, ReportedTyped DEF World
    <2> HIDE DEF session
    <2>2. /\ job' \in Job /\ job' # None /\ job'.task = job.task /\ job'.kind = job.kind
          /\ job'.session = session
          /\ job'.at = IF Wanted(session) = None THEN "record" ELSE "operate"
      <3> DEFINE step == IF Wanted(session) = None THEN "record" ELSE "operate"
      <3>1. job' = [job EXCEPT !.at = step, !.session = session]
        BY <1>7 DEF session
      <3>2. step \in Step /\ job \in Job
        BY <1>1 DEF Step
      <3> HIDE DEF step
      <3>3. /\ job' \in Job /\ job'.task = job.task /\ job'.kind = job.kind
            /\ job'.session = session /\ job'.at = step
        BY <2>1, <3>1, <3>2 DEF Job
      <3>4. job' # None
        BY <3>3, ManagedAssumption
      <3> QED BY <3>3, <3>4 DEF step
    <2>3. Working' /\ Current' = Current /\ Active' = Active
      BY <1>4, <2>2 DEF Reconciling
    <2>4. Wanted(job.session)' = Wanted(session)
      BY <2>2, <2>3 DEF Wanted
    <2>5. Serving(Active.instance)
      BY <1>7 DEF Asked, Serving
    <2>6. Wanted(session) = None => session # Absent
      <3>1. Wanted(session) = None /\ session = Absent => Active.session
        BY ManagedAssumption DEF Wanted
      <3>2. Active.session => managed[Active.run] = "session"
        BY <1>0, <1>1, <1>2, <2>5 DEF World, Seen, Active
      <3> QED BY <2>1, <3>1, <3>2
    <2>7. Learned'
      <3>1. CASE Wanted(session) = None
        <4>1. job'.at = "record" /\ session # Absent
          BY <2>2, <2>6, <3>1
        <4>2. UNCHANGED <<managed, process>>
          BY <1>1 DEF Standing
        <4> QED BY <1>7, <2>1, <2>2, <2>3, <4>1, <4>2 DEF Learned
      <3>2. CASE Wanted(session) # None
        BY <2>2, <2>4, <3>2 DEF Learned
      <3> QED BY <3>1, <3>2
    <2> QED BY <1>1, <2>2, <2>3, <2>7, GoStep
  <1> QED BY <1>3, <1>5, <1>6, <1>7 DEF Status, Asked

\* The operation of a job is one that may be executed.
LEMMA OperationFounded ==
    ASSUME TasksInv, job # None, job.at = "operate"
    PROVE  Founded(Operation) /\ Operation.op \in {"start", "stop"} /\ Operation.run = Active.run
           /\ Operation.instance = Active.instance
           /\ (Operation.op = "start" => ~Active.session)
  <1>0. TypeOK /\ Memory /\ Working /\ World /\ Learned
    BY DEF TasksInv, World
  <1>1. /\ job.task \in Task /\ Active \in RunRecord /\ disk[job.task] = Current
        /\ Current \in TaskRecord /\ Active # None /\ Current # None
    BY <1>0, JobRecord DEF Reconciling
  <1>2. Wanted(job.session) \in {"start", "stop"} /\ (Wanted(job.session) = "start" => ~Active.session)
    BY <1>0 DEF Learned, Wanted
  <1>3. /\ Operation \in Request /\ Operation.op = Wanted(job.session)
        /\ Operation.run = Active.run /\ Operation.instance = Active.instance
        /\ Operation.definition = Current.definition
    BY <1>1, <1>2 DEF Operation, Request, RunRecord, TaskRecord
  <1>4. Claims(Operation.run, Operation.instance)
    BY <1>1, <1>3 DEF Claims, OnRecord, Active
  <1>5. ASSUME NEW t \in Task, disk[t] # None, disk[t].active # None, disk[t].active.run = Active.run
        PROVE  Current.definition = disk[t].active.definition
    BY <1>0, <1>1, <1>5 DEF World, Records, Active
  <1> QED BY <1>2, <1>3, <1>4, <1>5 DEF Founded

\* Serving a request keeps the types.
LEMMA ExecuteTyped ==
    ASSUME TypeOK, NEW q \in Request, Accepts(q), Execute(q), UNCHANGED <<up, used>>, late' \subseteq Request
    PROVE  StandingTyped'
  BY DEF TypeOK, StandingTyped, Accepts, Execute, Request

\* The operation that is wanted is sent.
LEMMA OperateStep ==
    ASSUME TasksInv, job # None, Operate
    PROVE  TasksInv'
  <1>0. TypeOK /\ Memory /\ Working /\ World
    BY DEF TasksInv, World
  <1> DEFINE q == Operation
  <1>1. /\ job \in Job /\ job.task \in Task /\ up /\ job.at = "operate"
        /\ UNCHANGED <<up, tasks, disk, used>>
    BY <1>0, JobRecord DEF Operate
  <1>2. /\ Current # None /\ Active # None /\ job.kind # "remove" /\ Active \in RunRecord
    BY <1>0, <1>1, JobRecord DEF Working, Reconciling
  <1>3. Active.run \in Run /\ Active.instance \in Instance /\ Active.instance # None
    BY <1>2, ManagedAssumption DEF RunRecord
  <1>4. /\ Founded(q) /\ q.op \in {"start", "stop"} /\ q.run = Active.run
        /\ q.instance = Active.instance /\ (q.op = "start" => ~Active.session)
        /\ q \in Request
    BY <1>1, OperationFounded DEF Founded
  <1> HIDE DEF q
  <1>5. ASSUME NEW step \in Reconciling, job' \in Job, job' # None, job'.at = step,
               job'.task = job.task, job'.kind = job.kind
        PROVE  Working' /\ Current' = Current /\ Active' = Active
    <2>1. Current' = Current /\ Active' = Active
      BY <1>1, <1>5 DEF Current, Active
    <2> QED BY <1>1, <1>2, <1>5, <2>1 DEF Working, Reconciling, Releases
  <1>6. Memory' /\ StoreTyped' /\ Kept
    BY <1>0, <1>1 DEF Memory, TypeOK, StoreTyped, Kept
  <1>7. ASSUME NEW step \in {"lost", "refused", "unknown"}, Goto(step),
               step = "refused" => ~Active.session,
               step = "lost" => instance' # Active.instance
        PROVE  job' \in Job /\ Working' /\ Learned'
    <2>1. job' \in Job /\ job' # None /\ job'.at = step /\ job'.task = job.task /\ job'.kind = job.kind
      BY <1>1, <1>7, GotoTyped DEF Step
    <2>2. Working' /\ Active' = Active
      BY <1>5, <2>1 DEF Reconciling
    <2> QED BY <1>7, <2>1, <2>2 DEF Learned
  <1>8. CASE instance = None /\ Goto("lost") /\ UNCHANGED <<ctmuxd, late, faults>>
    <2>1. Standing /\ instance' = None
      BY <1>8 DEF Standing, ctmuxd
    <2> QED BY <1>1, <1>3, <1>7, <1>8, <2>1, GoStep
  <1>9. CASE /\ instance # None /\ Accepts(q) /\ Execute(q)
             /\ \/ job' = [job EXCEPT !.at = "record", !.session = Answer(q)] /\ UNCHANGED faults
                \/ Fault /\ Goto("unknown")
             /\ UNCHANGED late
    <2>1. World'
      BY <1>0, <1>4, <1>6, <1>9, ExecuteWorld
    <2>2. StandingTyped' /\ faults' \in 0 .. MaxFaults
      BY <1>0, <1>1, <1>4, <1>9, ExecuteTyped, FaultTyped DEF TypeOK
    <2>3. CASE Goto("unknown")
      BY <1>6, <1>7, <2>1, <2>2, <2>3, TypePartsNext DEF TasksInv, World
    <2>4. CASE job' = [job EXCEPT !.at = "record", !.session = Answer(q)]
      <3>1. /\ Reported(q.run) \in {Absent, "running"} \cup Outcome
            /\ Reported(q.run) = Absent <=> managed[q.run] # "session"
            /\ managed[q.run] = "session" /\ Reported(q.run) # "running"
                 => process[q.run][instance] = Reported(q.run)
            /\ managed[q.run] = "session" /\ process[q.run][instance] = "running"
                 => Reported(q.run) = "running"
        BY <1>0, <1>3, <1>4, <1>9, ReportedTyped DEF World
      <3>2. Answer(q) = IF q.op = "start" /\ managed[q.run] # "session" THEN "running" ELSE Reported(q.run)
        BY <1>4 DEF Answer
      <3>3. Answer(q) \in {Absent, "running"} \cup Outcome
        BY <3>1, <3>2
      <3>4. /\ job' \in Job /\ job' # None /\ job'.at = "record" /\ job'.task = job.task
            /\ job'.kind = job.kind /\ job'.session = Answer(q)
        BY <1>1, <2>4, <3>3, ManagedAssumption DEF Job, Step
      <3>5. Working' /\ Active' = Active
        BY <1>5, <3>4 DEF Reconciling
      <3>6. Serving(q.instance) /\ SameInstance /\ instance = q.instance
        BY <1>0, <1>4, <1>9, ExecuteOutcomes DEF World, Serving
      <3>7. /\ managed'[q.run] = IF q.op = "start" \/ managed[q.run] = "session" THEN "session" ELSE Retired
            /\ process'[q.run][q.instance] =
                 IF q.op = "start" /\ managed[q.run] # "session" THEN "running"
                 ELSE IF q.op = "stop" /\ managed[q.run] = "session"
                         /\ process[q.run][q.instance] = "running" THEN "killed"
                 ELSE process[q.run][q.instance]
        BY <1>0, <1>3, <1>4, <1>9, <3>6 DEF Execute, TypeOK
      <3>8. IF Answer(q) = Absent THEN managed'[q.run] = Retired
            ELSE /\ managed'[q.run] = "session"
                 /\ Answer(q) # "running" => process'[q.run][q.instance] = Answer(q)
        <4>1. CASE q.op = "start" /\ managed[q.run] # "session"
          BY <3>2, <3>7, <4>1 DEF Absent
        <4>2. CASE managed[q.run] = "session"
          BY <3>1, <3>2, <3>6, <3>7, <4>2
        <4>3. CASE q.op = "stop" /\ managed[q.run] # "session"
          BY <3>1, <3>2, <3>7, <4>3
        <4> QED BY <1>4, <4>1, <4>2, <4>3
      <3>9. Learned'
        BY <1>4, <3>4, <3>5, <3>8 DEF Learned
      <3> QED BY <1>6, <2>1, <2>2, <3>4, <3>5, <3>9, TypePartsNext DEF TasksInv, World
    <2> QED BY <1>9, <2>3, <2>4
  <1>10. CASE /\ instance # None /\ (UNCHANGED faults \/ Fault)
              /\ Goto(IF q.op = "start" THEN "refused" ELSE "unknown")
              /\ UNCHANGED <<ctmuxd, late>>
    <2>1. Standing
      BY <1>10 DEF Standing, ctmuxd
    <2>2. job' \in Job /\ Working' /\ Learned'
      BY <1>4, <1>7, <1>10
    <2> QED BY <1>1, <1>10, <2>1, <2>2, GoStep
  <1>11. CASE /\ Fault /\ late' = late \cup {q} /\ Goto("unknown") /\ UNCHANGED ctmuxd
    <2>1. World'
      BY <1>0, <1>4, <1>6, <1>11, LeftWorld DEF SameInstance, ctmuxd
    <2>2. job' \in Job /\ Working' /\ Learned'
      BY <1>7, <1>11
    <2>3. StandingTyped' /\ faults' \in 0 .. MaxFaults
      BY <1>0, <1>1, <1>4, <1>11, FaultTyped DEF TypeOK, StandingTyped, ctmuxd
    <2> QED BY <1>6, <2>1, <2>2, <2>3, TypePartsNext DEF TasksInv, World
  <1> QED BY <1>8, <1>9, <1>10, <1>11 DEF Operate, q

(***************************************************************************)
(* The records of what a job learned.                                       *)
(***************************************************************************)
\* Where a job goes when reconcile_one returns.
LEMMA ReturnJob ==
    ASSUME job \in Job, job.kind # "remove", NEW active, Return(active)
    PROVE  \/ job' = None
           \/ /\ job' \in Job /\ job' # None /\ job'.task = job.task
              /\ \/ active # None /\ job'.at = "status" /\ job'.kind = job.kind
                 \/ active = None /\ job'.at = "connect" /\ job'.kind = "start"
  <1>1. job.kind \in {"reconcile", "start", "stop", "restart"}
    BY DEF Job
  <1>2. Done => job' = None
    BY DEF Done
  <1>3. ASSUME NEW kind \in {"reconcile", "start", "stop", "restart"}, NEW step \in Step,
               job' = [job EXCEPT !.kind = kind, !.at = step, !.session = Absent]
        PROVE  /\ job' \in Job /\ job' # None /\ job'.task = job.task
               /\ job'.at = step /\ job'.kind = kind
    BY <1>3, ManagedAssumption DEF Job
  <1>4. Again("status") => job' = [job EXCEPT !.kind = job.kind, !.at = "status", !.session = Absent]
    BY DEF Again, Job
  <1>5. "status" \in Step /\ "connect" \in Step
    BY DEF Step
  <1> QED BY <1>1, <1>2, <1>3, <1>4, <1>5 DEF Return

\* What complete_interactive leaves.
LEMMA CompletedRecord ==
    ASSUME TypeOK, Memory, Working, job # None, job.at \in Reconciling, NEW code \in Outcome \cup {None}
    PROVE  /\ Completed(code) \in TaskRecord /\ Completed(code) # None
           /\ Completed(code).active = None
           /\ Completed(code).last \in RunRecord /\ Completed(code).last # None
           /\ SameRun(Active, Completed(code).last)
           /\ Completed(code).last.code = code
           /\ Completed(code).last.session = (Active.session \/ (job.at = "record" /\ job.session # Absent))
  <1>1. Current \in TaskRecord /\ Active \in RunRecord
    BY JobRecord
  <1> DEFINE told == Active.session \/ (job.at = "record" /\ job.session # Absent)
             state == IF Current.desired = "stopped" THEN "stopped"
                      ELSE IF code = "success" THEN "completed" ELSE "failed"
             last == [Active EXCEPT !.code = code, !.session = told, !.state = state]
  <1>2. told \in BOOLEAN /\ state \in {"stopped", "completed", "failed"}
    BY <1>1 DEF RunRecord
  <1>3. Completed(code) = [Current EXCEPT !.active = None, !.desired = "stopped", !.last = last]
    BY <1>1 DEF Completed, RunRecord
  <1> HIDE DEF told, state
  <1>4. last \in RunRecord /\ SameRun(Active, last) /\ last.code = code /\ last.session = told
    BY <1>1, <1>2 DEF RunRecord, SameRun
  <1> HIDE DEF last
  <1>5. Completed(code) \in TaskRecord /\ Completed(code).active = None /\ Completed(code).last = last
    BY <1>1, <1>3, <1>4 DEF TaskRecord
  <1> QED BY <1>4, <1>5, ManagedAssumption DEF told

\* A run that ends, with what its record must say if ctmuxd still serves it.
LEMMA CompletedSaves ==
    ASSUME TasksInv, job # None, job.at \in Reconciling, UNCHANGED <<up, used>>, Standing,
           NEW code \in Outcome \cup {None}, Save(job.task, Completed(code)),
           Completed(code).last.session /\ Serving(Active.instance) =>
             \/ managed[Active.run] = Retired
             \/ /\ managed[Active.run] = "session" /\ code \in Outcome
                /\ process[Active.run][Active.instance] = code
    PROVE  /\ Memory' /\ World' /\ StoreTyped' /\ StandingTyped' /\ faults' \in 0 .. MaxFaults
           /\ tasks'[job.task] # None /\ tasks'[job.task].active = None
  <1>0. TypeOK /\ Memory /\ Working
    BY DEF TasksInv
  <1>1. job.task \in Task /\ up /\ disk[job.task] = Current /\ Active # None /\ Current # None
    BY <1>0, JobRecord
  <1> DEFINE record == Completed(code)
  <1>2. /\ record \in TaskRecord /\ record # None /\ record.active = None
        /\ record.last # None /\ SameRun(Active, record.last) /\ record.last.code = code
    BY <1>0, CompletedRecord
  <1>3. Save(job.task, record) /\
        (record.last.session /\ Serving(Active.instance) =>
             \/ managed[Active.run] = Retired
             \/ /\ managed[Active.run] = "session" /\ code \in Outcome
                /\ process[Active.run][Active.instance] = code)
    OBVIOUS
  <1> HIDE DEF record
  <1>4. Wrote(job.task) /\ disk'[job.task] = record /\ StoreTyped' /\ faults' = faults
    BY <1>0, <1>1, <1>2, <1>3, SaveWrites DEF StoreTyped
  <1>5. Evolves(job.task)
    BY <1>1, <1>2, <1>3, <1>4 DEF Evolves, Ended, Active
  <1>6. Memory' /\ World'
    BY <1>1, <1>4, <1>5, SavedWorld
  <1>7. tasks'[job.task] = record
    BY <1>4 DEF Wrote
  <1> QED BY <1>0, <1>2, <1>4, <1>6, <1>7, StandingTypes DEF TypeOK

\* The job after a record was saved.
LEMMA ReturnStep ==
    ASSUME job \in Job, job.kind # "remove", up', UNCHANGED spent,
           tasks'[job.task] # None, NEW active, active = tasks'[job.task].active,
           Return(active)
    PROVE  job' \in Job \cup {None} /\ Working' /\ Learned'
  <1>1. CASE job' = None
    BY <1>1, NoJob
  <1>2. CASE /\ job' \in Job /\ job' # None /\ job'.task = job.task
             /\ \/ active # None /\ job'.at = "status" /\ job'.kind = job.kind
                \/ active = None /\ job'.at = "connect" /\ job'.kind = "start"
    BY <1>2 DEF Working, Learned, Current, Active, Reconciling, Releases
  <1> QED BY <1>1, <1>2, ReturnJob

\* The answer is recorded.
LEMMA RecordStep ==
    ASSUME TasksInv, job # None, Record
    PROVE  TasksInv'
  <1>0. TypeOK /\ Memory /\ Working /\ Learned
    BY DEF TasksInv
  <1> DEFINE running == [Current EXCEPT !.active.state = "running", !.active.session = TRUE]
             code == IF job.session = Absent THEN None ELSE job.session
             record == IF job.session = "running" THEN running ELSE Completed(code)
  <1>1. /\ job \in Job /\ job.task \in Task /\ up /\ job.at = "record"
        /\ UNCHANGED <<up, used>> /\ Standing
        /\ \/ Save(job.task, record) /\ Return(record.active)
           \/ SaveFails /\ Done
    BY <1>0, JobRecord DEF Record, Standing, ctmuxd
  <1>2. /\ Current # None /\ Active # None /\ job.kind # "remove" /\ Active \in RunRecord
        /\ Current \in TaskRecord /\ job.at \in Reconciling
    BY <1>0, <1>1, JobRecord DEF Working, Reconciling
  <1>3. CASE SaveFails /\ Done
    BY <1>1, <1>3, FailedStep DEF SaveFails, Done
  <1>4. CASE Save(job.task, record) /\ Return(record.active) /\ job.session = "running"
    <2>1. Save(job.task, running) /\ Return(running.active)
      BY <1>4
    <2>2. /\ running \in TaskRecord /\ running.active \in RunRecord
          /\ running.definition = Current.definition /\ running.last = Current.last
          /\ SameRun(Active, running.active)
      BY <1>2 DEF TaskRecord, RunRecord, SameRun, Active
    <2> HIDE DEF running
    <2>3. Serving(Active.instance) => managed[Active.run] = "session"
      BY <1>0, <1>1, <1>4 DEF Learned, Absent
    <2>4. Memory' /\ World' /\ StoreTyped' /\ faults' = faults /\ tasks'[job.task] = running
          /\ running # None /\ running.active # None
      BY <1>1, <1>2, <2>1, <2>2, <2>3, AdjustedSaves DEF Current, Active
    <2>5. job' \in Job \cup {None} /\ Working' /\ Learned'
      BY <1>1, <1>2, <2>1, <2>4, ReturnStep DEF Standing
    <2>6. TypeOK'
      BY <1>0, <1>1, <2>4, <2>5, StandingTypes, TypePartsNext DEF TypeOK
    <2> QED BY <2>4, <2>5, <2>6 DEF TasksInv, World
  <1>5. CASE Save(job.task, record) /\ Return(record.active) /\ job.session # "running"
    <2>1. Save(job.task, Completed(code)) /\ Return(Completed(code).active)
      BY <1>5
    <2>2. job.session \in {Absent} \cup Outcome /\ code \in Outcome \cup {None}
      BY <1>1, <1>5 DEF Job
    <2>3. Serving(Active.instance) =>
             \/ managed[Active.run] = Retired
             \/ /\ managed[Active.run] = "session" /\ code \in Outcome
                /\ process[Active.run][Active.instance] = code
      BY <1>0, <1>1, <1>5, <2>2 DEF Learned
    <2> HIDE DEF code
    <2>4. /\ Memory' /\ World' /\ StoreTyped' /\ StandingTyped' /\ faults' \in 0 .. MaxFaults
          /\ tasks'[job.task] # None /\ tasks'[job.task].active = None
      BY <1>1, <1>2, <2>1, <2>2, <2>3, CompletedSaves
    <2>5. Completed(code).active = None
      BY <1>0, <1>2, <2>2, CompletedRecord
    <2>6. job' \in Job \cup {None} /\ Working' /\ Learned'
      BY <1>1, <1>2, <2>1, <2>4, <2>5, ReturnStep DEF Standing
    <2>7. TypeOK'
      BY <2>4, <2>6, TypePartsNext
    <2> QED BY <2>4, <2>6, <2>7 DEF TasksInv, World
  <1> QED BY <1>1, <1>3, <1>4, <1>5

\* A run whose instance is gone is recorded as lost.
LEMMA LoseStep ==
    ASSUME TasksInv, job # None, Lose \/ Refuse
    PROVE  TasksInv'
  <1>0. TypeOK /\ Memory /\ Working /\ Learned
    BY DEF TasksInv
  <1>1. /\ job \in Job /\ job.task \in Task /\ up /\ job.at \in {"lost", "refused"}
        /\ UNCHANGED <<up, used>> /\ Standing
        /\ \/ Save(job.task, Completed(None)) /\ (Return(None) \/ Done)
           \/ SaveFails /\ Done
    BY <1>0, JobRecord DEF Lose, Refuse, Standing, ctmuxd
  <1>2. /\ Current # None /\ Active # None /\ job.kind # "remove" /\ Active \in RunRecord
        /\ job.at \in Reconciling
    BY <1>0, <1>1, JobRecord DEF Working, Reconciling
  <1>3. CASE SaveFails /\ Done
    BY <1>1, <1>3, FailedStep DEF SaveFails, Done
  <1>4. CASE Save(job.task, Completed(None)) /\ (Return(None) \/ Done)
    <2>1. ~(Completed(None).last.session /\ Serving(Active.instance))
      <3>1. Completed(None).last.session = Active.session
        BY <1>0, <1>1, <1>2, CompletedRecord DEF RunRecord
      <3>2. CASE job.at = "lost"
        BY <1>0, <3>2 DEF Learned, Serving
      <3>3. CASE job.at = "refused"
        BY <1>0, <3>1, <3>3 DEF Learned
      <3> QED BY <1>1, <3>2, <3>3
    <2>2. /\ Memory' /\ World' /\ StoreTyped' /\ StandingTyped' /\ faults' \in 0 .. MaxFaults
          /\ tasks'[job.task] # None /\ tasks'[job.task].active = None
      BY <1>1, <1>2, <1>4, <2>1, CompletedSaves
    <2>3. job' \in Job \cup {None} /\ Working' /\ Learned'
      <3>1. CASE Return(None)
        BY <1>1, <1>2, <2>2, <3>1, ReturnStep DEF Standing
      <3>2. CASE Done
        BY <3>2, NoJob DEF Done
      <3> QED BY <1>4, <3>1, <3>2
    <2>4. TypeOK'
      BY <2>2, <2>3, TypePartsNext
    <2> QED BY <2>2, <2>3, <2>4 DEF TasksInv, World
  <1> QED BY <1>1, <1>3, <1>4

\* A run whose start is refused or in doubt.
LEMMA DoubtStep ==
    ASSUME TasksInv, job # None, Doubt
    PROVE  TasksInv'
  <1>0. TypeOK /\ Memory /\ Working
    BY DEF TasksInv
  <1> DEFINE record == [Current EXCEPT !.active.state = "unknown"]
  <1>1. /\ job \in Job /\ job.task \in Task /\ up /\ job.at = "unknown" /\ job' = None
        /\ UNCHANGED <<up, used>> /\ Standing
        /\ Save(job.task, record) \/ SaveFails
    BY <1>0, JobRecord DEF Doubt, Done, Standing, ctmuxd
  <1>2. /\ Current # None /\ Active # None /\ Active \in RunRecord /\ Current \in TaskRecord
    BY <1>0, <1>1, JobRecord DEF Working, Reconciling
  <1>3. CASE SaveFails
    BY <1>1, <1>3, FailedStep DEF SaveFails
  <1>4. CASE Save(job.task, record)
    <2>1. /\ record \in TaskRecord /\ record.active \in RunRecord
          /\ record.definition = Current.definition /\ record.last = Current.last
          /\ SameRun(Active, record.active) /\ record.active.session = Active.session
      BY <1>2 DEF TaskRecord, RunRecord, SameRun, Active
    <2> HIDE DEF record
    <2>2. Memory' /\ World' /\ StoreTyped' /\ faults' = faults
      BY <1>1, <1>2, <1>4, <2>1, AdjustedSaves DEF Current, Active
    <2>3. TypeOK'
      BY <1>0, <1>1, <2>2, StandingTypes, TypePartsNext DEF TypeOK
    <2> QED BY <1>1, <2>2, <2>3, NoJob DEF TasksInv, World
  <1> QED BY <1>1, <1>3, <1>4

(***************************************************************************)
(* release_outcome.                                                         *)
(***************************************************************************)
\* A release is for a run that is not active.
LEMMA ReleasingFounded ==
    ASSUME TasksInv, job # None, job.at \in Releases
    PROVE  Founded(Releasing) /\ Releasing.op = "release" /\ Releasing.run = Last.run
           /\ Releasing.instance = Last.instance
  <1>0. TypeOK /\ Memory /\ Working /\ World
    BY DEF TasksInv, World
  <1>1. /\ job.task \in Task /\ Last \in RunRecord /\ disk[job.task] = Current
        /\ Last # None /\ Active = None /\ Current # None
    BY <1>0, JobRecord
  <1>2. /\ Releasing \in Request /\ Releasing.op = "release"
        /\ Releasing.run = Last.run /\ Releasing.instance = Last.instance
    BY <1>1 DEF Releasing, Request, RunRecord
  <1>3. Claims(Releasing.run, Releasing.instance)
    BY <1>1, <1>2 DEF Claims, OnRecord, Last
  <1>4. ASSUME NEW t \in Task, disk[t] # None, disk[t].active # None
        PROVE  disk[t].active.run # Last.run
    BY <1>0, <1>1, <1>4 DEF World, Records, Active, Last
  <1> QED BY <1>2, <1>3, <1>4 DEF Founded

\* Before the release: the status of the last run.
LEMMA ReleaseStatusStep ==
    ASSUME TasksInv, job # None, ReleaseStatus
    PROVE  TasksInv'
  <1>0. TypeOK /\ Memory /\ Working /\ World
    BY DEF TasksInv, World
  <1>1. /\ job \in Job /\ job.task \in Task /\ up /\ job.at = "releaseStatus"
        /\ UNCHANGED <<up, tasks, disk, used>> /\ Standing
        /\ Fault \/ UNCHANGED faults
    BY <1>0, JobRecord, AskedFaults DEF ReleaseStatus, Standing, ctmuxd
  <1>2. /\ Current # None /\ Active = None /\ Unreleased(Current)
        /\ job.kind \in {"reconcile", "start", "remove"} /\ Last \in RunRecord
    BY <1>0, <1>1, JobRecord DEF Working, Reconciling, Releases
  <1>3. Last.run \in Run /\ Last.instance \in Instance /\ Last.instance # None
    BY <1>2, ManagedAssumption DEF RunRecord
  <1>4. CASE Done
    BY <1>1, <1>4, FailedStep DEF Done
  <1>5. ASSUME NEW step \in {"release", "released"}, Goto(step),
               step = "released" => instance # Last.instance
        PROVE  TasksInv'
    <2>1. /\ job' \in Job /\ job' # None /\ job'.at = step /\ job'.task = job.task
          /\ job'.kind = job.kind
      BY <1>1, <1>5, GotoTyped DEF Step
    <2>2. Current' = Current /\ Active' = Active /\ Last' = Last
      BY <1>1, <2>1 DEF Current, Active, Last
    <2>3. Working'
      BY <1>1, <1>2, <2>1, <2>2 DEF Working, Reconciling, Releases, Unreleased
    <2>4. step = "released" => \A i \in Instance : ~Live(Last.run, i)
      <3>1. OnRecord(disk[job.task], Last.run, Last.instance)
        BY <1>0, <1>1, <1>2, JobRecord DEF OnRecord, Last, Releases
      <3>2. \A i \in Instance : Claims(Last.run, i) => i = Last.instance
        BY <1>0, <1>1, <1>3, <3>1 DEF World, Claimed, Claims
      <3> QED BY <1>0, <1>3, <1>5, <3>2 DEF World, Managing, Claims, Live
    <2>5. Learned'
      BY <1>1, <1>5, <2>1, <2>2, <2>4 DEF Learned, Standing, Live, Serving
    <2> QED BY <1>1, <2>1, <2>3, <2>5, GoStep
  <1> QED BY <1>3, <1>4, <1>5 DEF ReleaseStatus, Asked

\* The release is sent.
LEMMA ReleaseStep ==
    ASSUME TasksInv, job # None, Release
    PROVE  TasksInv'
  <1>0. TypeOK /\ Memory /\ Working /\ World
    BY DEF TasksInv, World
  <1> DEFINE q == Releasing
  <1>1. /\ job \in Job /\ job.task \in Task /\ up /\ job.at = "release"
        /\ UNCHANGED <<up, tasks, disk, used>>
    BY <1>0, JobRecord DEF Release
  <1>2. /\ Current # None /\ Active = None /\ Unreleased(Current)
        /\ job.kind \in {"reconcile", "start", "remove"} /\ Last \in RunRecord
    BY <1>0, <1>1, JobRecord DEF Working, Reconciling, Releases
  <1>3. Last.run \in Run /\ Last.instance \in Instance
    BY <1>2 DEF RunRecord
  <1>4. Founded(q) /\ q.op = "release" /\ q.run = Last.run /\ q.instance = Last.instance /\ q \in Request
    BY <1>1, ReleasingFounded DEF Founded, Releases
  <1> HIDE DEF q
  <1>5. Memory' /\ StoreTyped' /\ Kept
    BY <1>0, <1>1 DEF Memory, TypeOK, StoreTyped, Kept
  <1>6. CASE /\ Accepts(q) /\ Execute(q)
             /\ \/ Goto("released") /\ UNCHANGED faults
                \/ Done /\ Fault
             /\ UNCHANGED late
    <2>1. World'
      BY <1>0, <1>4, <1>5, <1>6, ExecuteWorld
    <2>2. StandingTyped' /\ faults' \in 0 .. MaxFaults
      BY <1>0, <1>1, <1>4, <1>6, ExecuteTyped, FaultTyped DEF TypeOK
    <2>3. CASE Done
      BY <1>5, <2>1, <2>2, <2>3, NoJob, TypePartsNext DEF TasksInv, World, Done
    <2>4. CASE Goto("released")
      <3>1. /\ job' \in Job /\ job' # None /\ job'.at = "released" /\ job'.task = job.task
            /\ job'.kind = job.kind
        BY <1>1, <2>4, GotoTyped DEF Step
      <3>2. Current' = Current /\ Active' = Active /\ Last' = Last
        BY <1>1, <3>1 DEF Current, Active, Last
      <3>3. Working'
        BY <1>1, <1>2, <3>1, <3>2 DEF Working, Reconciling, Releases, Unreleased
      <3>4. managed'[Last.run] = Retired /\ instance' = Last.instance
        BY <1>0, <1>3, <1>4, <1>6 DEF Accepts, Execute, TypeOK
      <3>5. ASSUME NEW i \in Instance, process'[Last.run][i] \in {"running", "killed"}
            PROVE  FALSE
        <4>1. managed'[Last.run] = "session" \/ draining'
          BY <1>3, <2>1, <3>5 DEF World, Managing, Live
        <4>2. ~draining'
          BY <1>6 DEF Accepts, Execute
        <4> QED BY <3>4, <4>1, <4>2 DEF Retired
      <3>6. Learned'
        BY <3>1, <3>2, <3>4, <3>5 DEF Learned, Live
      <3> QED BY <1>5, <2>1, <2>2, <3>1, <3>3, <3>6, TypePartsNext DEF TasksInv, World
    <2> QED BY <1>6, <2>3, <2>4
  <1>7. CASE Done /\ UNCHANGED <<ctmuxd, late, faults>>
    BY <1>1, <1>7, FailedStep DEF Done, Standing, ctmuxd
  <1>8. CASE Fault /\ Done /\ late' = late \cup {q} /\ UNCHANGED ctmuxd
    <2>1. World'
      BY <1>0, <1>4, <1>5, <1>8, LeftWorld DEF SameInstance, ctmuxd
    <2>2. StandingTyped' /\ faults' \in 0 .. MaxFaults
      BY <1>0, <1>1, <1>4, <1>8, FaultTyped DEF TypeOK, StandingTyped, ctmuxd
    <2> QED BY <1>5, <1>8, <2>1, <2>2, NoJob, TypePartsNext DEF TasksInv, World, Done
  <1> QED BY <1>6, <1>7, <1>8 DEF Release, q

\* The release is recorded.
LEMMA ReleasedStep ==
    ASSUME TasksInv, job # None, Released
    PROVE  TasksInv'
  <1>0. TypeOK /\ Memory /\ Working /\ Learned
    BY DEF TasksInv
  <1> DEFINE t == job.task
             record == [Current EXCEPT !.last.released = TRUE]
  <1>1. /\ job \in Job /\ t \in Task /\ up /\ job.at = "released"
        /\ UNCHANGED <<up, used>> /\ Standing
        /\ \/ /\ Save(t, record)
              /\ CASE job.kind = "reconcile" -> Done
                   [] job.kind = "start" -> Goto("pin")
                   [] job.kind = "remove" -> Goto("remove")
           \/ SaveFails /\ Done
    BY <1>0, JobRecord DEF Released, Standing, ctmuxd
  <1>2. /\ Current # None /\ Active = None /\ Unreleased(Current) /\ Current \in TaskRecord
        /\ job.kind \in {"reconcile", "start", "remove"} /\ Last \in RunRecord
        /\ disk[t] = Current
    BY <1>0, <1>1, JobRecord DEF Working, Reconciling, Releases
  <1>3. CASE SaveFails /\ Done
    BY <1>1, <1>3, FailedStep DEF SaveFails, Done
  <1>4. CASE Save(t, record) /\ (\/ Done
                                 \/ job.kind = "start" /\ Goto("pin")
                                 \/ job.kind = "remove" /\ Goto("remove"))
    <2>1. /\ record \in TaskRecord /\ record.active = None /\ record.last \in RunRecord
          /\ record.last.run = Last.run /\ record.last.instance = Last.instance
          /\ record.last.session = Last.session /\ record.last.code = Last.code
          /\ record.last.released = TRUE
      BY <1>2 DEF TaskRecord, RunRecord, Last, Active
    <2> HIDE DEF record
    <2>2. record # None /\ record.last # None
      BY <2>1, ManagedAssumption
    <2>3. Wrote(t) /\ disk'[t] = record /\ StoreTyped' /\ faults' = faults
      BY <1>0, <1>1, <1>4, <2>1, SaveWrites DEF StoreTyped
    <2>4. /\ \A i \in Instance : ~Live(Last.run, i)
          /\ Serving(Last.instance) => managed[Last.run] = Retired
      BY <1>0, <1>1 DEF Learned
    <2>5. Evolves(t)
      BY <1>2, <2>1, <2>2, <2>3, <2>4 DEF Evolves, Acknowledged, Last
    <2>6. Memory' /\ World'
      BY <1>1, <2>3, <2>5, SavedWorld
    <2>7. tasks'[t] = record
      BY <2>3 DEF Wrote
    <2>8. job' \in Job \cup {None} /\ Working' /\ Learned'
      <3>1. CASE Done
        BY <3>1, NoJob DEF Done
      <3>2. ASSUME NEW step \in {"pin", "remove"}, Goto(step), step = "pin" => job.kind = "start"
            PROVE  job' \in Job \cup {None} /\ Working' /\ Learned'
        <4>1. /\ job' \in Job /\ job' # None /\ job'.at = step /\ job'.task = t
              /\ job'.kind = job.kind
          BY <1>1, <3>2, GotoTyped DEF Step
        <4> QED
          BY <1>1, <2>1, <2>2, <2>7, <3>2, <4>1
             DEF Working, Learned, Current, Active, Reconciling, Releases, Unreleased
      <3> QED BY <1>4, <3>1, <3>2
    <2>9. TypeOK'
      BY <1>0, <1>1, <2>3, <2>8, StandingTypes, TypePartsNext DEF TypeOK
    <2> QED BY <2>6, <2>8, <2>9 DEF TasksInv, World
  <1> QED BY <1>1, <1>2, <1>3, <1>4

(***************************************************************************)
(* Crash and load.                                                          *)
(***************************************************************************)
LEMMA CrashStep ==
    ASSUME TasksInv, Crash
    PROVE  TasksInv'
  <1>0. TypeOK /\ World
    BY DEF TasksInv, World
  <1>1. /\ up' = FALSE /\ job' = None /\ \A t \in Task : tasks'[t] = None
        /\ UNCHANGED <<disk, used>> /\ Fault
        /\ UNCHANGED <<instance, spent, draining, managed, process>>
    BY DEF Crash, Done, ctmuxd
  <1>2. StoreTyped' /\ faults' \in 0 .. MaxFaults
    BY <1>0, <1>1, FaultTyped DEF Crash, TypeOK, StoreTyped
  <1>3. Memory' /\ Working' /\ Learned' /\ Kept /\ SameInstance
    BY <1>1, NoJob DEF Memory, Kept, SameInstance
  <1>4. CASE UNCHANGED late
    <2>1. World'
      BY <1>0, <1>1, <1>4, SameEvolves, EvolvesWorld DEF Standing
    <2>2. StandingTyped'
      BY <1>0, <1>1, <1>4 DEF TypeOK, StandingTyped
    <2> QED BY <1>1, <1>2, <1>3, <2>1, <2>2, TypePartsNext DEF TasksInv, World
  <1>5. ASSUME NEW q, Founded(q), late' = late \cup {q}
        PROVE  TasksInv'
    <2>1. World'
      BY <1>0, <1>1, <1>3, <1>5, LeftWorld
    <2>2. StandingTyped'
      BY <1>0, <1>1, <1>5 DEF TypeOK, StandingTyped, Founded
    <2> QED BY <1>1, <1>2, <1>3, <2>1, <2>2, TypePartsNext DEF TasksInv, World
  <1>6. CASE job # None /\ job.at = "operate" /\ late' = late \cup {Operation}
    BY <1>5, <1>6, OperationFounded
  <1>7. CASE job # None /\ job.at = "release" /\ late' = late \cup {Releasing}
    BY <1>5, <1>7, ReleasingFounded DEF Releases
  <1> QED BY <1>4, <1>6, <1>7 DEF Crash, LeftBehind

\* The reconciliation has the mutex and is not polled: nothing more is asked of
\* its job, and what it sent may still be executed.
LEMMA StallStep ==
    ASSUME TasksInv, NEW t \in Task, Stall(t)
    PROVE  TasksInv'
  <1>0. TypeOK /\ World
    BY DEF TasksInv, World
  <1>1. /\ up /\ tasks[t] # None /\ UNCHANGED <<up, tasks, disk, used, faults>>
        /\ UNCHANGED <<instance, spent, draining, managed, process>>
    BY DEF Stall, ctmuxd
  <1>2. \/ Begin("reconcile", t, "stalled") /\ UNCHANGED late
        \/ job \in Job /\ job # None /\ job.task = t /\ Goto("stalled") /\ LeftBehind
    BY <1>0 DEF Stall, TypeOK
  <1>3. job' \in Job /\ job' # None /\ job'.task = t /\ job'.at = "stalled"
    BY <1>2, BeginTyped, GotoTyped DEF Step
  <1>4. Working'
    BY <1>1, <1>3 DEF Working, Current, Reconciling, Releases
  <1>5. Learned'
    BY <1>3 DEF Learned
  <1>6. Kept /\ SameInstance /\ Memory' /\ StoreTyped' /\ faults' \in 0 .. MaxFaults
    BY <1>0, <1>1 DEF TasksInv, TypeOK, StoreTyped, Memory, Kept, SameInstance
  <1>7. CASE UNCHANGED late
    <2>1. Standing
      BY <1>1, <1>7 DEF Standing
    <2> QED BY <1>1, <1>3, <1>4, <1>5, <2>1, GoStep
  <1>8. ASSUME NEW q, Founded(q), late' = late \cup {q}
        PROVE  TasksInv'
    <2>1. World'
      BY <1>0, <1>1, <1>6, <1>8, LeftWorld
    <2>2. StandingTyped'
      BY <1>0, <1>1, <1>8 DEF TypeOK, StandingTyped, Founded
    <2>3. TypeOK'
      BY <1>3, <1>6, <2>2, TypePartsNext
    <2> QED BY <1>4, <1>5, <1>6, <2>1, <2>3 DEF TasksInv, World
  <1>9. CASE job # None /\ job.at = "operate" /\ late' = late \cup {Operation}
    BY <1>8, <1>9, OperationFounded
  <1>10. CASE job # None /\ job.at = "release" /\ late' = late \cup {Releasing}
    BY <1>8, <1>10, ReleasingFounded DEF Releases
  <1> QED BY <1>2, <1>7, <1>9, <1>10 DEF LeftBehind

\* ctl-taskd reads its store when it starts.
LEMMA LoadStep ==
    ASSUME TasksInv, Load
    PROVE  TasksInv'
  <1>0. TypeOK /\ World /\ Memory /\ Working
    BY DEF TasksInv, World
  <1>1. /\ ~up /\ up' = TRUE /\ disk' = tasks' /\ \A t \in Task : tasks'[t] = Loaded(disk[t])
        /\ UNCHANGED <<job, used, faults>> /\ Standing
    BY DEF Load, Standing, ctmuxd
  <1>2. job' = None
    BY <1>0, <1>1 DEF Working
  <1>3. ASSUME NEW t \in Task
        PROVE  Loaded(disk[t]) \in TaskRecord \cup {None} /\ Evolves(t)
    <2>1. CASE disk[t] = None \/ disk[t].active = None
      BY <1>0, <1>1, <2>1 DEF Loaded, Evolves, TypeOK
    <2>2. CASE disk[t] # None /\ disk[t].active # None
      <3>1. disk[t] \in TaskRecord /\ disk[t].active \in RunRecord
        BY <1>0, <2>2, DiskTyped
      <3> DEFINE state == IF disk[t].active.state = "starting" THEN "starting" ELSE "unknown"
                 active == [disk[t].active EXCEPT !.state = state]
      <3>2. /\ active \in RunRecord /\ SameRun(disk[t].active, active)
            /\ active.session = disk[t].active.session
        BY <3>1 DEF RunRecord, SameRun
      <3>3. Loaded(disk[t]) = [disk[t] EXCEPT !.active = active]
        BY <2>2, <3>1 DEF Loaded, TaskRecord, RunRecord
      <3> HIDE DEF active
      <3>4. /\ Loaded(disk[t]) \in TaskRecord /\ Loaded(disk[t]).active = active
            /\ Loaded(disk[t]).definition = disk[t].definition
            /\ Loaded(disk[t]).last = disk[t].last
        BY <3>1, <3>2, <3>3 DEF TaskRecord
      <3>5. Loaded(disk[t]) # None /\ active # None
        BY <3>2, <3>4, ManagedAssumption
      <3>6. Adjusted(disk[t], Loaded(disk[t]))
        BY <2>2, <3>2, <3>4, <3>5 DEF Adjusted
      <3> QED BY <1>1, <3>4, <3>6 DEF Evolves
    <2> QED BY <2>1, <2>2
  <1>4. StoreTyped'
    BY <1>3 DEF Load, StoreTyped
  <1>5. Memory' /\ World'
    BY <1>0, <1>1, <1>3, EvolvesWorld DEF Memory
  <1>6. StandingTyped'
    BY <1>0, <1>1 DEF TypeOK, StandingTyped, Standing
  <1> QED BY <1>0, <1>1, <1>2, <1>4, <1>5, <1>6, NoJob, TypePartsNext DEF TasksInv, World, TypeOK

(***************************************************************************)
(* ctmuxd.  The job stands by, and what it has learned stays true.           *)
(***************************************************************************)
\* How ctmuxd may change under a job.
StandsBy ==
    /\ UNCHANGED <<up, tasks, job>> /\ spent \subseteq spent'
    /\ \A i \in spent : instance' = i => instance = i /\ (~draining' => ~draining)
    /\ \A r \in Run : \A i \in spent : instance' = i /\ ~draining' =>
          /\ managed[r] = Retired => managed'[r] = Retired
          /\ managed[r] = "session" /\ managed'[r] # "session" =>
                \A t \in Task : disk[t] # None /\ disk[t].active # None => disk[t].active.run # r
          /\ managed[r] = "session" /\ process[r][i] \in Outcome => process'[r][i] = process[r][i]
    /\ \A r \in Run : \A i \in Instance : process'[r][i] \in {"running", "killed"} =>
          Live(r, i) \/ (Serving(i) /\ managed[r] = Absent /\ Claims(r, i))

\* What a job has learned outlives the steps of ctmuxd on its own.
LEMMA StandsByLearned ==
    ASSUME TasksInv, StandsBy
    PROVE  Working' /\ Learned'
  <1>0. TypeOK /\ Memory /\ Working /\ World /\ Learned
    BY DEF TasksInv, World
  <1>1. Current' = Current /\ Active' = Active /\ Last' = Last /\ UNCHANGED <<up, tasks, job>>
    BY DEF StandsBy, Current, Active, Last
  <1>2. Working'
    BY <1>0, <1>1 DEF Working, StandsBy, Unreleased
  <1> SUFFICES ASSUME job # None
               PROVE  Learned'
    BY <1>1, <1>2 DEF Learned
  <1>3. job \in Job /\ job.task \in Task /\ Current # None
    BY <1>0, JobRecord
  <1>4. ASSUME job.at \in Reconciling
        PROVE  /\ Active # None /\ Active.run \in Run /\ Active.instance \in Instance
               /\ Active.instance \in spent /\ disk[job.task] = Current
    <2>1. Active # None /\ Active \in RunRecord /\ disk[job.task] = Current
      BY <1>0, <1>4, JobRecord
    <2>2. Active.run \in Run /\ Active.instance \in Instance
      BY <2>1 DEF RunRecord
    <2>3. Claims(Active.run, Active.instance)
      BY <1>3, <2>1 DEF Claims, OnRecord, Active
    <2> QED BY <1>0, <2>1, <2>2, <2>3 DEF World, Claimed
  <1>5. ASSUME job.at \in Releases
        PROVE  /\ Last.run \in Run /\ Last.instance \in Instance /\ Last.instance \in spent
               /\ Claims(Last.run, Last.instance)
    <2>1. Last # None /\ Last \in RunRecord /\ disk[job.task] = Current
      BY <1>0, <1>5, JobRecord
    <2>2. Last.run \in Run /\ Last.instance \in Instance
      BY <2>1 DEF RunRecord
    <2>3. Claims(Last.run, Last.instance)
      BY <1>3, <2>1 DEF Claims, OnRecord, Last
    <2> QED BY <1>0, <2>1, <2>2, <2>3 DEF World, Claimed
  <1>6. Wanted(job.session)' = Wanted(job.session)
    BY <1>1 DEF Wanted
  <1>7. ASSUME job.at = "lost"
        PROVE  instance' # Active.instance
    BY <1>0, <1>4, <1>7 DEF Learned, StandsBy, Reconciling
  <1>8. ASSUME job.at = "record", instance' = Active.instance, ~draining'
        PROVE  IF job.session = Absent THEN managed'[Active.run] = Retired
               ELSE /\ managed'[Active.run] = "session"
                    /\ job.session # "running" => process'[Active.run][Active.instance] = job.session
    <2>1. Active # None /\ Active.run \in Run /\ Active.instance \in spent /\ disk[job.task] = Current
      BY <1>4, <1>8 DEF Reconciling
    <2>2. Serving(Active.instance)
      BY <1>8, <2>1 DEF StandsBy, Serving
    <2>3. disk[job.task] # None /\ disk[job.task].active # None /\ disk[job.task].active.run = Active.run
      BY <1>3, <2>1 DEF Active
    <2>4. /\ managed[Active.run] = Retired => managed'[Active.run] = Retired
          /\ managed[Active.run] = "session" => managed'[Active.run] = "session"
          /\ managed[Active.run] = "session" /\ process[Active.run][Active.instance] \in Outcome
               => process'[Active.run][Active.instance] = process[Active.run][Active.instance]
      BY <1>3, <1>8, <2>1, <2>3 DEF StandsBy
    <2>5. job.session \in {Absent, "running"} \cup Outcome
      BY <1>3 DEF Job
    <2> QED BY <1>0, <1>8, <2>2, <2>4, <2>5 DEF Learned
  <1>9. ASSUME job.at = "released"
        PROVE  /\ \A i \in Instance : process'[Last.run][i] \notin {"running", "killed"}
               /\ instance' = Last.instance /\ ~draining' => managed'[Last.run] = Retired
    <2>1. /\ Last.run \in Run /\ Last.instance \in Instance /\ Last.instance \in spent
          /\ Claims(Last.run, Last.instance)
      BY <1>5, <1>9 DEF Releases
    <2>2. /\ \A i \in Instance : ~Live(Last.run, i)
          /\ Serving(Last.instance) => managed[Last.run] = Retired
      BY <1>0, <1>9 DEF Learned
    <2>3. \A i \in Instance : Claims(Last.run, i) => i = Last.instance
      BY <1>0, <2>1 DEF World, Claimed
    <2>4. \A i \in Instance : process'[Last.run][i] \notin {"running", "killed"}
      BY <2>1, <2>2, <2>3 DEF StandsBy, Absent, Retired
    <2> QED BY <2>1, <2>2, <2>4 DEF StandsBy, Serving
  <1> QED BY <1>0, <1>1, <1>6, <1>7, <1>8, <1>9 DEF Learned, Serving, Live

\* A request arrives late.
LEMMA DeliverStep ==
    ASSUME TasksInv, NEW q \in late, Deliver(q)
    PROVE  TasksInv'
  <1>0. TypeOK /\ World /\ Memory
    BY DEF TasksInv, World
  <1>1. /\ UNCHANGED <<up, tasks, disk, job, used, faults>> /\ late' \subseteq late /\ q \in Request
        /\ late' \subseteq Request
    BY <1>0 DEF Deliver, taskd, TypeOK
  <1>2. Founded(q)
    BY <1>0, <1>1 DEF Founded, World, Lateness, Claims, Request
  <1>3. Memory' /\ StoreTyped' /\ Kept
    BY <1>0, <1>1 DEF Memory, TypeOK, StoreTyped, Kept
  <1>4. CASE Accepts(q) /\ Execute(q)
    <2>1. World' /\ StandingTyped'
      BY <1>0, <1>1, <1>2, <1>3, <1>4, ExecuteWorld, ExecuteTyped
    <2>2. Serving(q.instance) /\ SameInstance /\ Outcomes(q)
      BY <1>0, <1>1, <1>4, ExecuteOutcomes DEF World
    <2>3. q.run \in Run /\ q.instance \in Instance
      BY <1>1 DEF Request
    <2>4. StandsBy
      <3>1. \A r \in Run : managed[r] = Retired => managed'[r] = Retired
        BY <2>2, <2>3 DEF Outcomes, Becomes, Absent, Retired
      <3>2. \A r \in Run : managed[r] = "session" /\ managed'[r] # "session" =>
                \A t \in Task : disk[t] # None /\ disk[t].active # None => disk[t].active.run # r
        BY <1>2, <2>2, <2>3 DEF Outcomes, Becomes, Founded
      <3>3. \A r \in Run : \A i \in Instance :
               managed[r] = "session" /\ process[r][i] \in Outcome => process'[r][i] = process[r][i]
        BY <2>2, <2>3 DEF Outcomes, Becomes, Outcome, Absent
      <3>4. \A r \in Run : \A i \in Instance : process'[r][i] \in {"running", "killed"} =>
               Live(r, i) \/ (Serving(i) /\ managed[r] = Absent /\ Claims(r, i))
        BY <1>2, <2>2, <2>3 DEF Outcomes, Becomes, Live, Founded
      <3>5. spent \subseteq Instance
        BY <1>0 DEF TypeOK
      <3> QED BY <1>1, <2>2, <3>1, <3>2, <3>3, <3>4, <3>5 DEF StandsBy, SameInstance
    <2> QED BY <1>0, <1>1, <1>3, <2>1, <2>4, StandsByLearned, TypePartsNext DEF TasksInv, World, TypeOK
  <1>5. CASE UNCHANGED ctmuxd
    <2>1. \A r \in Run : \A i \in Instance : Claims(r, i)' => Claims(r, i)
      <3> SUFFICES ASSUME NEW r \in Run, NEW i \in Instance, Claims(r, i)'
                   PROVE  Claims(r, i)
        OBVIOUS
      <3>1. process'[r][i] # "none" => Claims(r, i)
        BY <1>5 DEF Claims, ctmuxd
      <3> QED BY <1>1, <1>3, <3>1, KeptClaims
    <2>2. World'
      BY <1>0, <1>1, <1>5, <2>1
         DEF World, Records, Claimed, Lateness, Managing, Named, Seen, ctmuxd, Serving, Live
    <2>3. StandsBy
      BY <1>1, <1>5 DEF StandsBy, ctmuxd, Live
    <2>4. StandingTyped'
      BY <1>0, <1>1, <1>5 DEF TypeOK, StandingTyped, ctmuxd
    <2> QED BY <1>0, <1>1, <1>3, <2>2, <2>3, <2>4, StandsByLearned, TypePartsNext DEF TasksInv, World, TypeOK
  <1> QED BY <1>4, <1>5 DEF Deliver

\* A process ends.
LEMMA ExitStep ==
    ASSUME TasksInv, NEW r \in Run, NEW i \in Instance, Exit(r, i)
    PROVE  TasksInv'
  <1>0. TypeOK /\ World /\ Memory
    BY DEF TasksInv, World
  <1>1. /\ UNCHANGED <<up, tasks, disk, job, used, late, faults, managed>> /\ SameInstance /\ Live(r, i)
        /\ Kept
    BY DEF Exit, taskd, SameInstance, Kept
  <1>2. PICK code \in Outcome : process' = [process EXCEPT ![r][i] = code]
    BY DEF Exit
  <1>3. Becomes(r, i, managed[r], code)
    BY <1>0, <1>1, <1>2 DEF Becomes, TypeOK
  <1>4. World'
    BY <1>0, <1>1, <1>3, ExitWorld
  <1>5. StandsBy
    BY <1>0, <1>1, <1>3 DEF StandsBy, SameInstance, Becomes, Live, Outcome, TypeOK
  <1>6. Memory' /\ StoreTyped'
    BY <1>0, <1>1 DEF Memory, TypeOK, StoreTyped
  <1>7. StandingTyped'
    BY <1>0, <1>1, <1>2 DEF TypeOK, StandingTyped, SameInstance
  <1> QED BY <1>0, <1>1, <1>4, <1>5, <1>6, <1>7, StandsByLearned, TypePartsNext DEF TasksInv, World, TypeOK

\* ctmuxd is gone, with its processes.
LEMMA VanishStep ==
    ASSUME TasksInv, Vanish, Fault \/ UNCHANGED faults
    PROVE  TasksInv'
  <1>0. TypeOK /\ World /\ Memory
    BY DEF TasksInv, World
  <1>1. /\ UNCHANGED <<up, tasks, disk, job, used, spent>> /\ instance' = None /\ draining' = FALSE
        /\ late' = {}
    BY DEF Vanish, taskd
  <1>2. World'
    BY <1>0, VanishWorld
  <1>3. StandsBy
    <2>1. \A s \in Run : \A j \in Instance : process'[s][j] \notin {"running", "killed"}
      BY DEF Vanish
    <2>2. None \notin spent
      BY <1>0, ManagedAssumption DEF TypeOK
    <2> QED BY <1>1, <2>1, <2>2 DEF StandsBy
  <1>4. Memory' /\ StoreTyped' /\ faults' \in 0 .. MaxFaults
    BY <1>0, <1>1, FaultTyped DEF Memory, TypeOK, StoreTyped
  <1>5. StandingTyped'
    BY <1>0, <1>1 DEF TypeOK, StandingTyped, Vanish
  <1> QED BY <1>0, <1>1, <1>2, <1>3, <1>4, <1>5, StandsByLearned, TypePartsNext DEF TasksInv, World, TypeOK

\* ctmuxd is started by somebody else.
LEMMA StartCtmuxdStep ==
    ASSUME TasksInv, StartCtmuxd
    PROVE  TasksInv'
  <1>0. TypeOK /\ World /\ Memory
    BY DEF TasksInv, World
  <1> DEFINE i == NewInstance
  <1>1. /\ UNCHANGED <<up, tasks, disk, job, used, draining, managed, process, late, faults>>
        /\ instance = None /\ instance' = i /\ spent' = spent \cup {i} /\ Kept
        /\ i \in Instance /\ i \notin spent
    BY <1>0, NewInstanceFresh DEF StartCtmuxd, taskd, Kept
  <1> HIDE DEF i
  <1>2. World' /\ StandingTyped'
    BY <1>0, <1>1, StartWorld, StartTyped
  <1>3. StandsBy
    BY <1>1 DEF StandsBy, Live
  <1>4. Memory' /\ StoreTyped'
    BY <1>0, <1>1 DEF Memory, TypeOK, StoreTyped
  <1> QED BY <1>0, <1>1, <1>2, <1>3, <1>4, StandsByLearned, TypePartsNext DEF TasksInv, World, TypeOK

\* ctmuxd drains for a restart.
LEMMA RestartStep ==
    ASSUME TasksInv, RestartCtmuxd
    PROVE  TasksInv'
  <1>0. TypeOK /\ World /\ Memory
    BY DEF TasksInv, World
  <1>1. /\ UNCHANGED <<up, tasks, disk, job, used, instance, spent, late, faults>>
        /\ draining' = TRUE
    BY DEF RestartCtmuxd, taskd
  <1>2. World'
    BY <1>0, RestartWorld
  <1>3. StandsBy
    <2>1. \A s \in Run : \A j \in Instance : process'[s][j] \in {"running", "killed"} => Live(s, j)
      BY DEF RestartCtmuxd, Live
    <2> QED BY <1>1, <2>1 DEF StandsBy
  <1>4. Memory' /\ StoreTyped'
    BY <1>0, <1>1 DEF Memory, TypeOK, StoreTyped
  <1>5. StandingTyped'
    BY <1>0, <1>1 DEF TypeOK, StandingTyped, RestartCtmuxd
  <1> QED BY <1>0, <1>1, <1>2, <1>3, <1>4, <1>5, StandsByLearned, TypePartsNext DEF TasksInv, World, TypeOK

(***************************************************************************)
(* The theorems.                                                            *)
(***************************************************************************)
LEMMA InitTasks == Init => TasksInv
  <1> SUFFICES ASSUME Init PROVE TasksInv
    OBVIOUS
  <1>1. /\ \A t \in Task : tasks[t] = None /\ disk[t] = None
        /\ \A r \in Run : used[r] = None /\ managed[r] = Absent
        /\ \A r \in Run : \A i \in Instance : process[r][i] = "none"
        /\ up /\ job = None /\ instance = None /\ draining = FALSE /\ late = {}
    BY DEF Init
  <1>2. TypeOK
    <2>1. 0 \in 0 .. MaxFaults
      BY ManagedAssumption
    <2>2. StoreTyped /\ job \in Job \cup {None} /\ faults \in 0 .. MaxFaults
      BY <2>1 DEF Init, StoreTyped
    <2>3. StandingTyped
      BY DEF Init, StandingTyped
    <2> QED BY <2>2, <2>3, TypeParts
  <1>3. \A r \in Run : \A i \in Instance : ~Claims(r, i) /\ ~Live(r, i) /\ ~Serving(i)
    BY <1>1, ManagedAssumption DEF Claims, OnRecord, Live, Serving
  <1>4. Memory /\ Records /\ Claimed /\ Lateness
    BY <1>1, <1>3 DEF Memory, Records, Claimed, Lateness
  <1>5. Managing /\ Named /\ Seen /\ Working /\ Learned
    BY <1>1, <1>3 DEF Managing, Named, Seen, Working, Learned, Absent
  <1> QED BY <1>2, <1>4, <1>5 DEF TasksInv

\* Nothing changes.
LEMMA StutterTasks ==
    ASSUME TasksInv, UNCHANGED vars
    PROVE  TasksInv'
  <1>1. UNCHANGED <<up, tasks, disk, job, used, faults>> /\ Standing
    BY DEF vars, Standing
  <1>2. Memory' /\ World'
    BY <1>1, StillWorld
  <1>3. StandsBy
    BY <1>1 DEF StandsBy, Standing, Live
  <1>4. Working' /\ Learned'
    BY <1>3, StandsByLearned
  <1>5. TypeOK'
    BY <1>1 DEF TasksInv, TypeOK, Standing
  <1> QED BY <1>2, <1>4, <1>5 DEF TasksInv, World

\* The invariant is inductive.
LEMMA NextTasks == TasksInv /\ [Next]_vars => TasksInv'
  <1> SUFFICES ASSUME TasksInv, [Next]_vars PROVE TasksInv'
    OBVIOUS
  <1>1. CASE Client
    BY <1>1, RegisterStep, UpdateStep, BeginStep, StopStep DEF Client
  <1>2. CASE JobStep
    BY <1>2, ConnectStep, PinStep, IntendStep, StatusStep, OperateStep, RecordStep, LoseStep,
       DoubtStep, ReleaseStatusStep, ReleaseStep, ReleasedStep, FinishRemoveStep DEF JobStep
  <1>3. CASE \E t \in Task : Reconcile(t) \/ Stall(t)
    BY <1>3, BeginStep, StallStep
  <1>4. CASE Crash \/ Load
    BY <1>4, CrashStep, LoadStep
  <1>5. CASE \E r \in Run, i \in Instance : Exit(r, i)
    BY <1>5, ExitStep
  <1>6. CASE CrashCtmuxd \/ ExitCtmuxd
    BY <1>6, VanishStep DEF CrashCtmuxd, ExitCtmuxd
  <1>7. CASE StartCtmuxd \/ RestartCtmuxd
    BY <1>7, StartCtmuxdStep, RestartStep
  <1>8. CASE \E q \in late : Deliver(q)
    BY <1>8, DeliverStep
  <1>9. CASE UNCHANGED vars
    BY <1>9, StutterTasks
  <1> QED BY <1>1, <1>2, <1>3, <1>4, <1>5, <1>6, <1>7, <1>8, <1>9 DEF Next

\* The inductive invariant holds in every state: what ctl-taskd has in memory,
\* what it saved, what ctmuxd manages and every request that may still arrive
\* agree about each run.
THEOREM TasksInvariant == Spec => []TasksInv
  BY InitTasks, NextTasks, PTL DEF Spec

\* The state of both daemons has its types in every state.
THEOREM TasksTyped == Spec => []TypeOK
  <1>1. TasksInv => TypeOK
    BY DEF TasksInv
  <1> QED BY <1>1, TasksInvariant, PTL

\* A run never has processes of two instances of ctmuxd: retries, late requests,
\* crashes of either daemon and replaced instances included.
THEOREM CreatedOnce == Spec => []RunCreatedOnce
  <1>1. TasksInv => RunCreatedOnce
    BY DEF TasksInv, Claimed, Claims, RunCreatedOnce
  <1> QED BY <1>1, TasksInvariant, PTL

\* The run of every live process is named in state.json, so that ctl-taskd finds
\* it again after a crash.
THEOREM LiveRunsRecoverable == Spec => []Recoverable
  <1>1. ASSUME TasksInv, NEW r \in Run, NEW i \in Instance, Live(r, i)
        PROVE  LET saved == disk[used[r]] IN
               /\ saved # None
               /\ \/ saved.active # None /\ saved.active.run = r /\ saved.active.instance = i
                  \/ Unreleased(saved) /\ saved.last.run = r
    <2>1. Names(disk[used[r]], r) /\ Claims(r, i)
      BY <1>1 DEF TasksInv, Named, Claims, Live
    <2>2. used[r] \in Task
      BY <1>1, <2>1 DEF TasksInv, Claimed, TypeOK
    <2>3. ASSUME disk[used[r]].active # None, disk[used[r]].active.run = r
          PROVE  disk[used[r]].active.instance = i
      <3>1. OnRecord(disk[used[r]], r, disk[used[r]].active.instance)
        BY <2>1, <2>3 DEF OnRecord, Names
      <3>2. disk[used[r]].active.instance \in Instance
        BY <1>1, <2>1, <2>2, <2>3, DiskTyped DEF TasksInv, Names
      <3> QED BY <1>1, <2>1, <2>2, <3>1, <3>2 DEF TasksInv, Claimed, Claims
    <2> QED BY <2>1, <2>3 DEF Names
  <1>2. TasksInv => Recoverable
    BY <1>1 DEF Recoverable
  <1> QED BY <1>2, TasksInvariant, PTL

\* A task has at most one live process, whatever was delayed, lost or retried.
THEOREM OneProcess == Spec => []OneProcessPerTask
  <1>1. TasksInv => OneProcessPerTask
    <2> SUFFICES ASSUME TasksInv, NEW r \in Run, NEW q \in Run, NEW i \in Instance, NEW j \in Instance,
                        Live(r, i), Live(q, j), used[r] = used[q]
                 PROVE  r = q
      BY DEF OneProcessPerTask
    <2>1. Names(disk[used[r]], r) /\ Names(disk[used[r]], q)
      BY DEF TasksInv, Named
    <2> QED BY <2>1 DEF Names, Unreleased
  <1> QED BY <1>1, TasksInvariant, PTL

\* Every start request for an active run carries the definition that its record
\* has, and the definition of a task does not change under its run.
THEOREM SnapshotsSent == Spec => []SnapshotSent
  <1>1. TasksInv => SnapshotSent
    <2> SUFFICES ASSUME TasksInv, NEW t \in Task, tasks[t] # None, tasks[t].active # None
                 PROVE  /\ \A q \in late : q.op = "start" /\ q.run = tasks[t].active.run
                                             => q.definition = tasks[t].active.definition
                        /\ tasks[t].definition = tasks[t].active.definition
      BY DEF SnapshotSent
    <2>1. tasks[t] = disk[t]
      BY DEF TasksInv, Memory, Fresh
    <2> QED BY <2>1 DEF TasksInv, Lateness, Records
  <1> QED BY <1>1, TasksInvariant, PTL

\* A session is forgotten only by an accepted release.
LEMMA Forgotten ==
    ASSUME TasksInv, [Next]_vars, NEW r \in Run, managed[r] = "session", managed'[r] = Retired
    PROVE  \E q \in Request : /\ Founded(q) /\ Accepts(q) /\ q.op = "release" /\ q.run = r
  <1>0. TypeOK /\ World
    BY DEF TasksInv, World
  <1>1. managed' # managed /\ ~(\A s \in Run : managed'[s] = Absent)
    BY DEF Absent, Retired
  <1>2. ASSUME NEW q, Founded(q), Accepts(q), Execute(q)
        PROVE  \E p \in Request : Founded(p) /\ Accepts(p) /\ p.op = "release" /\ p.run = r
    <2>1. q \in Request /\ q.run \in Run /\ q.instance \in Instance
      BY <1>2 DEF Founded, Request
    <2>2. Outcomes(q)
      BY <1>0, <1>2, <2>1, ExecuteOutcomes DEF World
    <2>3. q.run = r /\ q.op = "release"
      BY <2>1, <2>2 DEF Outcomes, Becomes, Retired, Absent
    <2> QED BY <1>2, <2>1, <2>3
  <1>3. CASE job # None /\ Operate
    <2>1. job.at = "operate" /\ Accepts(Operation) /\ Execute(Operation)
      BY <1>1, <1>3 DEF Operate, ctmuxd
    <2> QED BY <1>2, <1>3, <2>1, OperationFounded
  <1>4. CASE job # None /\ Release
    <2>1. job.at = "release" /\ Accepts(Releasing) /\ Execute(Releasing)
      BY <1>1, <1>4 DEF Release, ctmuxd
    <2> QED BY <1>2, <1>4, <2>1, ReleasingFounded DEF Releases
  <1>5. ASSUME NEW q \in late, Deliver(q)
        PROVE  \E p \in Request : Founded(p) /\ Accepts(p) /\ p.op = "release" /\ p.run = r
    <2>1. Accepts(q) /\ Execute(q)
      BY <1>1, <1>5 DEF Deliver, ctmuxd
    <2>2. Founded(q)
      BY <1>0 DEF Founded, World, Lateness, Claims, Request, TypeOK
    <2> QED BY <1>2, <2>1, <2>2
  <1>6. CASE Client \/ \E t \in Task : Reconcile(t) \/ Stall(t)
    BY <1>1, <1>6 DEF Client, Register, Create, Update, Start, Stop, Remove, Reconcile, Stall, ctmuxd
  <1>7. CASE JobStep
    <2>1. CASE Connect \/ Pin \/ Intend \/ Status \/ Record
      BY <1>1, <2>1 DEF Connect, Pin, Intend, Status, Record, ctmuxd
    <2>2. CASE Lose \/ Refuse \/ Doubt \/ ReleaseStatus \/ Released \/ FinishRemove
      BY <1>1, <2>2 DEF Lose, Refuse, Doubt, ReleaseStatus, Released, FinishRemove, ctmuxd
    <2> QED BY <1>3, <1>4, <1>7, <2>1, <2>2 DEF JobStep
  <1>8. CASE Crash \/ Load \/ StartCtmuxd \/ \E s \in Run, i \in Instance : Exit(s, i)
    BY <1>1, <1>8 DEF Crash, Load, StartCtmuxd, Exit, ctmuxd
  <1>9. CASE CrashCtmuxd \/ ExitCtmuxd \/ RestartCtmuxd
    BY <1>1, <1>9 DEF CrashCtmuxd, ExitCtmuxd, RestartCtmuxd, Vanish
  <1>10. CASE UNCHANGED vars
    BY <1>1, <1>10 DEF vars
  <1> QED BY <1>5, <1>6, <1>7, <1>8, <1>9, <1>10 DEF Next

\* ctmuxd forgets an outcome only when state.json has it: the end of the run, and
\* its exit code if ctl-taskd was ever told of the session.
THEOREM OutcomesAreSaved == Spec => OutcomesSaved
  <1>1. ASSUME TasksInv, [Next]_vars, NEW r \in Run, managed[r] = "session", managed'[r] = Retired
        PROVE  LET saved == disk[used[r]] IN
               /\ saved # None /\ saved.last # None /\ saved.last.run = r
               /\ saved.last.session => saved.last.code = process[r][instance]
    <2>1. PICK q \in Request : Founded(q) /\ Accepts(q) /\ q.op = "release" /\ q.run = r
      BY <1>1, Forgotten
    <2>2. q.instance \in Instance /\ instance = q.instance /\ Serving(q.instance) /\ Claims(r, q.instance)
      BY <2>1 DEF Request, Founded, Accepts, Serving
    <2>3. used[r] \in Task
      BY <1>1, <2>2 DEF TasksInv, Claimed, TypeOK
    <2>4. Names(disk[used[r]], r)
      BY <1>1, <2>2 DEF TasksInv, Named, Retired
    <2>5. Unreleased(disk[used[r]]) /\ disk[used[r]].last.run = r /\ disk[used[r]] # None
      BY <2>1, <2>3, <2>4 DEF Names, Founded
    <2>6. disk[used[r]].last.instance = instance
      <3>1. OnRecord(disk[used[r]], r, disk[used[r]].last.instance)
        BY <2>5 DEF OnRecord, Unreleased
      <3>2. disk[used[r]].last.instance \in Instance
        BY <1>1, <2>3, <2>5, DiskTyped DEF TasksInv, Unreleased
      <3> QED BY <1>1, <2>2, <2>3, <3>1, <3>2 DEF TasksInv, Claimed, Claims
    <2>7. disk[used[r]].last.session => disk[used[r]].last.code = process[r][instance]
      BY <1>1, <2>2, <2>3, <2>5, <2>6 DEF TasksInv, Seen, Unreleased, Retired
    <2> QED BY <2>5, <2>7 DEF Unreleased
  <1>2. TasksInv /\ [Next]_vars =>
          [\A r \in Run : managed[r] = "session" /\ managed'[r] = Retired /\ instance' = instance =>
              LET saved == disk[used[r]] IN
              /\ saved # None /\ saved.last # None /\ saved.last.run = r
              /\ saved.last.session => saved.last.code = process[r][instance]]_vars
    BY <1>1
  <1> QED BY <1>2, TasksInvariant, PTL DEF Spec, OutcomesSaved
=============================================================================
