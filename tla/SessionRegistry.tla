-------------------------- MODULE SessionRegistry --------------------------
(***************************************************************************)
(* The daemon's registry: the terminals, the sessions that own them, each   *)
(* with one view (layout, zoom, revision), the session names in use and the *)
(* names reserved for sessions under construction.                          *)
(*                                                                         *)
(* Everything is behind one mutex, and a critical section is one step.      *)
(* Creating, splitting and moving a pane take several of them: a split is   *)
(* planned, a name is reserved, the child is spawned, the terminal is       *)
(* committed, and a reservation that failed is dropped.  Creates, splits    *)
(* and renames also hold the admission gate of run_while_accepting, so they *)
(* exclude each other; promote_terminal and break_pane do not take it.      *)
(*                                                                         *)
(* A layout is the sequence of its terminal_ids; axes, weights and cell     *)
(* geometry are left out, and where the code asks whether a layout fits, or *)
(* resizes its PTYs (reflow_view), the answer is an input of the step.  A   *)
(* session identifier is used once; its layout is empty when it is not in   *)
(* the registry.  The leases of a view are in the module Attachments.       *)
(***************************************************************************)
EXTENDS Naturals, SequencesExt

CONSTANTS
    Client,         \* requests that run concurrently
    Terminal,       \* terminal identifiers, each used once
    Managed,        \* the terminals that are created for managed runs
    Session,        \* session identifiers, each used once
    MaxName,        \* names 1..MaxName; n is also the n-th automatic name
    MaxPanes,       \* panes of a view
    MaxRevision,    \* bound on the edits: none when a view has this revision
    None

ASSUME RegistryAssumption ==
    /\ Managed \subseteq Terminal
    /\ MaxName \in Nat /\ MaxPanes \in Nat /\ MaxRevision \in Nat
    /\ None \notin Terminal \cup Session \cup Nat

Name == 1..MaxName

\* A request: what it does next, the name it has reserved, and its target.
Op == {"idle", "planned", "creating", "splitting", "dropping", "moving", "failed"}

VARIABLES
    terminals,      \* SessionRegistry.terminals
    owner,          \* Terminal.owner.session_id
    life,           \* "none", "running" or "ended" (publish_ended has run)
    used,           \* session identifiers that have been given out
    layout,         \* View.layout of every session
    name,           \* Session.name
    closing,        \* sessions that are terminating
    zoom,           \* View.zoomed_terminal_id
    revision,       \* View.revision
    published,      \* the last value of every terminal's view_updates
    pending,        \* pending_names
    nextAutomatic,  \* next_automatic_name; beyond MaxName: exhausted
    job             \* the requests

views == <<layout, name, zoom, revision>>
sessionVars == <<used, layout, name, closing, zoom, revision>>
terminalVars == <<terminals, owner, life>>
names == <<pending, nextAutomatic>>
vars == <<terminals, owner, life, used, layout, name, closing, zoom, revision, published,
          pending, nextAutomatic, job>>

Idle == [op |-> "idle", name |-> None, target |-> None]

View == [session : Session, revision : Nat, name : Name, zoom : Terminal \cup {None},
         layout : Seq(Terminal)]

TypeOK ==
    /\ terminals \subseteq Terminal
    /\ owner \in [Terminal -> Session \cup {None}]
    /\ life \in [Terminal -> {"none", "running", "ended"}]
    /\ used \subseteq Session /\ closing \subseteq Session
    /\ layout \in [Session -> Seq(Terminal)]
    /\ name \in [Session -> Name \cup {None}]
    /\ zoom \in [Session -> Terminal \cup {None}]
    /\ revision \in [Session -> Nat]
    /\ published \in [Terminal -> View \cup {None}]
    /\ pending \subseteq Name
    /\ nextAutomatic \in 1..(MaxName + 1)
    /\ job \in [Client -> [op : Op, name : Name \cup {None}, target : Terminal \cup {None}]]

Live == {s \in Session : layout[s] # <<>>}
PanesOf(s) == ToSet(layout[s])
Position(s, t) == CHOOSE i \in DOMAIN layout[s] : layout[s][i] = t
HasManaged(s) == PanesOf(s) \cap Managed # {}

(***************************************************************************)
(* publish_view for the sessions S, in the state a step leaves.  A receiver *)
(* that has this view, revision and name already is not touched.            *)
(***************************************************************************)
ViewOf(s) == [session |-> s, revision |-> revision[s], name |-> name[s], zoom |-> zoom[s],
              layout |-> layout[s]]

HasView(t, v) == /\ published[t] # None
                 /\ published[t].session = v.session
                 /\ published[t].revision = v.revision
                 /\ published[t].name = v.name

PublishViews(S) ==
    published' = [t \in Terminal |->
        LET shown == {q \in S : t \in ToSet(layout'[q])}
            s == CHOOSE x \in shown : TRUE
            v == [session |-> s, revision |-> revision'[s], name |-> name'[s],
                  zoom |-> zoom'[s], layout |-> layout'[s]] IN
        IF t \notin terminals' THEN None
        ELSE IF shown = {} \/ HasView(t, v) THEN published[t] ELSE v]

\* Terminals that have left the registry take their receivers with them.
ForgetView ==
    published' = [t \in Terminal |-> IF t \in terminals' THEN published[t] ELSE None]

\* A new arrangement of session s.
Arrange(s, panes, zoomed) ==
    /\ layout' = [layout EXCEPT ![s] = panes]
    /\ zoom' = [zoom EXCEPT ![s] = zoomed]
    /\ revision' = [revision EXCEPT ![s] = @ + 1]

\* The views when session s, with a new revision number r, has these panes;
\* without panes it leaves the registry.
Shrink(s, panes, r) ==
    /\ layout' = [layout EXCEPT ![s] = panes]
    /\ zoom' = [zoom EXCEPT ![s] = None]
    /\ revision' = [revision EXCEPT ![s] = IF panes = <<>> THEN 0 ELSE r]
    /\ name' = [name EXCEPT ![s] = IF panes = <<>> THEN None ELSE @]
    /\ closing' = IF panes = <<>> THEN closing \ {s} ELSE closing

\* reflow_view: publishes when every PTY took its new size.
Reflow(s, fits) == IF fits THEN PublishViews({s}) ELSE UNCHANGED published

(***************************************************************************)
(* Names.                                                                   *)
(***************************************************************************)
Taken(n) == n \in pending \/ \E s \in Live : name[s] = n

\* NameReservation::acquire
Acquire(n) == ~Taken(n) /\ pending' = pending \cup {n} /\ UNCHANGED nextAutomatic

FreeNames == {n \in Name : n >= nextAutomatic /\ ~Taken(n)}

FirstFree == CHOOSE n \in FreeNames : \A m \in FreeNames : n <= m

\* NameReservation::acquire_automatic for client c, which goes on with op:
\* the next automatic name that is free, or no name at all any more.
AcquireAutomatic(c, op, target) ==
    IF FreeNames # {}
    THEN /\ pending' = pending \cup {FirstFree}
         /\ nextAutomatic' = FirstFree + 1
         /\ job' = [job EXCEPT ![c] = [op |-> op, name |-> FirstFree, target |-> target]]
    ELSE /\ nextAutomatic' = MaxName + 1
         /\ job' = [job EXCEPT ![c] = Idle]
         /\ UNCHANGED pending

\* NameReservation::drop of a reservation that is still active.
DropReservation(c) ==
    /\ job[c].op \in {"dropping", "failed"}
    /\ pending' = pending \ {job[c].name}
    /\ job' = [job EXCEPT ![c] = Idle]
    /\ UNCHANGED <<terminalVars, sessionVars, published, nextAutomatic>>

\* The admission gate: no create or split is under way.
GateFree == \A c \in Client : job[c].op \notin {"planned", "creating", "splitting", "dropping"}

(***************************************************************************)
(* Creating a session, or splitting a terminal.                             *)
(***************************************************************************)
\* The conditions of plan_split, apart from geometry.
CanSplit(t) ==
    /\ t \in terminals \ Managed
    /\ owner[t] \notin closing
    /\ Len(layout[owner[t]]) < MaxPanes

\* CreateSession, or manage's Start: reserves the name.
BeginCreate(c, n) ==
    /\ job[c].op = "idle" /\ GateFree
    /\ Acquire(n)
    /\ job' = [job EXCEPT ![c].op = "creating", ![c].name = n]
    /\ UNCHANGED <<terminalVars, sessionVars, published>>

BeginUnnamed(c) ==
    /\ job[c].op = "idle" /\ GateFree
    /\ AcquireAutomatic(c, "creating", None)
    /\ UNCHANGED <<terminalVars, sessionVars, published>>

\* SplitTerminal: plan_split before anything is built ...
PlanSplit(c, t) ==
    /\ job[c].op = "idle" /\ GateFree
    /\ CanSplit(t)
    /\ job' = [job EXCEPT ![c].op = "planned", ![c].target = t]
    /\ UNCHANGED <<terminalVars, sessionVars, published, names>>

\* ... and then a name for the terminal.
NameSplit(c) ==
    /\ job[c].op = "planned"
    /\ AcquireAutomatic(c, "splitting", job[c].target)
    /\ UNCHANGED <<terminalVars, sessionVars, published>>

\* The PTY or the child cannot be made.
FailSpawn(c) ==
    /\ job[c].op \in {"creating", "splitting"}
    /\ job' = [job EXCEPT ![c].op = "dropping"]
    /\ UNCHANGED <<terminalVars, sessionVars, published, names>>

\* A new session s with the single terminal t and the name that c reserved.
AddSession(c, s, t) ==
    /\ s \notin used
    /\ used' = used \cup {s}
    /\ owner' = [owner EXCEPT ![t] = s]
    /\ pending' = pending \ {job[c].name}
    /\ job' = [job EXCEPT ![c] = Idle]

\* commit without a placement.  Nothing is published: nobody is attached.
CommitCreate(c, t, s) ==
    /\ job[c].op = "creating"
    /\ life[t] = "none"
    /\ AddSession(c, s, t)
    /\ terminals' = terminals \cup {t}
    /\ life' = [life EXCEPT ![t] = "running"]
    /\ layout' = [layout EXCEPT ![s] = <<t>>]
    /\ name' = [name EXCEPT ![s] = job[c].name]
    /\ UNCHANGED <<closing, zoom, revision, published, nextAutomatic>>

\* The part of commit that places terminal t after the target of c.
Place(c, t, fits) ==
    LET target == job[c].target
        s == owner[target] IN
    /\ Arrange(s, InsertAt(layout[s], Position(s, target) + 1, t), None)
    /\ owner' = [owner EXCEPT ![t] = s]
    /\ terminals' = terminals \cup {t}
    /\ life' = [life EXCEPT ![t] = "running"]
    /\ UNCHANGED <<used, name, closing>>
    /\ Reflow(s, fits)

\* Mutant: the plan that was made before the child was spawned still counts.
CommitPlanned(c, t, fits) ==
    /\ job[c].op = "splitting"
    /\ life[t] = "none" /\ t \notin Managed
    /\ job[c].target \in terminals
    /\ pending' = pending \ {job[c].name}
    /\ Place(c, t, fits)
    /\ job' = [job EXCEPT ![c] = IF fits THEN Idle ELSE [@ EXCEPT !.op = "dropping"]]
    /\ UNCHANGED nextAutomatic

\* commit with a placement: the name goes first, then the split is planned
\* again.  When that, or the reflow, fails, the reservation is still active
\* and drop takes the name a second time; a terminal that is already placed
\* is killed and leaves through its waiter.
CommitSplit(c, t, fits) ==
    /\ job[c].op = "splitting"
    /\ life[t] = "none" /\ t \notin Managed
    /\ pending' = pending \ {job[c].name}
    /\ IF CanSplit(job[c].target)
       THEN /\ Place(c, t, fits)
            /\ job' = [job EXCEPT ![c] = IF fits THEN Idle ELSE [@ EXCEPT !.op = "dropping"]]
       ELSE /\ job' = [job EXCEPT ![c].op = "dropping"]
            /\ UNCHANGED <<terminalVars, sessionVars, published>>
    /\ UNCHANGED nextAutomatic

(***************************************************************************)
(* Moving a pane to a session of its own.                                   *)
(***************************************************************************)
\* promote_terminal and break_pane reserve the new session's name first.
BeginMove(c, t, n) ==
    /\ job[c].op = "idle"
    /\ Acquire(n)
    /\ job' = [job EXCEPT ![c] = [op |-> "moving", name |-> n, target |-> t]]
    /\ UNCHANGED <<terminalVars, sessionVars, published>>

BeginMoveUnnamed(c, t) ==
    /\ job[c].op = "idle"
    /\ AcquireAutomatic(c, "moving", t)
    /\ UNCHANGED <<terminalVars, sessionVars, published>>

Without(s, t) == RemoveAt(layout[s], Position(s, t))

CanPromote(t) ==
    /\ t \in terminals \ Managed
    /\ owner[t] \notin closing
    /\ Len(layout[owner[t]]) > 1

\* attached_pane_target, for an attachment that owns the layout lease and
\* has seen the current revision.
CanBreak(t) == CanPromote(t) /\ life[t] = "running"

\* Terminal t leaves session old for the new session s.
MoveTo(c, t, old, s) ==
    /\ AddSession(c, s, t)
    /\ layout' = [layout EXCEPT ![old] = Without(old, t), ![s] = <<t>>]
    /\ zoom' = [zoom EXCEPT ![old] = None]
    /\ revision' = [revision EXCEPT ![old] = @ + 1]
    /\ name' = [name EXCEPT ![s] = job[c].name]
    /\ UNCHANGED <<terminals, life, closing, nextAutomatic>>

\* promote_terminal: detach_terminal ignores a failing reflow.
Promote(c, s, fits) ==
    LET t == job[c].target
        old == owner[t] IN
    /\ job[c].op = "moving"
    /\ CanPromote(t)
    /\ MoveTo(c, t, old, s)
    /\ PublishViews(IF fits THEN {old, s} ELSE {s})

BreakPane(c, s) ==
    LET t == job[c].target
        old == owner[t] IN
    /\ job[c].op = "moving"
    /\ CanBreak(t)
    /\ MoveTo(c, t, old, s)
    /\ PublishViews({old, s})

\* break_pane, when its reflow fails: everything is put back, and the view
\* is published again.
UndoBreak(c) ==
    /\ job[c].op = "moving"
    /\ CanBreak(job[c].target)
    /\ job' = [job EXCEPT ![c].op = "failed"]
    /\ UNCHANGED <<terminalVars, sessionVars, names>>
    /\ PublishViews({owner[job[c].target]})

\* Either one finds its conditions not met.
RejectMove(c) ==
    /\ job[c].op = "moving"
    /\ ~CanBreak(job[c].target)
    /\ job' = [job EXCEPT ![c].op = "failed"]
    /\ UNCHANGED <<terminalVars, sessionVars, published, names>>

(***************************************************************************)
(* Editing views: one critical section each.                                *)
(***************************************************************************)
Edit(s) ==
    /\ s \in Live
    /\ \A q \in Session : revision[q] < MaxRevision
    /\ UNCHANGED <<terminalVars, used, closing, names, job>>

\* Mutant: names that are only reserved may be taken.
RenameOverPending(s, n) ==
    /\ Edit(s) /\ GateFree
    /\ s \notin closing /\ ~HasManaged(s)
    /\ ~\E q \in Live : name[q] = n
    /\ name' = [name EXCEPT ![s] = n]
    /\ revision' = [revision EXCEPT ![s] = @ + 1]
    /\ UNCHANGED <<layout, zoom>>
    /\ PublishViews({s})

RenameSession(s, n) ==
    /\ Edit(s) /\ GateFree
    /\ s \notin closing /\ ~HasManaged(s)
    /\ ~Taken(n)
    /\ name' = [name EXCEPT ![s] = n]
    /\ revision' = [revision EXCEPT ![s] = @ + 1]
    /\ UNCHANGED <<layout, zoom>>
    /\ PublishViews({s})

\* update_view: each terminal exactly once, in any order.  A failing reflow
\* keeps the new layout, unpublished.
UpdateView(s, panes, fits) ==
    /\ Edit(s)
    /\ Len(panes) = Len(layout[s]) /\ ToSet(panes) = PanesOf(s)
    /\ Arrange(s, panes, None)
    /\ UNCHANGED name
    /\ Reflow(s, fits)

\* swap_pane exchanges two neighbours, also around the end; both must run.
Swapped(s, i) ==
    LET j == (i % Len(layout[s])) + 1 IN
    [layout[s] EXCEPT ![i] = layout[s][j], ![j] = layout[s][i]]

Swaps(s) ==
    {Swapped(s, i) : i \in {k \in DOMAIN layout[s] :
        \A n \in {k, (k % Len(layout[s])) + 1} :
            layout[s][n] \notin Managed /\ life[layout[s][n]] = "running"}}

\* resize_pane, resize_divider and swap_pane, through resize_layout; the
\* first two change weights only.  A failing reflow puts everything back and
\* publishes the view again.
ResizeLayout(s, panes, fits) ==
    /\ Edit(s)
    /\ s \notin closing
    /\ IF fits THEN Arrange(s, panes, None) ELSE UNCHANGED <<layout, zoom, revision>>
    /\ UNCHANGED name
    /\ PublishViews({s})

\* set_view_zoom
SetViewZoom(s, t, fits) ==
    /\ Edit(s)
    /\ s \notin closing
    /\ t # zoom[s]
    /\ t = None \/ (t \in PanesOf(s) /\ life[t] = "running")
    /\ IF fits THEN Arrange(s, layout[s], t) ELSE UNCHANGED <<layout, zoom, revision>>
    /\ UNCHANGED name
    /\ PublishViews({s})

\* resize_view with another canvas size.
ResizeView(s) ==
    /\ Edit(s)
    /\ revision' = [revision EXCEPT ![s] = @ + 1]
    /\ UNCHANGED <<layout, zoom, name>>
    /\ PublishViews({s})

CanMerge(s) == s \in Live \ closing /\ ~HasManaged(s)

\* Mutant: the panes that move keep their owner.
MergeKeepingOwners(source, destination, fits) ==
    /\ source # destination
    /\ CanMerge(source) /\ CanMerge(destination)
    /\ Len(layout[source]) + Len(layout[destination]) <= MaxPanes
    /\ layout' = [layout EXCEPT ![source] = <<>>, ![destination] = @ \o layout[source]]
    /\ zoom' = [zoom EXCEPT ![source] = None, ![destination] = None]
    /\ revision' = [revision EXCEPT ![source] = 0, ![destination] = @ + 1]
    /\ name' = [name EXCEPT ![source] = None]
    /\ UNCHANGED <<terminalVars, used, closing, names, job>>
    /\ Reflow(destination, fits)

MergeSessions(source, destination, fits) ==
    /\ source # destination
    /\ CanMerge(source) /\ CanMerge(destination)
    /\ Len(layout[source]) + Len(layout[destination]) <= MaxPanes
    /\ layout' = [layout EXCEPT ![source] = <<>>, ![destination] = @ \o layout[source]]
    /\ zoom' = [zoom EXCEPT ![source] = None, ![destination] = None]
    /\ revision' = [revision EXCEPT ![source] = 0, ![destination] = @ + 1]
    /\ name' = [name EXCEPT ![source] = None]
    /\ owner' = [t \in Terminal |-> IF t \in PanesOf(source) THEN destination ELSE owner[t]]
    /\ UNCHANGED <<terminals, life, used, closing, names, job>>
    /\ Reflow(destination, fits)

(***************************************************************************)
(* The end of sessions and terminals.                                       *)
(***************************************************************************)
\* begin_termination
BeginTermination(s) ==
    /\ s \in Live
    /\ closing' = closing \cup {s}
    /\ UNCHANGED <<terminalVars, used, views, published, names, job>>

\* publish_ended: the child is gone and its output is read.
PublishEnded(t) ==
    /\ life[t] = "running"
    /\ life' = [life EXCEPT ![t] = "ended"]
    /\ UNCHANGED <<terminals, owner, sessionVars, published, names, job>>

\* Mutant: a pane leaves without a new revision.
RemoveSilently(t, fits) ==
    LET s == owner[t] IN
    /\ life[t] = "ended" /\ t \in terminals
    /\ terminals' = terminals \ {t}
    /\ owner' = [owner EXCEPT ![t] = None]
    /\ Shrink(s, Without(s, t), revision[s])
    /\ UNCHANGED <<life, used, names, job>>
    /\ IF fits THEN PublishViews({s}) ELSE ForgetView

\* remove_terminal, by the waiter; the last pane takes its session with it.
RemoveTerminal(t, fits) ==
    LET s == owner[t] IN
    /\ life[t] = "ended" /\ t \in terminals
    /\ terminals' = terminals \ {t}
    /\ owner' = [owner EXCEPT ![t] = None]
    /\ Shrink(s, Without(s, t), revision[s] + 1)
    /\ UNCHANGED <<life, used, names, job>>
    /\ IF fits THEN PublishViews({s}) ELSE ForgetView

(***************************************************************************)
(* The specification.                                                       *)
(***************************************************************************)
Init ==
    /\ terminals = {} /\ owner = [t \in Terminal |-> None]
    /\ life = [t \in Terminal |-> "none"]
    /\ used = {} /\ closing = {}
    /\ layout = [s \in Session |-> <<>>] /\ name = [s \in Session |-> None]
    /\ zoom = [s \in Session |-> None] /\ revision = [s \in Session |-> 0]
    /\ published = [t \in Terminal |-> None]
    /\ pending = {} /\ nextAutomatic = 1
    /\ job = [c \in Client |-> Idle]

Request(c) ==
    \/ \E n \in Name : BeginCreate(c, n)
    \/ BeginUnnamed(c)
    \/ \E t \in Terminal : PlanSplit(c, t)
    \/ NameSplit(c) \/ FailSpawn(c) \/ DropReservation(c)
    \/ \E t \in Terminal, s \in Session : CommitCreate(c, t, s)
    \/ \E t \in Terminal, fits \in BOOLEAN : CommitSplit(c, t, fits)
    \/ \E t \in Terminal, n \in Name : BeginMove(c, t, n)
    \/ \E t \in Terminal : BeginMoveUnnamed(c, t)
    \/ \E s \in Session, fits \in BOOLEAN : Promote(c, s, fits)
    \/ \E s \in Session : BreakPane(c, s)
    \/ UndoBreak(c) \/ RejectMove(c)

EditView(s) ==
    \/ \E n \in Name : RenameSession(s, n)
    \/ \E panes \in [DOMAIN layout[s] -> Terminal], fits \in BOOLEAN : UpdateView(s, panes, fits)
    \/ \E panes \in Swaps(s) \cup {layout[s]}, fits \in BOOLEAN : ResizeLayout(s, panes, fits)
    \/ \E t \in Terminal \cup {None}, fits \in BOOLEAN : SetViewZoom(s, t, fits)
    \/ ResizeView(s)

Lifecycle ==
    \/ \E s \in Session : BeginTermination(s)
    \/ \E t \in Terminal : PublishEnded(t) \/ \E fits \in BOOLEAN : RemoveTerminal(t, fits)

Next ==
    \/ \E c \in Client : Request(c)
    \/ \E s \in Session : EditView(s)
    \/ \E s, q \in Session, fits \in BOOLEAN : MergeSessions(s, q, fits)
    \/ Lifecycle

Spec == Init /\ [][Next]_vars

(***************************************************************************)
(* Properties.                                                              *)
(***************************************************************************)
\* Owners and layouts agree, each terminal is in one place, and a zoomed pane
\* is in its layout: what the code relies on where it indexes
\* registry.sessions by an owner, registry.terminals by a pane, or expects a
\* zoom target in the saved layout.  Task-managed roots retain one terminal,
\* whatever splits, moves and merges are under way.
Ownership ==
    /\ \A t \in terminals : owner[t] \in Live /\ t \in PanesOf(owner[t])
    /\ \A s \in Live :
         /\ \A t \in PanesOf(s) : t \in terminals /\ owner[t] = s
         /\ IsInjective(layout[s])
         /\ zoom[s] # None => zoom[s] \in PanesOf(s)
    /\ \A t \in terminals \cap Managed : layout[owner[t]] = <<t>>

\* A terminating session gains no pane, and none of its panes escapes to
\* another session, where its kill would not find it.
ClosingFrozen ==
    [][\A s \in closing :
         /\ PanesOf(s)' \subseteq PanesOf(s)
         /\ \A t \in PanesOf(s) : t \in terminals' => owner'[t] = s]_vars

\* Two sessions never have the same name, so a name selects at most one.
UniqueNames == \A s, q \in Live : name[s] = name[q] => s = q

\* Requests whose reservation is in force.  The one that is dropping may have
\* released its name in commit.
Holding(c) == job[c].op \in {"creating", "splitting", "moving", "failed"}

\* The name of such a request is among the pending ones, and is its own.
Held == \A c \in Client : Holding(c) => job[c].name \in pending

Apart == \A c, d \in Client : Holding(c) /\ Holding(d) /\ job[c].name = job[d].name => c = d

\* No session has a name that is reserved.
Fresh == \A s \in Live : name[s] \notin pending

NamesInv == Held /\ Apart /\ Fresh /\ UniqueNames

\* A reservation is dropped whose name another request has reserved since.
SecondRelease ==
    \E c, d \in Client :
        /\ job[c].op = "dropping" /\ job'[c].op = "idle"
        /\ Holding(d) /\ job[d].name = job[c].name

\* A name belongs to one request or to one session, however creates, splits,
\* moves and renames interleave, with one exception: commit releases the name of
\* a split before it plans the split again, and the drop of a reservation that
\* failed there releases the name once more, when another request may have it.
NamesLostOnlyBySecondRelease == [][NamesInv => NamesInv' \/ SecondRelease]_vars

\* A view revision orders the snapshots that attachments receive: none is
\* ahead of its session, and one with the current revision is the current
\* view, even after a change that was put back or not published.
ViewsOrdered ==
    \A t \in terminals :
        LET v == published[t] IN
        v # None /\ v.session = owner[t] =>
            /\ v.revision <= revision[owner[t]]
            /\ v.revision = revision[owner[t]] => v = ViewOf(owner[t])
=============================================================================
