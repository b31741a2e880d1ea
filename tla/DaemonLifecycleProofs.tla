----------------------- MODULE DaemonLifecycleProofs -----------------------
(***************************************************************************)
(* Proofs about DaemonLifecycle, for every set of connections, terminals    *)
(* and managed runs: its types, that a restart misses no terminal, and that *)
(* a run is started once.                                                   *)
(***************************************************************************)
EXTENDS DaemonLifecycle, TLAPS

USE DEF terminalVars, createVars, wakeups, loopVars, notLoop

(***************************************************************************)
(* The inductive invariant.                                                 *)
(***************************************************************************)
\* A create that has registered its terminal knows it.
CreatedKnown == \A c \in Connection : phase[c] = "registered" => created[c] \in Terminal

Typed == TypeOK /\ CreatedKnown

\* Creates and restarts hold the mutex of RestartState from their first step
\* to their last, so there is one of them at a time.
GateHeld ==
    \A c \in Connection : phase[c] \in {"creating", "registered", "killing"} => gate = c

\* A create that was admitted keeps the restart out until it is done, and a
\* restart keeps the creates out.
CreatesAdmitted ==
    \A c \in Connection :
        /\ phase[c] \in {"creating", "registered"} => restart = "accepting"
        /\ phase[c] = "killing" => restart = "draining"

DrainInv == Typed /\ GateHeld /\ CreatesAdmitted /\ DrainCovers

\* The restart has killed its targets and forgotten the managed runs: nothing
\* is admitted any more.
Cleared == restart = "draining" /\ \A c \in Connection : phase[c] # "killing"

\* A start under way is for a run without an entry.
RequestFresh ==
    \A c \in Connection : request[c] # None =>
        phase[c] \in {"creating", "registered"} /\ managed[request[c]] = Absent

\* Between its registration and its end the terminal of a run is known to the
\* start that made it or to the map of managed runs, until that is cleared.
RunsEntered ==
    \A t \in Terminal : runOf[t] # None =>
        \/ managed[runOf[t]] # Absent
        \/ Cleared
        \/ \E c \in Connection : phase[c] = "registered" /\ created[c] = t /\ request[c] = runOf[t]

RunInv == RequestFresh /\ RunsEntered /\ RunStartedOnce

(***************************************************************************)
(* Types.                                                                   *)
(***************************************************************************)
\* Every action of Next, one by one, so that the proofs below have one case
\* for each.
LEMMA NextCases ==
    ASSUME [Next]_vars
    PROVE  \/ \E c \in Connection : \/ BeginCreate(c) \/ FailCreate(c) \/ FinishCreate(c)
                                    \/ BeginRestart(c) \/ AcceptRestart(c)
                                    \/ CancelOtherConnections(c) \/ Close(c) \/ Accept(c)
           \/ \E c \in Connection, t \in Terminal :
                 Commit(c, t) \/ Kill(c, t) \/ KillTarget(c, t) \/ AbandonRestart(c, t)
           \/ \E c \in Connection, r \in Run :
                 ManageStart(c, r) \/ ManageStop(c, r) \/ ManageRelease(c, r)
           \/ \E t \in Terminal : Reap(t) \/ PublishEnded(t) \/ Remove(t)
           \/ RunLoop
           \/ UNCHANGED vars
BY DEF Next, Handler, Waiter

\* The accept loop changes nothing but its own state and the permits.
LEMMA LoopStep ==
    ASSUME TypeOK, RunLoop
    PROVE  /\ UNCHANGED notLoop
           /\ sessionPermit' \in BOOLEAN /\ connectionPermit' \in BOOLEAN
           /\ restartWake' \in BOOLEAN /\ armed' \in BOOLEAN /\ loop' \in Loop
<1> USE DEF TypeOK, Goto, Loop
<1>1. CASE ReadEver BY <1>1 DEF ReadEver
<1>2. CASE ReadDraining BY <1>2 DEF ReadDraining
<1>3. CASE ReadSessions BY <1>3 DEF ReadSessions
<1>4. CASE ReadConnections BY <1>4 DEF ReadConnections
<1>5. CASE StartSelect BY <1>5 DEF StartSelect
<1>6. CASE WakeOnSessions BY <1>6 DEF WakeOnSessions
<1>7. CASE WakeOnConnections BY <1>7 DEF WakeOnConnections
<1>8. CASE WakeOnRestart BY <1>8 DEF WakeOnRestart
<1>9. CASE StartupDeadline BY <1>9 DEF StartupDeadline
<1>10. CASE ReadLateSessions BY <1>10 DEF ReadLateSessions
<1>11. CASE ReadLateConnections BY <1>11 DEF ReadLateConnections
<1> QED BY <1>1, <1>2, <1>3, <1>4, <1>5, <1>6, <1>7, <1>8, <1>9, <1>10, <1>11 DEF RunLoop

\* Every step keeps the types.
LEMMA TypedStep ==
    ASSUME Typed, [Next]_vars
    PROVE  Typed'
<1> USE DEF Typed, TypeOK, CreatedKnown, Phase, Enter
<1>1. ASSUME NEW c \in Connection, BeginCreate(c) PROVE Typed'
  BY <1>1 DEF BeginCreate
<1>2. ASSUME NEW c \in Connection, FailCreate(c) PROVE Typed'
  BY <1>2 DEF FailCreate
<1>3. ASSUME NEW c \in Connection, FinishCreate(c) PROVE Typed'
  BY <1>3 DEF FinishCreate
<1>4. ASSUME NEW c \in Connection, BeginRestart(c) PROVE Typed'
  BY <1>4 DEF BeginRestart
<1>5. ASSUME NEW c \in Connection, AcceptRestart(c) PROVE Typed'
  BY <1>5 DEF AcceptRestart, WakeRestart
<1>6. ASSUME NEW c \in Connection, CancelOtherConnections(c) PROVE Typed'
  BY <1>6 DEF CancelOtherConnections
<1>7. ASSUME NEW c \in Connection, Close(c) PROVE Typed'
  BY <1>7 DEF Close
<1>8. ASSUME NEW c \in Connection, Accept(c) PROVE Typed'
  BY <1>8 DEF Accept, Goto, Loop
<1>9. ASSUME NEW c \in Connection, NEW t \in Terminal, Commit(c, t) PROVE Typed'
  BY <1>9 DEF Commit
<1>10. ASSUME NEW c \in Connection, NEW t \in Terminal, Kill(c, t) PROVE Typed'
  BY <1>10 DEF Kill
<1>11. ASSUME NEW c \in Connection, NEW t \in Terminal, KillTarget(c, t) PROVE Typed'
  BY <1>11 DEF KillTarget
<1>12. ASSUME NEW c \in Connection, NEW t \in Terminal, AbandonRestart(c, t) PROVE Typed'
  BY <1>12 DEF AbandonRestart, WakeRestart
<1>13. ASSUME NEW c \in Connection, NEW r \in Run, ManageStart(c, r) PROVE Typed'
  BY <1>13 DEF ManageStart
<1>14. ASSUME NEW c \in Connection, NEW r \in Run, ManageStop(c, r) PROVE Typed'
  BY <1>14 DEF ManageStop
<1>15. ASSUME NEW c \in Connection, NEW r \in Run, ManageRelease(c, r) PROVE Typed'
  BY <1>15 DEF ManageRelease
<1>16. ASSUME NEW t \in Terminal, Reap(t) PROVE Typed'
  BY <1>16 DEF Reap
<1>17. ASSUME NEW t \in Terminal, PublishEnded(t) PROVE Typed'
  BY <1>17 DEF PublishEnded
<1>18. ASSUME NEW t \in Terminal, Remove(t) PROVE Typed'
  BY <1>18 DEF Remove
<1>19. CASE RunLoop
  BY <1>19, LoopStep
<1>20. CASE UNCHANGED vars
  BY <1>20 DEF vars
<1> QED BY NextCases, <1>1, <1>2, <1>3, <1>4, <1>5, <1>6, <1>7, <1>8, <1>9, <1>10, <1>11, <1>12,
           <1>13, <1>14, <1>15, <1>16, <1>17, <1>18, <1>19, <1>20

\* The daemon starts in a state of the declared types ...
LEMMA InitTyped == Init => Typed
<1>1. Init => TypeOK
  <2> SUFFICES ASSUME Init PROVE TypeOK
    OBVIOUS
  <2>1. /\ phase \in [Connection -> Phase] /\ child \in [Terminal -> {"none", "spawned", "running", "reaped", "ended"}]
        /\ restart \in {"accepting", "draining"} /\ loop \in Loop
    BY DEF Init, Phase, Loop
  <2>2. /\ runOf \in [Terminal -> Run \cup {None}]
        /\ created \in [Connection -> Terminal \cup {None}]
        /\ request \in [Connection -> Run \cup {None}]
        /\ managed \in [Run -> Terminal \cup {Absent, Retired}]
    BY DEF Init
  <2> QED BY <2>1, <2>2 DEF Init, TypeOK
<1>2. Init => CreatedKnown
  BY DEF Init, CreatedKnown
<1> QED BY <1>1, <1>2 DEF Typed

\* ... with nothing created and no restart under way.
LEMMA InitDrains == Init => DrainInv
<1>1. Init => GateHeld /\ CreatesAdmitted
  BY DEF Init, GateHeld, CreatesAdmitted
<1>2. Init => DrainCovers
  BY DEF Init, DrainCovers
<1> QED BY <1>1, <1>2, InitTyped DEF DrainInv

\* Every state has the declared types: handlers, waiters, the restart and the
\* accept loop keep phases, terminals, runs and permits well formed.
THEOREM LifecycleTyped == Spec => []TypeOK
<1>1. Init => Typed
  BY InitTyped
<1>2. Typed /\ [Next]_vars => Typed'
  BY TypedStep
<1>3. Typed => TypeOK
  BY DEF Typed
<1> QED BY <1>1, <1>2, <1>3, PTL DEF Spec

(***************************************************************************)
(* The gate, and the terminals that a restart goes through.                 *)
(***************************************************************************)
LEMMA GateStep ==
    ASSUME Typed, GateHeld, CreatesAdmitted, [Next]_vars
    PROVE  (GateHeld /\ CreatesAdmitted)'
<1> USE LifecycleAssumption DEF Typed, TypeOK, GateHeld, CreatesAdmitted, Phase, Enter, Admitted
<1>1. ASSUME NEW c \in Connection, BeginCreate(c) PROVE (GateHeld /\ CreatesAdmitted)'
  BY <1>1 DEF BeginCreate
<1>2. ASSUME NEW c \in Connection, FailCreate(c) PROVE (GateHeld /\ CreatesAdmitted)'
  BY <1>2 DEF FailCreate
<1>3. ASSUME NEW c \in Connection, FinishCreate(c) PROVE (GateHeld /\ CreatesAdmitted)'
  BY <1>3 DEF FinishCreate
<1>4. ASSUME NEW c \in Connection, BeginRestart(c) PROVE (GateHeld /\ CreatesAdmitted)'
  BY <1>4 DEF BeginRestart
<1>5. ASSUME NEW c \in Connection, AcceptRestart(c) PROVE (GateHeld /\ CreatesAdmitted)'
  BY <1>5 DEF AcceptRestart
<1>6. ASSUME NEW c \in Connection, CancelOtherConnections(c) PROVE (GateHeld /\ CreatesAdmitted)'
  BY <1>6 DEF CancelOtherConnections
<1>7. ASSUME NEW c \in Connection, Close(c) PROVE (GateHeld /\ CreatesAdmitted)'
  BY <1>7 DEF Close
<1>8. ASSUME NEW c \in Connection, Accept(c) PROVE (GateHeld /\ CreatesAdmitted)'
  BY <1>8 DEF Accept
<1>9. ASSUME NEW c \in Connection, NEW t \in Terminal, Commit(c, t) PROVE (GateHeld /\ CreatesAdmitted)'
  BY <1>9 DEF Commit
<1>10. ASSUME NEW c \in Connection, NEW t \in Terminal, Kill(c, t) PROVE (GateHeld /\ CreatesAdmitted)'
  BY <1>10 DEF Kill
<1>11. ASSUME NEW c \in Connection, NEW t \in Terminal, KillTarget(c, t) PROVE (GateHeld /\ CreatesAdmitted)'
  BY <1>11 DEF KillTarget
<1>12. ASSUME NEW c \in Connection, NEW t \in Terminal, AbandonRestart(c, t) PROVE (GateHeld /\ CreatesAdmitted)'
  BY <1>12 DEF AbandonRestart
<1>13. ASSUME NEW c \in Connection, NEW r \in Run, ManageStart(c, r) PROVE (GateHeld /\ CreatesAdmitted)'
  BY <1>13 DEF ManageStart
<1>14. ASSUME NEW c \in Connection, NEW r \in Run, ManageStop(c, r) PROVE (GateHeld /\ CreatesAdmitted)'
  BY <1>14 DEF ManageStop
<1>15. ASSUME NEW c \in Connection, NEW r \in Run, ManageRelease(c, r) PROVE (GateHeld /\ CreatesAdmitted)'
  BY <1>15 DEF ManageRelease
<1>16. ASSUME NEW t \in Terminal, Reap(t) PROVE (GateHeld /\ CreatesAdmitted)'
  BY <1>16 DEF Reap
<1>17. ASSUME NEW t \in Terminal, PublishEnded(t) PROVE (GateHeld /\ CreatesAdmitted)'
  BY <1>17 DEF PublishEnded
<1>18. ASSUME NEW t \in Terminal, Remove(t) PROVE (GateHeld /\ CreatesAdmitted)'
  BY <1>18 DEF Remove
<1>19. CASE RunLoop
  BY <1>19, LoopStep DEF Killable, Cleared
<1>20. CASE UNCHANGED vars
  BY <1>20 DEF vars, Killable, Cleared
<1> QED BY NextCases, <1>1, <1>2, <1>3, <1>4, <1>5, <1>6, <1>7, <1>8, <1>9, <1>10, <1>11, <1>12,
           <1>13, <1>14, <1>15, <1>16, <1>17, <1>18, <1>19, <1>20

\* A restart that was granted covers every terminal, step by step.
LEMMA DrainStep ==
    ASSUME Typed, GateHeld, CreatesAdmitted, DrainCovers, [Next]_vars
    PROVE  DrainCovers'
<1> USE LifecycleAssumption
    DEF Typed, TypeOK, GateHeld, CreatesAdmitted, DrainCovers, Killable, Enter, Admitted
<1>1. ASSUME NEW c \in Connection, BeginCreate(c) PROVE DrainCovers'
  BY <1>1 DEF BeginCreate
<1>2. ASSUME NEW c \in Connection, FailCreate(c) PROVE DrainCovers'
  BY <1>2 DEF FailCreate
<1>3. ASSUME NEW c \in Connection, FinishCreate(c) PROVE DrainCovers'
  BY <1>3 DEF FinishCreate
<1>4. ASSUME NEW c \in Connection, BeginRestart(c) PROVE DrainCovers'
  BY <1>4 DEF BeginRestart
<1>5. ASSUME NEW c \in Connection, AcceptRestart(c) PROVE DrainCovers'
  BY <1>5 DEF AcceptRestart
<1>6. ASSUME NEW c \in Connection, CancelOtherConnections(c) PROVE DrainCovers'
  BY <1>6 DEF CancelOtherConnections
<1>7. ASSUME NEW c \in Connection, Close(c) PROVE DrainCovers'
  BY <1>7 DEF Close
<1>8. ASSUME NEW c \in Connection, Accept(c) PROVE DrainCovers'
  BY <1>8 DEF Accept
<1>9. ASSUME NEW c \in Connection, NEW t \in Terminal, Commit(c, t) PROVE DrainCovers'
  BY <1>9 DEF Commit
<1>10. ASSUME NEW c \in Connection, NEW t \in Terminal, Kill(c, t) PROVE DrainCovers'
  BY <1>10 DEF Kill
<1>11. ASSUME NEW c \in Connection, NEW t \in Terminal, KillTarget(c, t) PROVE DrainCovers'
  BY <1>11 DEF KillTarget
<1>12. ASSUME NEW c \in Connection, NEW t \in Terminal, AbandonRestart(c, t) PROVE DrainCovers'
  BY <1>12 DEF AbandonRestart
<1>13. ASSUME NEW c \in Connection, NEW r \in Run, ManageStart(c, r) PROVE DrainCovers'
  BY <1>13 DEF ManageStart
<1>14. ASSUME NEW c \in Connection, NEW r \in Run, ManageStop(c, r) PROVE DrainCovers'
  BY <1>14 DEF ManageStop
<1>15. ASSUME NEW c \in Connection, NEW r \in Run, ManageRelease(c, r) PROVE DrainCovers'
  BY <1>15 DEF ManageRelease
<1>16. ASSUME NEW t \in Terminal, Reap(t) PROVE DrainCovers'
  BY <1>16 DEF Reap
<1>17. ASSUME NEW t \in Terminal, PublishEnded(t) PROVE DrainCovers'
  BY <1>17 DEF PublishEnded
<1>18. ASSUME NEW t \in Terminal, Remove(t) PROVE DrainCovers'
  BY <1>18 DEF Remove
<1>19. CASE RunLoop
  BY <1>19, LoopStep DEF Killable, Cleared
<1>20. CASE UNCHANGED vars
  BY <1>20 DEF vars, Killable, Cleared
<1> QED BY NextCases, <1>1, <1>2, <1>3, <1>4, <1>5, <1>6, <1>7, <1>8, <1>9, <1>10, <1>11, <1>12,
           <1>13, <1>14, <1>15, <1>16, <1>17, <1>18, <1>19, <1>20

\* A restart misses no terminal: a create under way holds the gate until its
\* terminal is registered and started, and no create passes it afterwards, so
\* the targets that begin_cooperative_restart reads are all there is.
THEOREM RestartCoversAll == Spec => []DrainCovers
<1>1. Init => DrainInv
  BY InitDrains
<1>2. DrainInv /\ [Next]_vars => DrainInv'
  BY TypedStep, GateStep, DrainStep DEF DrainInv
<1>3. DrainInv => DrainCovers
  BY DEF DrainInv
<1> QED BY <1>1, <1>2, <1>3, PTL DEF Spec

(***************************************************************************)
(* Managed runs.                                                            *)
(***************************************************************************)
LEMMA RunStep ==
    ASSUME DrainInv, RunInv, [Next]_vars
    PROVE  RunInv'
<1> USE LifecycleAssumption
    DEF DrainInv, Typed, TypeOK, CreatedKnown, GateHeld, CreatesAdmitted, RunInv, RequestFresh,
        RunsEntered, RunStartedOnce, Cleared, Enter, Admitted, Absent, Retired
<1>1. ASSUME NEW c \in Connection, BeginCreate(c) PROVE RunInv'
  BY <1>1 DEF BeginCreate
<1>2. ASSUME NEW c \in Connection, FailCreate(c) PROVE RunInv'
  BY <1>2 DEF FailCreate
<1>3. ASSUME NEW c \in Connection, FinishCreate(c) PROVE RunInv'
  BY <1>3 DEF FinishCreate
<1>4. ASSUME NEW c \in Connection, BeginRestart(c) PROVE RunInv'
  BY <1>4 DEF BeginRestart
<1>5. ASSUME NEW c \in Connection, AcceptRestart(c) PROVE RunInv'
  BY <1>5 DEF AcceptRestart
<1>6. ASSUME NEW c \in Connection, CancelOtherConnections(c) PROVE RunInv'
  BY <1>6 DEF CancelOtherConnections
<1>7. ASSUME NEW c \in Connection, Close(c) PROVE RunInv'
  BY <1>7 DEF Close
<1>8. ASSUME NEW c \in Connection, Accept(c) PROVE RunInv'
  BY <1>8 DEF Accept
<1>9. ASSUME NEW c \in Connection, NEW t \in Terminal, Commit(c, t) PROVE RunInv'
  BY <1>9 DEF Commit
<1>10. ASSUME NEW c \in Connection, NEW t \in Terminal, Kill(c, t) PROVE RunInv'
  BY <1>10 DEF Kill
<1>11. ASSUME NEW c \in Connection, NEW t \in Terminal, KillTarget(c, t) PROVE RunInv'
  BY <1>11 DEF KillTarget
<1>12. ASSUME NEW c \in Connection, NEW t \in Terminal, AbandonRestart(c, t) PROVE RunInv'
  BY <1>12 DEF AbandonRestart
<1>13. ASSUME NEW c \in Connection, NEW r \in Run, ManageStart(c, r) PROVE RunInv'
  BY <1>13 DEF ManageStart
<1>14. ASSUME NEW c \in Connection, NEW r \in Run, ManageStop(c, r) PROVE RunInv'
  BY <1>14 DEF ManageStop
<1>15. ASSUME NEW c \in Connection, NEW r \in Run, ManageRelease(c, r) PROVE RunInv'
  BY <1>15 DEF ManageRelease
<1>16. ASSUME NEW t \in Terminal, Reap(t) PROVE RunInv'
  BY <1>16 DEF Reap
<1>17. ASSUME NEW t \in Terminal, PublishEnded(t) PROVE RunInv'
  BY <1>17 DEF PublishEnded
<1>18. ASSUME NEW t \in Terminal, Remove(t) PROVE RunInv'
  BY <1>18 DEF Remove
<1>19. CASE RunLoop
  BY <1>19, LoopStep DEF Killable, Cleared
<1>20. CASE UNCHANGED vars
  BY <1>20 DEF vars, Killable, Cleared
<1> QED BY NextCases, <1>1, <1>2, <1>3, <1>4, <1>5, <1>6, <1>7, <1>8, <1>9, <1>10, <1>11, <1>12,
           <1>13, <1>14, <1>15, <1>16, <1>17, <1>18, <1>19, <1>20

\* A run is started once, whatever is retried, stopped, released or restarted:
\* no two terminals were ever created for the same run.
THEOREM StartedOnce == Spec => []RunStartedOnce
<1>1. Init => DrainInv /\ RunInv
  <2>1. Init => RunInv
    BY DEF Init, RunInv, RequestFresh, RunsEntered, RunStartedOnce
  <2> QED BY <2>1, InitDrains
<1>2. DrainInv /\ RunInv /\ [Next]_vars => (DrainInv /\ RunInv)'
  BY TypedStep, GateStep, DrainStep, RunStep DEF DrainInv
<1>3. RunInv => RunStartedOnce
  BY DEF RunInv
<1> QED BY <1>1, <1>2, <1>3, PTL DEF Spec
=============================================================================
