---------------------------- MODULE TerminalView ----------------------------
(***************************************************************************)
(* What an attached client is promised about a terminal's output: its       *)
(* screen moves forward through what the terminal has produced, whatever    *)
(* transport, replay or replacement carries it there, and it is told that   *)
(* the terminal ended only when its screen shows all of the output.         *)
(***************************************************************************)
EXTENDS Naturals

VARIABLES
    produced,  \* bytes of output so far
    shown,     \* the boundary the client's screen represents
    closed,    \* no more output will come
    finished   \* the client was told so

viewVars == <<produced, shown, closed, finished>>

ViewInit == produced = 0 /\ shown = 0 /\ ~closed /\ ~finished

Produce ==
    /\ ~closed
    /\ produced' \in Nat /\ produced' > produced
    /\ UNCHANGED <<shown, closed, finished>>

Close == ~closed /\ closed' /\ UNCHANGED <<produced, shown, finished>>

Show ==
    /\ shown' \in (shown + 1)..produced
    /\ UNCHANGED <<produced, closed, finished>>

Finish ==
    /\ closed /\ shown = produced
    /\ finished'
    /\ UNCHANGED <<produced, shown, closed>>

ViewNext == Produce \/ Close \/ Show \/ Finish

ViewSpec == ViewInit /\ [][ViewNext]_viewVars
=============================================================================
