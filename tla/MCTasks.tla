------------------------------ MODULE MCTasks ------------------------------
\* ManagedTasks for TLC.  No symmetry: the run also checks liveness.
EXTENDS ManagedTasks
=============================================================================
