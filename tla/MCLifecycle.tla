---------------------------- MODULE MCLifecycle ----------------------------
\* DaemonLifecycle for TLC.  No symmetry: the run also checks liveness.
EXTENDS DaemonLifecycle
=============================================================================
