----------------------------- MODULE MCRegistry -----------------------------
\* SessionRegistry for TLC: the instance is in registry.cfg.
EXTENDS SessionRegistry

Symmetry == Permutations(Client) \cup Permutations(Session) \cup Permutations(Terminal \ Managed)
=============================================================================
