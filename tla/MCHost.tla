------------------------------- MODULE MCHost -------------------------------
EXTENDS HostConnection

CONSTANTS c1, c2, c3

MCAsks == [c \in Client |->
    CASE c = c1 -> {"connect", "quiet"}
      [] c = c2 -> {"connect", "enable"}
      [] c = c3 -> {"disconnect", "disable", "enable"}]
=============================================================================
