CONSTANTS
    c1 = c1
    c2 = c2
    c3 = c3
    t1 = t1
    t2 = t2
    r1 = r1
    None = None
    Connection = {c1, c2, c3}
    Terminal = {t1, t2}
    Run = {r1}
    MaxManaged = 1
SPECIFICATION Spec
INVARIANTS
    DrainCovers
    RunStartedOnce
PROPERTIES
    EndsWhenDone
CHECK_DEADLOCK FALSE
