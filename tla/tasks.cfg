CONSTANTS
    t1 = t1
    r1 = r1
    r2 = r2
    i1 = i1
    i2 = i2
    None = None
    Task = {t1}
    MaxUpdates = 1
    Run = {r1, r2}
    Instance = {i1, i2}
    MaxFaults = 2
SPECIFICATION Spec
INVARIANTS
    RunCreatedOnce
    OneProcessPerTask
    Recoverable
    SnapshotSent
CHECK_DEADLOCK FALSE
PROPERTIES
    OutcomesSaved
    StopHonoured
    OutcomesReleased
