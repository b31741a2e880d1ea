CONSTANTS
    c1 = c1
    c2 = c2
    c3 = c3
    t1 = t1
    t2 = t2
    r1 = r1
    r2 = r2
    None = None
    Client = {c1, c2, c3}
    Task = {t1}
    Run = {r1, r2}
    MaxRestarts = 1
    MaxSaveFailures = 1
SPECIFICATION DaemonSpec
INVARIANTS
    Stoppable
    RestartIdle
PROPERTIES
    RequestsAnswered
CHECK_DEADLOCK FALSE
