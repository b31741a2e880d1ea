CONSTANTS
    c1 = c1
    t1 = t1
    r1 = r1
    None = None
    Client = {c1}
    Task = {t1}
    Run = {r1}
    MaxRestarts = 1
    MaxSaveFailures = 0
SPECIFICATION DaemonSpec
PROPERTIES
    RestartAnswered
CHECK_DEADLOCK FALSE
