CONSTANTS
    c1 = c1
    c2 = c2
    c3 = c3
    Old = Old
    None = None
    Client = {c1, c2, c3}
    Asks <- MCAsks
    MaxFaults = 1
    MaxConsents = 1
SPECIFICATION HostSpec
INVARIANTS
    DisconnectFinal
    MasterOwned
    ReadyComplete
PROPERTIES
    DisconnectAnswered
CHECK_DEADLOCK FALSE
