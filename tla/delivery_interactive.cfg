CONSTANTS
    Capacity = 1
    Interval = 2
    MaxSequence = 2
    MaxRevision = 1
    Window = 2
    FrameLimit = 1
    MinCharge = 1
    EventCapacity = 2
    QueueCapacity = 1
    Interactive = TRUE
    MaxConnections = 2
    MaxRequests = 1
SPECIFICATION Spec
INVARIANTS
    CursorSafe
PROPERTIES
    EndDelivered
    CatchesUp
CHECK_DEADLOCK FALSE
