CONSTANTS
    Capacity = 2
    Interval = 4
    MaxSequence = 3
    MaxRevision = 2
    Window = 2
    FrameLimit = 2
    MinCharge = 1
    EventCapacity = 3
    QueueCapacity = 2
    Interactive = FALSE
    MaxConnections = 2
    MaxRequests = 1
SPECIFICATION Spec
INVARIANTS
    FramesAccepted
    FlowControl
    ScreenFaithful
    ReplayExact
PROPERTIES
    ViewSpec
CHECK_DEADLOCK FALSE
