CONSTANTS
    Capacity = 5
    MaxAppend = 6
    MaxSequence = 12
SPECIFICATION Spec
INVARIANTS
    WindowExact
    FramesExact
CHECK_DEADLOCK FALSE
