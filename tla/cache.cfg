CONSTANTS
    None = None
    Limit = 1
    CompactAt = 1
    MaxIncidents = 2
    MaxSnapshots = 1
    MaxReplay = 1
    Slots = 2
    Permits = 3
    Seed = 0
    MaxSequence = 2
    MaxTranscript = 1
    ClearAt = {0}
SPECIFICATION Spec
INVARIANTS
    Durable
    HistoryExact
    GapShown
PROPERTIES
    WriterRecovers
CHECK_DEADLOCK FALSE
