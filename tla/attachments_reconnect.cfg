CONSTANTS
    a1 = a1
    t1 = t1
    s1 = s1
    NoOwner = NoOwner
    Attachment = {a1}
    Terminal = {t1}
    Session = {s1}
    MaxGeneration = 2
SPECIFICATION Spec
INVARIANTS
    NoOrphan
PROPERTIES
    InputLostOnlyByStaleAcquire
    GraceEnds
CHECK_DEADLOCK FALSE
