CONSTANTS
    a1 = a1
    a2 = a2
    t1 = t1
    t2 = t2
    s1 = s1
    s2 = s2
    NoOwner = NoOwner
    Attachment = {a1, a2}
    Terminal = {t1, t2}
    Session = {s1, s2}
    MaxGeneration = 0
SPECIFICATION Spec
SYMMETRY Symmetry
INVARIANTS
    LayoutNotified
PROPERTIES
    LeaseHandovers
CHECK_DEADLOCK FALSE
