CONSTANTS
    c1 = c1
    c2 = c2
    t1 = t1
    t2 = t2
    m1 = m1
    s1 = s1
    s2 = s2
    None = None
    Client = {c1, c2}
    Terminal = {t1, t2, m1}
    Managed = {m1}
    Session = {s1, s2}
    MaxName = 2
    MaxPanes = 2
    MaxRevision = 2
SPECIFICATION Spec
SYMMETRY Symmetry
INVARIANTS
    Ownership
    ViewsOrdered
PROPERTIES
    ClosingFrozen
    NamesLostOnlyBySecondRelease
CHECK_DEADLOCK FALSE
