SPECIFICATION FairSpec
CONSTANTS
    top = top
    other = other
    sub = sub
    a = a
    b = b
    c = c
    None = None
    Path = {top, other, sub, a, b, c}
    ParentOf <- Tree
    Setting <- Beginnings
    MaxFiles = 2
    MaxTotal = 3
    MaxEntries = 3
CHECK_DEADLOCK FALSE
INVARIANTS
    ArchiveIsIntact
    LimitsHold
    NothingIsSilent
    NoLeftovers
PROPERTY
    Ends
