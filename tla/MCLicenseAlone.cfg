SPECIFICATION Spec
CONSTANTS
    r1 = r1
    r2 = r2
    r3 = r3
    c1 = c1
    c2 = c2
    c3 = c3
    NumFiles = 2
    Request = {r1}
    Action <- BothActions
    Config <- SavedConfigs
    Content = {c1, c2, c3}
    MaxFaults = 2
    MaxCrashes = 1
    Absent = Absent
    Unread = Unread
    Unreadable = Unreadable
SYMMETRY Symmetry
CHECK_DEADLOCK FALSE
INVARIANTS
    ManifestIsComplete
    HonestReport
    ConflictsAreReported
