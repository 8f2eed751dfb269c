SPECIFICATION Spec
CONSTANTS
    r1 = r1
    r2 = r2
    r3 = r3
    c1 = c1
    c2 = c2
    c3 = c3
    NumFiles = 2
    Request = {r1, r2}
    Action <- BothActions
    Config <- AllFiles
    Content = {c1, c2}
    MaxFaults = 1
    MaxCrashes = 0
    Absent = Absent
    Unread = Unread
    Unreadable = Unreadable
SYMMETRY Symmetry
CHECK_DEADLOCK FALSE
INVARIANTS
    BackupCoversMoves
    MovesWhatWasShown
    IInv
    MovesOnce
PROPERTY
    ImplementsDirectory
