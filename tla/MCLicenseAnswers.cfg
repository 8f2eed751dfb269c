SPECIFICATION FairSpec
CONSTANTS
    r1 = r1
    r2 = r2
    r3 = r3
    c1 = c1
    c2 = c2
    c3 = c3
    NumFiles = 2
    Request = {r1, r2}
    Action <- BothActions
    Config <- AllFiles
    Content = {c1, c2}
    MaxFaults = 0
    MaxCrashes = 0
    Absent = Absent
    Unread = Unread
    Unreadable = Unreadable
CHECK_DEADLOCK FALSE
PROPERTY
    Answers
