SPECIFICATION FairSpec
CONSTANTS
    a1 = a1
    s1 = s1
    f1 = f1
    f2 = f2
    v1 = v1
    b1 = b1
    l1 = l1
    here = here
    there = there
    None = None
    File = {f1, f2}
    Value = {v1}
    Branch = {b1}
    Source = {l1}
    Place = {here, there}
    Applier = {a1}
    Restorer = {s1}
    Setting <- Beginnings
    Savable <- Editable
    Edited <- OtherProfiles
CHECK_DEADLOCK FALSE
INVARIANTS
    ResultsAreTrue
    LogIsTrue
    NothingIsForgotten
PROPERTIES
    WritesWhatWasShown
    StaleForAReason
    Answered
