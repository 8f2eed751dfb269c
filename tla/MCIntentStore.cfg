SPECIFICATION Spec
CONSTANTS
    r1 = r1
    r2 = r2
    r3 = r3
    s1 = s1
    s2 = s2
    Request = {r1, r2, r3}
    Subject = {s1, s2}
    Store = {"profile", "setup"}
    Limit = 2
    MaxTokens = 3
    MaxRestarts = 1
SYMMETRY Symmetry
CHECK_DEADLOCK FALSE
INVARIANTS
    AtMostOnce
    OnlyWhatWasShown
    Bounded
    RefusedForAReason
    ResultIsThere
    IInv
