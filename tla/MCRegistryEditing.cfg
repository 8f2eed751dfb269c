SPECIFICATION Spec
CONSTANTS
    r1 = r1
    r2 = r2
    u1 = u1
    u2 = u2
    v1 = v1
    b1 = b1
    Request = {r1, r2}
    Editor = {u1, u2}
    Value = {v1}
    Branch = {b1}
    Data = {"a", "b", "c"}
    Preset = {"p1", "p2", "p3"}
    Applied = "p1"
    Configuration <- Configurations
    Setting <- Beginnings
    Form <- Forms
    MaxTargets = 2
    MaxPresets = 2
CHECK_DEADLOCK FALSE
INVARIANTS
    ResultsAreTrue
    LogIsTrue
    StaysUsable
PROPERTIES
    WritesWhatWasShown
    Answered
