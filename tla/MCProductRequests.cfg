SPECIFICATION Spec
CONSTANTS
    d1 = d1
    d2 = d2
    s1 = s1
    i1 = i1
    i2 = i2
    p1 = p1
    p2 = p2
    p3 = p3
    p4 = p4
    Deleter = {d1, d2}
    Saver = {s1}
    Importer = {i1, i2}
    Product = {p1, p2, p3}
    Setting <- Settings
    Savable <- SomeSavable
    Bundle <- Bundles
    MaxFaults = 3
CHECK_DEADLOCK FALSE
INVARIANTS
    NoOrphans
    KeysStayUnique
PROPERTIES
    AnswersAreTrue
    OthersUntouched
    ImportsAreTrue
