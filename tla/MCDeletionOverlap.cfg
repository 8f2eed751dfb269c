SPECIFICATION Spec
CONSTANTS
    d1 = d1
    d2 = d2
    s1 = s1
    i1 = i1
    i2 = i2
    p1 = p1
    p2 = p2
    p3 = p3
    p4 = p4
    Deleter = {d1, d2}
    Saver = {s1}
    Importer = {}
    Product = {p1}
    Setting <- AtOnce
    Savable <- OneSavable
    Bundle = {}
    MaxFaults = 0
CHECK_DEADLOCK FALSE
INVARIANT
    DeletionIsComplete
