SPECIFICATION Spec
CONSTANTS
    t1 = t1
    t2 = t2
    t3 = t3
    p1 = p1
    p2 = p2
    Thread = {t1, t2}
    Row <- Rows
    Scrap = Scrap
    NoCall = NoCall
    Modes = {TRUE, FALSE}
    MaxFaults = 2
SYMMETRY Symmetry
INVARIANTS
    UniqueKeys
    IInv
PROPERTIES
    DamageIsKept
    IsAtomic
