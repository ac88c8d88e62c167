SPECIFICATION Spec
CONSTANTS
    p1 = p1
    p2 = p2
    Providers <- OneProvider
    Order <- OneOrder
    Idents = {i1, i2}
    Tasks = {t1, t2, t3}
    None = None
    MaxRounds = 1
    MaxStops = 1
    MaxFaults = 1
    MaxCloses = 1
    MaxRestarts = 1
SYMMETRY Symmetry
INVARIANTS
    IInv
PROPERTIES
    ImplementsTaskPool
CHECK_DEADLOCK FALSE
