SPECIFICATION FairSpecReady
CONSTANTS
    p1 = p1
    p2 = p2
    Providers <- TwoProviders
    Order <- TwoOrder
    Idents = {i1, i2}
    Tasks = {t1, t2}
    None = None
    MaxRounds = 1
    MaxStops = 1
    MaxFaults = 0
    MaxCloses = 1
    MaxRestarts = 0
INVARIANTS
    EvenSpread
PROPERTIES
    EveryTaskSettles
CHECK_DEADLOCK FALSE
