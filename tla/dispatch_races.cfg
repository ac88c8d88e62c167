SPECIFICATION Spec
CONSTANTS
    p1 = p1
    p2 = p2
    Providers <- TwoProviders
    Order <- TwoOrder
    Idents = {i1, i2}
    Tasks = {t1, t2}
    None = None
    MaxRounds = 1
    MaxStops = 1
    MaxFaults = 1
    MaxCloses = 1
    MaxRestarts = 0
SYMMETRY Symmetry
INVARIANTS
    WorkerOwnsTask
    PromptAtMostOnce
    ReplyMatchesStatus
    OpenPageHasLiveOwner
    ChatOnOwnPage
CHECK_DEADLOCK FALSE
