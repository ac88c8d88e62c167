SPECIFICATION FairSpec
CONSTANTS
    Tasks = {t1}
    Idents = {i1}
    Providers = {p1, p2}
    None = None
    MaxChanges = 2
INVARIANTS
    AnswerIsWhole
    VerdictHolds
PROPERTIES
    NeverBackwards
    EveryClientEnds
CHECK_DEADLOCK FALSE
