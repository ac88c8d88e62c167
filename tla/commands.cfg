SPECIFICATION MCSpec
CONSTANTS
    Workers = {w1, w2}
    Commands = {1, 2, 3}
    MaxShared = 2
    None = None
INVARIANTS
    CommandConserved
    OnlyTargetTakes
    AloneNeverBlocked
    OvertakenOnlyBehind
PROPERTIES
    ResolvesUnlessBlocked
    ImplementsCommandBox
CHECK_DEADLOCK FALSE
