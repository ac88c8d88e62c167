SPECIFICATION FairSpec
CONSTANTS
    MaxRuns = 3
    Parts = 2
PROPERTIES
    SubmitsOwnPrompt
    EveryRunEnds
CHECK_DEADLOCK FALSE
