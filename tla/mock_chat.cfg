SPECIFICATION Spec
CONSTANTS
    MaxRuns = 4
    MaxTroubles = 4
INVARIANTS
    AskedOnce
    CalmRunsAnswered
PROPERTIES
    ImplementsChatPage
CHECK_DEADLOCK FALSE
