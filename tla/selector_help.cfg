SPECIFICATION Spec
CONSTANTS
    w1 = w1
    w2 = w2
    w3 = w3
    Workers = {w1, w2, w3}
    Locked = {w1, w2}
    None = None
    MaxCalls = 2
    MaxFaults = 1
INVARIANTS
    SelfHelpFails
PROPERTIES
    CircleCostsOne
    HandlersEnd
    QuestionsAreAsked
CHECK_DEADLOCK FALSE
