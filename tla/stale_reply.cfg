SPECIFICATION Spec
CONSTANTS
    MaxRuns = 2
    Parts = 1
INVARIANTS
    AnswersOwnPrompt
CHECK_DEADLOCK FALSE
