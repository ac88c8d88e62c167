SPECIFICATION Spec
CONSTANTS
    Pids = {1, 2}
    Ports = {8010, 8011}
    None = None
    MaxRequests = 3
    MaxChanges = 2
INVARIANTS
    NoneForgotten
    OnlyMockPidsSignalled
PROPERTIES
    StopIsTrue
    EveryRequestEnds
CHECK_DEADLOCK FALSE
