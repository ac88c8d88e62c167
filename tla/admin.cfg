SPECIFICATION MCSpec
CONSTANTS
    Providers = {p1, p2}
    Builtin = {p1}
    Idents = {i1, i2}
    Calls = {1, 2}
    None = None
    MaxFaults = 1
    MaxLate = 1
INVARIANTS
    OneWorker
    PatientSettles
    PatientStopsHit
PROPERTIES
    PatientFollowed
CHECK_DEADLOCK FALSE
