SPECIFICATION Spec
CONSTANTS
    Ids = {b1, b2, b3, b4}
    Idents = {i1, i2}
    None = None
    MaxFaults = 2
    MaxCloses = 2
    MaxBlind = 1
INVARIANTS
    OrphansAccounted
    CalmKeepsProfile
    NeverRefused
PROPERTIES
    StartsEnd
CHECK_DEADLOCK FALSE
