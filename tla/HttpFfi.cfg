SPECIFICATION FairSpec
CONSTANTS
    Calls = {a1}
    MaxClients = 2
    MaxChunks = 2
    MaxCancelAlls = 1
INVARIANTS
    CallsSettled
    LateAtMostOnce
PROPERTIES
    CancelledEnds
CHECK_DEADLOCK FALSE
