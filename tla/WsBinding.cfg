SPECIFICATION FairSpec
CONSTANTS
    MaxClients = 2
    MaxEvents = 2
INVARIANTS
    DestroyedIsSilent
PROPERTIES
    DestroyReturns
    ReleasedEnds
CHECK_DEADLOCK FALSE
