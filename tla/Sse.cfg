SPECIFICATION SseSpec
CONSTANTS
    MaxRetries = 2
    NumEvents = 3
    MaxCloses = 2
    MaxBytes = 5
    Ops = {o1, o2}
    MaxLines = 3
INVARIANTS
    ConnectBudget
    StopsSoon
    DeliveryByLineOrder
    ChunksInvisible
    HostTold
    WaitsForOneLine
PROPERTIES
    HostReleased
