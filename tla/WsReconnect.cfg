SPECIFICATION FairSpec
CONSTANTS
    NumEndpoints = 2
    RaceCount = 2
    Reconnect = TRUE
    MaxAttempts = 2
    Heartbeat = TRUE
    MaxMissedPongs = 1
    Reqwest = TRUE
    MaxCmds = 4
INVARIANTS
    NoForgottenMessage
    RetryBudget
    EndpointChosen
    CloseIsFinal
PROPERTIES
    LossEndsConnection
    ImplementsContract
    ShutdownCompletes
    MessagesSettle
