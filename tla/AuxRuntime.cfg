SPECIFICATION AuxFairSpec
CONSTANTS
    Calls = {c1, c2, c3}
    None = None
    MaxLines = 1
INVARIANTS
    WorkerShared
PROPERTIES
    AnsweredReturns
CHECK_DEADLOCK FALSE
