SPECIFICATION MCSpec
CONSTANTS
    Requests = {r1, r2}
    MaxInner = 2
    MaxOuter = 3
    MaxTimes = 1
    SharedInner = 1
    SharedAttempts = 3
    SnapAttempts = 2
SYMMETRY Symmetry
INVARIANTS
    SendBudget
    AttemptsTold
CHECK_DEADLOCK FALSE
