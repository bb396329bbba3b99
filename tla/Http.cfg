SPECIFICATION Spec
CONSTANTS
    FailureThreshold = 1
    SuccessThreshold = 1
    ResetTimeout = 1
    MaxProbes = 1
    ProbeCap = 2
    Requests = {a1, b1}
    Registered = {a1}
    MaxConcurrency = 1
    MaxChanges = 1
    MaxCancelAlls = 1
INVARIANTS
    PermitsConserved
    AccountsRight
    PendingAccurate
    OnlyExposedCancelled
