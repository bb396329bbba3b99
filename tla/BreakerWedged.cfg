SPECIFICATION FairSpec
CONSTANTS
    FailureThreshold = 2
    SuccessThreshold = 2
    ResetTimeout = 2
    MaxProbes = 1
    ProbeCap = 2
    Requests = {r1, r2, r3}
PROPERTIES
    HalfOpenAlwaysEnds
