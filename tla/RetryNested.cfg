SPECIFICATION Spec
CONSTANTS
    Requests = {r1}
    MaxInner = 1
    MaxOuter = 2
    MaxTimes = 1
INVARIANT
    NeverNested
CHECK_DEADLOCK FALSE
