SPECIFICATION Spec
CONSTANTS
    Calls = {c1, c2}
    Configs <- MCConfigs
    Multiplier = 2
    Samples = {1, 2}
    NoTimeout = NoTimeout
    Evaluations = {e1, e2}
    Hosts = {h1, h2}
    Addresses = {a1, a2}
    Rtts = {40, 300}
    WindowSize = 2
    Nobody = Nobody
    Interval = 2
    PongTimeout = 3
    MaxMissed = 3
    MaxSamples = 3
    MaxAge = 4
    MaxFlying = 4
INVARIANTS
    TimeoutServes
    LevelsCurrent
    UnsubscribeEnds
    SilenceJudged
CHECK_DEADLOCK FALSE
