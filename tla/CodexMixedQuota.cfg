SPECIFICATION Spec
CONSTANTS
    q1 = q1
    q2 = q2
    Quotas <- MCQuotas
    NoQuota = NoQuota
    NOW <- MCNOW
    Minute = 3
    Modes = {"serial", "stdin"}
    ReadMax = 2
    LineMax = 3
    RetryAfter = 1
    RefreshAfter = 2
    StaleAfter = 4
    MaxPause = 1
    Back = 2
    MaxWire = 5
    MaxAsks = 1
    Tries = 4
    MaxFaults = 1
INVARIANT
    FramesWhole
CHECK_DEADLOCK FALSE
