SPECIFICATION Spec
CONSTANTS
    Requests = {r1, r2, r3, r4}
    Limit = 1
    WindowSeconds = 2
    MsPerSecond = 2
    FailOpen = FALSE
    NoKey = NoKey
    MaxNow = 6
    r1 = r1
    r2 = r2
    r3 = r3
    r4 = r4
SYMMETRY Symmetry
INVARIANT TypeOK
INVARIANT AtMostLimitPerWindow
INVARIANT BurstIsBounded
INVARIANT QuotaIsHonoured
INVARIANT WaitingIsEnough
PROPERTY ImplementsQuota
CHECK_DEADLOCK FALSE
