SPECIFICATION Spec
CONSTANTS
    Requests = {r1, r2, r3}
    ClientIds = {x1}
    None = None
    PostSeconds = {0, 5, 16}
    NotifyEvery = 15
    WorkerTimeout = 30
    r1 = r1
    r2 = r2
    r3 = r3
    x1 = x1
SYMMETRY Symmetry
INVARIANT TypeOK
INVARIANT NoForeignId
INVARIANT HeldLoopKills
CHECK_DEADLOCK FALSE
