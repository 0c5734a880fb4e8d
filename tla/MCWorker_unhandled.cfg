SPECIFICATION Spec
CONSTANTS
    Requests = {r1, r2}
    ClientIds = {x1}
    None = None
    PostSeconds = {0, 5}
    NotifyEvery = 15
    WorkerTimeout = 30
    r1 = r1
    r2 = r2
    x1 = x1
SYMMETRY Symmetry
INVARIANT EventsCarryTheirId
CHECK_DEADLOCK FALSE
