SPECIFICATION Spec
CONSTANTS
    Logins = {l1, l2}
    Refreshes = {}
    Logouts = {}
    LogoutOthers = {w1}
    PasswordChanges = {c1}
    RoleCalls = {}
    Passwords = {p1, p2}
    FirstPassword = p1
    None = None
    IsSuperuser = FALSE
    RoleEdits = FALSE
    RedisRestarts = FALSE
    AccessLife = 1
    RefreshLife = 2
    TicksPerSecond = 1
    MaxSecond = 0
    p1 = p1
    p2 = p2
    l1 = l1
    l2 = l2
    w1 = w1
    c1 = c1
SYMMETRY Symmetry
INVARIANT OldPasswordSessionsEnd
CHECK_DEADLOCK FALSE
