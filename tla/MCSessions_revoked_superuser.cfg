SPECIFICATION Spec
CONSTANTS
    Logins = {l1, l2}
    Refreshes = {}
    Logouts = {}
    LogoutOthers = {w1}
    PasswordChanges = {}
    RoleCalls = {a1}
    Passwords = {p1}
    FirstPassword = p1
    None = None
    IsSuperuser = TRUE
    RoleEdits = FALSE
    RedisRestarts = FALSE
    AccessLife = 1
    RefreshLife = 2
    TicksPerSecond = 1
    MaxSecond = 0
    p1 = p1
    l1 = l1
    l2 = l2
    w1 = w1
    a1 = a1
SYMMETRY Symmetry
INVARIANT RevokedTokenIsUseless
CHECK_DEADLOCK FALSE
