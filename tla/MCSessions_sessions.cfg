SPECIFICATION Instances
CONSTANTS
    Logins = {l1, l2}
    Refreshes = {r1, r2}
    Logouts = {o1}
    LogoutOthers = {w1}
    PasswordChanges = {c1}
    RoleCalls = {}
    Passwords = {p1, p2}
    FirstPassword = p1
    None = None
    IsSuperuser = FALSE
    RoleEdits = TRUE
    RedisRestarts = TRUE
    AccessLife = 1
    RefreshLife = 2
    TicksPerSecond = 2
    MaxSecond = 2
    p1 = p1
    p2 = p2
    l1 = l1
    l2 = l2
    r1 = r1
    r2 = r2
    o1 = o1
    w1 = w1
    c1 = c1
SYMMETRY Symmetry
INVARIANT TypeOK
INVARIANT RevocationOutlivesToken
INVARIANT SpentTokenIsUseless
INVARIANT RejectionIsJustified
INVARIANT OtherSessionsEnd
INVARIANT CallerKeepsItsSession
INVARIANT LiveSessionKnowsPassword
PROPERTY DeadSessionStaysDead
CHECK_DEADLOCK FALSE
