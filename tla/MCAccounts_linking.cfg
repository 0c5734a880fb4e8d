SPECIFICATION Spec
CONSTANTS
    Registers = {n1}
    EmailChanges = {e1}
    Starts = {s1, s2}
    Callbacks = {c1, c2}
    Founders = {f1}
    Emails = {a, b}
    Identities = {y1, y2}
    None = None
    a = a
    b = b
    c1 = c1
    c2 = c2
    e1 = e1
    f1 = f1
    n1 = n1
    s1 = s1
    s2 = s2
    y1 = y1
    y2 = y2
SYMMETRY Symmetry
INVARIANT TypeOK
INVARIANT LoggedInAsLinked
INVARIANT NoOrphanAccount
INVARIANT OneLoginPerState
INVARIANT ServerErrorIsRace
CHECK_DEADLOCK FALSE
