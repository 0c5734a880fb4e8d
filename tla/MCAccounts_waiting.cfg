SPECIFICATION FairSpec
CONSTANTS
    Registers = {n1}
    EmailChanges = {}
    Starts = {s1, s2}
    Callbacks = {c1, c2}
    Founders = {}
    Emails = {a}
    Identities = {y1}
    None = None
    a = a
    c1 = c1
    c2 = c2
    n1 = n1
    s1 = s1
    s2 = s2
    y1 = y1
PROPERTY RequestsEnd
CHECK_DEADLOCK FALSE
