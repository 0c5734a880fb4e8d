SPECIFICATION Spec
CONSTANTS
    Logins = {l1, l2, l3, l4}
    Readers = {c1}
    PageSize = 2
    MaxNow = 3
    l1 = l1
    l2 = l2
    l3 = l3
    l4 = l4
    c1 = c1
SYMMETRY Symmetry
INVARIANT TypeOK
INVARIANT NothingIsMissed
CHECK_DEADLOCK FALSE
