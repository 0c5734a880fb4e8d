SPECIFICATION FairSpec
CONSTANTS
    Plain = {p1, p2}
    Nested = {n1, n2, n3}
    Capacity = 3
    p1 = p1
    p2 = p2
    n1 = n1
    n2 = n2
    n3 = n3
INVARIANT TypeOK
INVARIANT Conserved
INVARIANT StallNeedsFullHouse
PROPERTY RequestsEnd
CHECK_DEADLOCK FALSE
