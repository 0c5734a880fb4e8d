SPECIFICATION Spec
CONSTANTS
    Creates = {n1}
    Removes = {d1}
    Modifies = {m1, m2}
    Assigns = {a1}
    Revokes = {v1, v2}
    Users = {alice, root}
    Superusers = {root}
    Titles = {user, gold, plus}
    Labels = {free, vip}
    Customs = {k1}
    Seed = seed
    seed = seed
    DefaultTitle = user
    None = None
    MaxRequests = 3
    a1 = a1
    alice = alice
    d1 = d1
    free = free
    gold = gold
    k1 = k1
    m1 = m1
    m2 = m2
    n1 = n1
    plus = plus
    root = root
    user = user
    v1 = v1
    v2 = v2
    vip = vip
SYMMETRY Symmetry
INVARIANT TypeOK
INVARIANT AnswerIsApplied
INVARIANT ModificationIsApplied
INVARIANT ServerErrorIsConflict
PROPERTY DefaultRoleStays
CHECK_DEADLOCK FALSE
