SPECIFICATION Spec
CONSTANTS
    o1 = o1
    p1 = p1
    u1 = u1
    u2 = u2
    c1 = c1
    c2 = c2
    None = None
    Orgs = {o1}
    Projects = {p1}
    Users = {u1, u2}
    Clients = {c1, c2}
    MaxKeys = 3
    MaxFaults = 0
SYMMETRY UserClientSymmetry
INVARIANT OldKeyInvalidated
CHECK_DEADLOCK FALSE
