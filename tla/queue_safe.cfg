SPECIFICATION Spec
CONSTANTS
    u1 = u1
    u2 = u2
    p1 = p1
    p2 = p2
    r1 = r1
    Updates = {u1, u2}
    Pauses = {p1, p2}
    Resumes = {r1}
    Policies <- MCPolicies
    AskedFor <- MCAskedFor
    Overrides <- MCOverrides
    DefaultMax = 3
    MaxDelay = 1440
    MaxInt = 153722867
    MaxFaults = 1
    None = None
    Deleted = Deleted
INVARIANTS
    PauseHolds
    PolicyOfOneMoment
    WithinCap
    NearNominal
CHECK_DEADLOCK FALSE
