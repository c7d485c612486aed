SPECIFICATION FairSpec
CONSTANTS
    c1 = c1
    c2 = c2
    c3 = c3
    e1 = e1
    e2 = e2
    None = None
    Deployments <- MCDeployments
    Engines = {e1, e2}
    Crons = {c1, c2, c3}
    Period <- MCPeriod
    BadExpr = {c3}
    FirstFire = {0}
    LastMinute = 2
    Tokens = {t1, t2, t3}
    TtlCovers = FALSE
    DelInTime = TRUE
    MaxFaults = 1
INVARIANTS
    OncePerSlot
PROPERTIES
    UsesLock
    ReleasesOwnLocks
    MovesOnAfterJob
    DueIsTried
CHECK_DEADLOCK FALSE
