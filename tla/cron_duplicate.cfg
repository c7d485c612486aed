SPECIFICATION Spec
CONSTANTS
    c1 = c1
    c2 = c2
    c3 = c3
    e1 = e1
    e2 = e2
    None = None
    Deployments <- MCTwoEngines
    Engines = {e1, e2}
    Crons = {c1}
    Period <- MCPeriod
    BadExpr = {}
    FirstFire = {0, 1}
    LastMinute = 1
    Tokens = {t1, t2, t3}
    TtlCovers = TRUE
    DelInTime = TRUE
    MaxFaults = 0
SYMMETRY Symmetry
INVARIANTS
    TypeOK
    Deduplicated
CHECK_DEADLOCK FALSE
