SPECIFICATION FairSpec
CONSTANTS
    c1 = c1
    c2 = c2
    c3 = c3
    e1 = e1
    e2 = e2
    None = None
    Deployments <- MCTwoEngines
    Engines = {e1, e2}
    Crons = {c1}
    Period <- MCPeriod
    BadExpr = {}
    FirstFire = {None}
    LastMinute = 1
    Tokens = {t1, t2, t3}
    TtlCovers = TRUE
    DelInTime = TRUE
    MaxFaults = 1
PROPERTY CreatedIsFired
CHECK_DEADLOCK FALSE
