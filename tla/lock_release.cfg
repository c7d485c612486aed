SPECIFICATION Spec
CONSTANTS
    Clients = {c1, c2, c3}
    TtlCovers = FALSE
    DelInTime = FALSE
    Tokens = {t1, t2, t3, t4}
    None = None
PROPERTIES ReleasesOnlyOwn
CHECK_DEADLOCK FALSE
