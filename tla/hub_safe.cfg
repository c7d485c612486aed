SPECIFICATION FairSpec
CONSTANTS
    a = a
    b = b
    None = None
    Clients = {a, b}
    Pingers = {a}
    ChanCap = 1
    MaxEvents = 2
    MaxJoins = 3
INVARIANTS
    NothingSkipped
    NoWriteAfterReturn
PROPERTIES
    EveryEventSent
    LeaversGo
CHECK_DEADLOCK FALSE
