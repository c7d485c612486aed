SPECIFICATION StuckSpec
CONSTANTS
    a = a
    b = b
    None = None
    Clients = {a, b}
    Pingers = {a}
    ChanCap = 1
    MaxEvents = 2
    MaxJoins = 2
PROPERTY LeaversGo
CHECK_DEADLOCK FALSE
