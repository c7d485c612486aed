SPECIFICATION Spec
CONSTANTS
    a = a
    b = b
    None = None
    Clients = {a, b}
    Pingers = {a}
    ChanCap = 1
    MaxEvents = 2
    MaxJoins = 2
INVARIANTS
    TypeOK
    OneWriter
CHECK_DEADLOCK FALSE
