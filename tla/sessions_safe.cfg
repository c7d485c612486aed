SPECIFICATION FairSpec
CONSTANTS
    Alice = Alice
    alice = alice
    bob = bob
    t1 = t1
    t2 = t2
    c1 = c1
    c2 = c2
    None = None
    Spellings = {Alice, alice}
    Lower <- MCLower
    Tokens = {t1, t2}
    Clients = {c1, c2}
    MaxFaults = 2
INVARIANTS
    OneAccountPerAddress
    LoggedOutRevoked
PROPERTIES
    SessionEnds
    DeactivationEnds
CHECK_DEADLOCK FALSE
