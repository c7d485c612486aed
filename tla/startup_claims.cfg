SPECIFICATION Spec
CONSTANTS
    Apis = {a1}
    Workers = {w1}
    MaxAttempts = 10
    MaxOutages = 2
    MaxStops = 1
INVARIANTS
    TypeOK
    StartedConnected
    RetryHelps
    RunningIsRegistered
CHECK_DEADLOCK FALSE
