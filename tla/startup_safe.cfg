SPECIFICATION FairSpec
CONSTANTS
    Apis = {a1}
    Workers = {w1}
    MaxAttempts = 10
    MaxOutages = 3
    MaxStops = 2
PROPERTIES
    EveryoneRuns
CHECK_DEADLOCK FALSE
