SPECIFICATION FairSpec
CONSTANTS
    Jobs = {j1, j2, j3, j4}
    Goroutines = {g1, g2}
    Loops = {reaper, cron}
    BatchSize = 3
    Passes = 2
INVARIANTS
    EachJobOnce
    NoSendOnClosed
    NothingLeftBehind
PROPERTIES
    ClaimedExecuted
    StopsWhenTold
CHECK_DEADLOCK FALSE
