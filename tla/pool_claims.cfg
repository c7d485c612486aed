SPECIFICATION Spec
CONSTANTS
    Jobs = {j1, j2, j3, j4, j5, j6, j7}
    Goroutines = {g1, g2}
    Loops = {reaper}
    BatchSize = 3
    Passes = 2
SYMMETRY Symmetry
INVARIANTS
    TypeOK
    InFlightBounded
    AvailableAreIdle
CHECK_DEADLOCK FALSE
