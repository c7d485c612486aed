SPECIFICATION Spec
CONSTANTS
    j1 = j1
    j2 = j2
    j3 = j3
    q1 = q1
    q2 = q2
    w1 = w1
    w2 = w2
    c1 = c1
    c2 = c2
    None = None
    Jobs = {j1, j2}
    Queues = {q1}
    Workers = {w1, w2}
    Retriers = {}
    QueueOf <- MCOneQueue
    Priority <- MCPriority
    QueuePriority <- MCQueuePriority
    Concurrency <- MCLimitOne
    Known = {j1}
    MaxRetries = 2
    BatchSize = 2
    PoolSize = 1
    LiveReclaim = FALSE
    MaxFaults = 0
    MaxAttempts = 3
SYMMETRY WorkerSymmetry
INVARIANTS
    ConcurrencyRespected
    PendingIsReady
CHECK_DEADLOCK FALSE
