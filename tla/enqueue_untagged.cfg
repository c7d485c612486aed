SPECIFICATION Spec
CONSTANTS
    r1 = r1
    r2 = r2
    r3 = r3
    r4 = r4
    r5 = r5
    r6 = r6
    q1 = q1
    q2 = q2
    key = key
    Requests <- MCRequests
    Queues <- MCQueues
    QueueOf <- MCQueueOf
    KeyOf <- MCKeys
    Empty = Empty
    None = None
    Tagged <- MCTagged
    MaxFaults = 0
INVARIANTS
    OptionalFieldsAccepted
CHECK_DEADLOCK FALSE
