SPECIFICATION Spec
CONSTANTS
    Producers = {p1, p2}
    Workers = {w1, w2}
    Requests = {r1, r2}
    NoRequest = NoRequest
    NoThread = NoThread
    MaxRequests = 1
INVARIANTS
    TypeOK
    TokenCount
    NeverPopsEmpty
    QueueBound
PROPERTIES
    ImplementsQueue
    QueuedIsProcessed
CHECK_DEADLOCK FALSE
