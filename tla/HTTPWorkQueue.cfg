CONSTANTS
    w1 = w1
    w2 = w2
    r1 = r1
    r2 = r2
    r3 = r3
    None = None
    Workers <- MCWorkers
    Requests <- MCRequests
    maxDepth = 1
SPECIFICATION Spec
INVARIANT GoneBeforeDelete
INVARIANT NothingHeldAtFree
PROPERTY EveryRequestReleased
PROPERTY StopReturns
\* the server ends
CHECK_DEADLOCK FALSE
