SPECIFICATION FairSpec
CONSTANTS
    p1 = p1
    x1 = x1
    x2 = x2
    x3 = x3
    w1 = w1
    w2 = w2
    Deliveries = {p1, x1, x2, x3}
    Panel = {p1}
    Reachable = {x1, x2}
    Workers = {w1}
    Batch = 2
    MaxAttempts = 2
    MaxClaims = 3
    MaxFaults = 1
INVARIANTS
    ExtraSendsAreFaults
PROPERTIES
    EventuallyDecided
CHECK_DEADLOCK FALSE
