\* The code keeps none of these: TLC stops at the first, keep one at a time.
SPECIFICATION DeliverySpec
CONSTANTS
    p1 = p1
    x1 = x1
    x2 = x2
    x3 = x3
    w1 = w1
    w2 = w2
    Deliveries = {p1, x1, x2, x3}
    Panel = {p1}
    Reachable = {x1, x2}
    Workers = {w1, w2}
    Batch = 3
    MaxAttempts = 2
    MaxClaims = 4
    MaxFaults = 2
INVARIANTS
    AttemptsAreLimited
    NeverTheSameRow
CHECK_DEADLOCK FALSE
