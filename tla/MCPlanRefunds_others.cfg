SPECIFICATION FairSpec
CONSTANTS
    p1 = p1
    p2 = p2
    f1 = f1
    f2 = f2
    r1 = r1
    r2 = r2
    NoPayment = NoPayment
    Payments = {p1, p2}
    ByHand = {}
    Refunds = {f1, f2}
    Requests = {r1, r2}
    MaxFaults = 0
INVARIANTS
    TypeOK
    LivePlanIsPaidFor
    OnlyApprovedIsRefunded
    RefundedIsBacked
PROPERTIES
    RefundStopsAutopay
    FailureIsSeen
CHECK_DEADLOCK FALSE
