\* The code does not keep these; each alone is violated: RefundDropsThePlan,
\* RefundedPlanEnds, OneRequestPerPayment.
SPECIFICATION Spec
CONSTANTS
    p1 = p1
    p2 = p2
    f1 = f1
    f2 = f2
    r1 = r1
    r2 = r2
    NoPayment = NoPayment
    Payments = {p1, p2}
    ByHand = {}
    Refunds = {f1, f2}
    Requests = {r1, r2}
    MaxFaults = 0
INVARIANTS
    RefundDropsThePlan
    RefundedPlanEnds
    OneRequestPerPayment
CHECK_DEADLOCK FALSE
