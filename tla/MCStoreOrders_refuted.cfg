\* The code keeps neither: TLC stops at the first, keep one at a time.
SPECIFICATION FairSpec
CONSTANTS
    p1 = p1
    o1 = o1
    o2 = o2
    r1 = r1
    r2 = r2
    r3 = r3
    Products = {p1}
    Orders = {o1}
    Requests = {r1, r2}
    MaxFaults = 1
INVARIANTS
    BookedOnce
PROPERTIES
    CapturedIsConfirmed
CHECK_DEADLOCK FALSE
