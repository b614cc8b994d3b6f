SPECIFICATION Spec
CONSTANTS
    p1 = p1
    o1 = o1
    o2 = o2
    r1 = r1
    r2 = r2
    r3 = r3
    Products = {p1}
    Orders = {o1, o2}
    Requests = {r1, r2}
    MaxFaults = 1
SYMMETRY Symmetric
INVARIANTS
    TypeOK
    PaidIsCaptured
    AlertedOnce
    NothingShipsUnpaid
    ClaimsAreReleased
PROPERTIES
    ShippedIsFinal
CHECK_DEADLOCK FALSE
