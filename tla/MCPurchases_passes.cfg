SPECIFICATION FairSpec
CONSTANTS
    s1 = s1
    feature = feature
    passA = passA
    passB = passB
    freePass = freePass
    c1 = c1
    r1 = r1
    r2 = r2
    NoCoupon = NoCoupon
    Sellers = {s1}
    Purchases = {passA, passB}
    SellerOf <- OneSeller
    KindOf <- Kinds
    Total <- Totals
    CouponOf <- PassesC1
    Coupons = {c1}
    MaxRedemptions <- Ones
    PerSellerLimit <- Twos
    NewSellersOnly = {}
    AutopaySellers = {s1}
    EventKinds = {"order.paid"}
    Requests = {r1, r2}
    MaxFaults = 1
INVARIANTS
    RedeemedIsPaid
    LimitsHoldOneAtATime
    OnePaidPassLive
PROPERTIES
    PassStartsOnce
    PaidIsFulfilled
CHECK_DEADLOCK FALSE
