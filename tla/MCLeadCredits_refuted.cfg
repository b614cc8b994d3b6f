\* The code keeps none of these: TLC stops at the first, keep one at a time.
SPECIFICATION Spec
CONSTANTS
    s1 = s1
    m1 = m1
    d1 = d1
    free = free
    pro = pro
    gold = gold
    platinum = platinum
    r1 = r1
    r2 = r2
    r3 = r3
    r4 = r4
    NoLead = NoLead
    Sellers = {s1}
    SellerOf <- OwnedByS1
    MonthlyCredits <- LadderCredits
    FreePlan = free
    PackSize = 1
    Leads = {m1, d1}
    Market = {m1}
    Plans = {free, pro, gold, platinum}
    Adjustments <- MinusOne
    Requests = {r1, r2, r3, r4}
    MaxPeriod = 2
SYMMETRY RequestSymmetry
INVARIANTS
    OneRefundPerFlag
    AcceptedIsCharged
    GrantsWithinPlan
    UpgradeIsUsable
PROPERTIES
    OutcomeAfterReveal
    OutcomeKeepsReveal
CHECK_DEADLOCK FALSE
