SPECIFICATION Spec
CONSTANTS
    s1 = s1
    m1 = m1
    d1 = d1
    free = free
    pro = pro
    gold = gold
    platinum = platinum
    r1 = r1
    r2 = r2
    r3 = r3
    r4 = r4
    NoLead = NoLead
    Sellers = {s1}
    SellerOf <- OwnedByS1
    MonthlyCredits <- LadderCredits
    FreePlan = free
    PackSize = 2
    Leads = {m1}
    Market = {m1}
    Plans = {free, pro}
    Adjustments <- MinusOne
    Requests = {r1, r2, r3, r4}
    MaxPeriod = 2
SYMMETRY RequestSymmetry
INVARIANTS
    RevealedIsPaid
    ChargedOnce
    LedgerExplainsBalance
    RefundsAreEarned
    OneGrantPerPeriod
PROPERTIES
    ImplementsAccount
CHECK_DEADLOCK FALSE
