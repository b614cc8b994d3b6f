SPECIFICATION FairSpec
CONSTANTS
    s1 = s1
    s2 = s2
    h1 = h1
    r1 = r1
    r2 = r2
    job = job
    pro = pro
    gold = gold
    Free = Free
    Subs = {s1, h1}
    ByHand = {h1}
    Yearly = {}
    Plans = {pro, gold}
    PlanOf <- PlanOfValue
    Rank <- RankValue
    Requests = {r1, job}
    Nightly = job
    Troubled = {s1}
    MaxCharges = 1
    MaxFaults = 1
INVARIANTS
    LiveIsAuthorised
PROPERTIES
    ChargesAreInvoiced
    TierCatchesUp
    ReplacedIsStopped
CHECK_DEADLOCK FALSE
