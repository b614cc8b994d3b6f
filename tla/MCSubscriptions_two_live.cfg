SPECIFICATION Spec
CONSTANTS
    s1 = s1
    s2 = s2
    h1 = h1
    r1 = r1
    r2 = r2
    job = job
    pro = pro
    gold = gold
    Free = Free
    Subs = {s1, s2}
    ByHand = {}
    Yearly = {s2}
    Plans = {pro, gold}
    PlanOf <- PlanOfValue
    Rank <- RankValue
    Requests = {r1, job}
    Nightly = job
    Troubled = {}
    MaxCharges = 1
    MaxFaults = 0
SYMMETRY Symmetric
INVARIANTS
    OneLivePlan
CHECK_DEADLOCK FALSE
