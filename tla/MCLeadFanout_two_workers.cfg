SPECIFICATION Spec
CONSTANTS
    q1 = q1
    q2 = q2
    q3 = q3
    a = a
    b = b
    c = c
    w1 = w1
    w2 = w2
    j1 = j1
    NoSeller = NoSeller
    NoLead = NoLead
    Uncapped = Uncapped
    Requirements = {q1, q3}
    Fingerprint <- TwoWishes
    DirectSeller <- FromPageOfA
    Candidates <- Everyone
    Sellers = {a, b}
    WeeklyQuota <- OnePerWeek
    DailyQuota <- OneADayForB
    MaxSellers = 2
    DedupeDays = 1
    MaxAttempts = 2
    Workers = {w1, w2}
    StatsJobs = {}
    DaysPerWeek = 2
    MaxDay = 2
    MaxCrashes = 1
    MaxLostAcks = 1
INVARIANTS
    OneWorkerPerRequirement
    ReceivedIsCounted
CHECK_DEADLOCK FALSE
