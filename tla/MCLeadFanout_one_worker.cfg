SPECIFICATION FairSpec
CONSTANTS
    q1 = q1
    q2 = q2
    q3 = q3
    a = a
    b = b
    c = c
    w1 = w1
    w2 = w2
    j1 = j1
    NoSeller = NoSeller
    NoLead = NoLead
    Uncapped = Uncapped
    Requirements = {q1, q2}
    Fingerprint <- TwoWishes
    DirectSeller <- FromPageOfA
    Candidates <- Everyone
    Sellers = {a, b}
    WeeklyQuota <- OnePerWeek
    DailyQuota <- OneADayForB
    MaxSellers = 1
    DedupeDays = 1
    MaxAttempts = 2
    Workers = {w1}
    StatsJobs = {j1}
    DaysPerWeek = 3
    MaxDay = 4
    MaxCrashes = 0
    MaxLostAcks = 0
INVARIANTS
    DuplicatesAreSkipped
    QuotaRespected
PROPERTIES
    EventuallyDecided
CHECK_DEADLOCK FALSE
