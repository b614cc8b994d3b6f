\* The code keeps none of these: TLC stops at the first, keep one at a time.
SPECIFICATION Spec
CONSTANTS
    q1 = q1
    q2 = q2
    q3 = q3
    a = a
    b = b
    c = c
    w1 = w1
    w2 = w2
    j1 = j1
    NoSeller = NoSeller
    NoLead = NoLead
    Uncapped = Uncapped
    Requirements = {q1, q2, q3}
    Fingerprint <- TwoWishes
    DirectSeller <- FromPageOfA
    Candidates <- Everyone
    Sellers = {a, b}
    WeeklyQuota <- OnePerWeek
    DailyQuota <- OneADayForB
    MaxSellers = 1
    DedupeDays = 1
    MaxAttempts = 3
    Workers = {w1, w2}
    StatsJobs = {j1}
    DaysPerWeek = 2
    MaxDay = 2
    MaxCrashes = 0
    MaxLostAcks = 1
INVARIANTS
    DuplicatesAreSkipped
    QuotaRespected
    AtMostMaxSellers
    FilledCostsNothing
    ReceivedIsCounted
CHECK_DEADLOCK FALSE
