SPECIFICATION PricingSpec
CONSTANTS
    c1 = c1
    c2 = c2
    g1 = g1
    g2 = g2
    Checkouts = {c1, c2}
    Intervals = {"MONTHLY"}
    Prices <- OddPrices
    Rates <- TwoRates
    Coupons <- ThirdOff
    NoCoupon = NoCoupon
    PlanIds = {g1, g2}
    NoPlan = NoPlan
    MaxCycles = 1
SYMMETRY Symmetry
INVARIANTS
    ChargedAsQuoted
    InvoiceMatchesQuote
CHECK_DEADLOCK FALSE
