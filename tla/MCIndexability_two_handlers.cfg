SPECIFICATION FairSpec
CONSTANTS
    r1 = r1
    r2 = r2
    nightly = nightly
    Handlers = {r1, r2}
    Nightly = nightly
    RuleSets <- BothRules
    DefaultRules <- Defaults
    ProfileFacts = {}
    ContentFacts = {"products"}
    Given <- AllGiven
    MaxChanges = 2
INVARIANTS
    SearchTypeOK
    NothingIsForgotten
PROPERTIES
    PagesComeRight
CHECK_DEADLOCK FALSE
