SPECIFICATION FairSpec
CONSTANTS
    r1 = r1
    r2 = r2
    nightly = nightly
    Handlers = {r1}
    Nightly = nightly
    RuleSets <- BothRules
    DefaultRules <- Defaults
    ProfileFacts = {}
    ContentFacts = {"products"}
    Given <- NoPhone
    MaxChanges = 3
INVARIANTS
    NothingIsForgotten
PROPERTIES
    PagesComeRight
CHECK_DEADLOCK FALSE
