\* The code does not keep these; each alone is violated: ListedChangesAreRecomputed,
\* NeverPermanentlyWrong.
SPECIFICATION FairSpec
CONSTANTS
    r1 = r1
    r2 = r2
    nightly = nightly
    Handlers = {r1}
    Nightly = nightly
    RuleSets <- BothRules
    DefaultRules <- Defaults
    ProfileFacts = {}
    ContentFacts = {"products"}
    Given <- AllGiven
    MaxChanges = 2
INVARIANTS
    ListedChangesAreRecomputed
PROPERTIES
    NeverPermanentlyWrong
CHECK_DEADLOCK FALSE
