\* The code keeps neither OneOpenCode (two codes issued at once) nor
\* GuessesWithinLimit (two guesses read the counter at once): add one to see it.
SPECIFICATION Spec
CONSTANTS
    c1 = c1
    c2 = c2
    l1 = l1
    l2 = l2
    r1 = r1
    r2 = r2
    r3 = r3
    Wrong = Wrong
    Codes = {c1, c2}
    Links = {l1}
    MaxAttempts = 2
    CodeLife = 1
    LinkLife = 0
    Cooldown = 1
    MaxClock = 2
    Requests = {r1, r2}
    MaxDeaths = 1
SYMMETRY Interchangeable
INVARIANTS
    GuessesAreBounded
    OneEffectPerCode
PROPERTIES
    ReplacedIsNotAccepted
CHECK_DEADLOCK FALSE
