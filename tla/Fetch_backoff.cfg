SPECIFICATION FairSpec
CONSTANTS
    Repos = {r1}
    FetchLoop = FetchLoop
    Requests = {q1}
    Concurrency = 1
    Base = 2
    Cap = 7
    ShiftCap = 2
INVARIANTS
    HeldBackIsShown
    BackoffJustified
PROPERTIES
    LoopHoldsBack
    Recovers
