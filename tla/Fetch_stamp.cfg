SPECIFICATION Spec
CONSTANTS
    Repos = {r1}
    FetchLoop = FetchLoop
    Requests = {}
    Concurrency = 1
    Base = 1
    Cap = 2
    ShiftCap = 1
INVARIANTS
    LastFetchedTruthful
