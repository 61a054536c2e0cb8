SPECIFICATION Spec
CONSTANTS
    Repos = {r1}
    FetchLoop = FetchLoop
    Requests = {q1}
    Concurrency = 1
    Base = 1
    Cap = 2
    ShiftCap = 1
PROPERTIES
    LoopNeverTooSoon
