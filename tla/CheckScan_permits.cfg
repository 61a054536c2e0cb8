SPECIFICATION Spec
CONSTANTS
    Repos = {r1, r2}
    Content = {clean}
    Unreadable = {}
    Hidden = {}
    Gone = Gone
    OpenFailed = OpenFailed
    Null = Null
    Untracked = Untracked
    CheckLoop = CheckLoop
    ScanLoop = ScanLoop
    Requests = {q1}
    Concurrency = 1
INVARIANT ConcurrencyBounded
