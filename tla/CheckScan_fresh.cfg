SPECIFICATION Spec
CONSTANTS
    Repos = {r1}
    Content = {clean, dirty}
    Unreadable = {}
    Hidden = {}
    Gone = Gone
    OpenFailed = OpenFailed
    Null = Null
    Untracked = Untracked
    CheckLoop = CheckLoop
    ScanLoop = ScanLoop
    Requests = {q1}
    Concurrency = 1
INVARIANT PostCheckFresh
