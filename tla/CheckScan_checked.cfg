SPECIFICATION Spec
CONSTANTS
    Repos = {r1}
    Content = {clean, broken}
    Unreadable = {broken}
    Hidden = {}
    Gone = Gone
    OpenFailed = OpenFailed
    Null = Null
    Untracked = Untracked
    CheckLoop = CheckLoop
    ScanLoop = ScanLoop
    Requests = {}
    Concurrency = 1
INVARIANT LastCheckedSuccessful
