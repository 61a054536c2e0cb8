SPECIFICATION FairSpec
CONSTANTS
    Repos = {r1}
    Content = {clean, unmounted}
    Unreadable = {unmounted}
    Hidden = {unmounted}
    Gone = Gone
    OpenFailed = OpenFailed
    Null = Null
    Untracked = Untracked
    CheckLoop = CheckLoop
    ScanLoop = ScanLoop
    Requests = {q1}
    Concurrency = 1
INVARIANTS
    CacheCoherent
    NoRedundantWrite
    AnswerFresh
PROPERTIES
    WriteThrough
    Converges
    Discovered
