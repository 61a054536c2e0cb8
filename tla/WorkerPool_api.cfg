SPECIFICATION FairPoolSpec
CONSTANTS
    Repos = {r1, r2}
    CheckLoop = CheckLoop
    FetchLoop = FetchLoop
    Cards = {c1}
    Nobody = Nobody
    Threads = 2
    Concurrency = 1
    MaxJobs = 3
PROPERTY ApiResponsive
