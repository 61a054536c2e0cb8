SPECIFICATION FairSpec
CONSTANTS
    Repos = {r1, r2}
    FetchEnabled = TRUE
    MaxDue = 1
PROPERTIES
    LoopsCatchUp
    Quiesces
INVARIANTS
    NoCheckForgotten
    NoFetchForgotten
