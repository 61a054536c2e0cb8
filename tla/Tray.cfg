SPECIFICATION FairSpec
CONSTANTS
    Tasks = {r1, r2}
    ReadsConfig = FALSE
    MaxRevisions = 2
    MaxFaults = 2
INVARIANTS
    ScanningIsReal
PROPERTIES
    NeverBackwards
    TrayCatchesUp
