SPECIFICATION Spec
CONSTANTS
    Tasks = {r1, r2}
    ReadsConfig = FALSE
    MaxRevisions = 0
    MaxFaults = 0
INVARIANTS
    ScanningIsShown
