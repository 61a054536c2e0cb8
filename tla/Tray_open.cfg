SPECIFICATION Spec
CONSTANTS
    Tasks = {r1, r2}
    ReadsConfig = FALSE
    MaxRevisions = 1
    MaxFaults = 0
PROPERTIES
    OpenPullsFresh
