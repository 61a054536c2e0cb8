SPECIFICATION FairSpec
CONSTANTS
    Tasks = {poll, ui1, ui2}
    Poll = poll
    ReadsConfig = TRUE
    MaxRevisions = 1
    MaxFaults = 1
INVARIANTS
    FlagsTellTheTruth
PROPERTIES
    AloneIsFresh
    ClientCatchesUp
