SPECIFICATION InspectSpec
CONSTANTS
    Files = {f1}
    States <- TwoStates
    MaxWork = 1
    MaxChanges = 0
INVARIANTS
    DirtyIfAtRisk
