SPECIFICATION InspectSpec
CONSTANTS
    Files = {f1}
    States <- TwoStates
    MaxWork = 1
    MaxChanges = 1
INVARIANTS
    CleanAtOnePoint
