SPECIFICATION InspectSpec
CONSTANTS
    Files = {f1, f2}
    States <- AllStates
    MaxWork = 1
    MaxChanges = 2
INVARIANTS
    ExactWhenQuiet
    SteadyWorkShown
SYMMETRY SameFiles
