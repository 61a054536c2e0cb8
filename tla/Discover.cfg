SPECIFICATION MCSpec
CONSTANTS
    r = r
    a = a
    b = b
    c = c
    d = d
    Outside = Outside
    Nodes <- FiveNodes
    Parent <- FiveParents
    Roots <- NestedRoots
    MaxChanges = 1
INVARIANTS
    NothingInvented
    NothingMissed
