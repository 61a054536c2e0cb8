SPECIFICATION MCSpec
CONSTANTS
    r = r
    a = a
    b = b
    c = c
    d = d
    Outside = Outside
    Nodes <- FiveNodes
    Parent <- FiveParents
    Roots <- OneRoot
    MaxChanges = 0
INVARIANTS
    NoNestedRepos
