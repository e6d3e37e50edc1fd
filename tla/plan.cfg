SPECIFICATION FairSpec
CONSTANTS
    a = a
    b = b
    c = c
    k = k
    App = {a, b, c}
    Check = {k}
    Version = {1}
    MaxReplicas = 0
    PortSpace = 4
    WordSpace = 8
    Docs <- MCDocs
    Onlys <- MCOnlys
CHECK_DEADLOCK FALSE
INVARIANTS
    AcceptsTheLoadable
    SelectsTheClosure
    StartOrder
    CyclesAreFound
    PortsShown
PROPERTY
    PlanEnds
