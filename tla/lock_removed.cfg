SPECIFICATION Spec
CONSTANTS
    Pid = {p1, p2, p3}
    Group = {g1}
    NoPid = NoPid
    Racing = FALSE
    Alone = FALSE
    Reuse = FALSE
    MaxCrashes = 1
INVARIANTS
    OneUp
CHECK_DEADLOCK FALSE
