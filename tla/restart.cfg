SPECIFICATION Spec
CONSTANTS
    Pid = {p1, p2, p3}
    Group = {g1, g2}
    NoPid = NoPid
    Racing = FALSE
    Alone = TRUE
    Reuse = FALSE
    MaxCrashes = 2
SYMMETRY Symmetry
PROPERTIES
    RecordIsKept
CHECK_DEADLOCK FALSE
