SPECIFICATION Spec
CONSTANTS
    Writer = {w1, w2}
    Keeps = {1, 3}
    MaxBytes = 1
    MaxLines = 4
    MaxFaults = 1
INVARIANTS
    TypeOK
    LinesInOrder
    CapHolds
    CapPerWriter
    RecentLinesKept
    FollowsInOrder
CHECK_DEADLOCK FALSE
SYMMETRY Symmetry
