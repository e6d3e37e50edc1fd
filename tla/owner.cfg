SPECIFICATION FairSpec
CONSTANTS
    Pid = {p1, p2}
    Group = {g1}
    NoPid = NoPid
    Racing = TRUE
    Alone = FALSE
    Reuse = TRUE
    MaxCrashes = 1
INVARIANTS
    TypeOK
    LockExcludes
    OwnerIsPublished
PROPERTIES
    DownEnds
CHECK_DEADLOCK FALSE
