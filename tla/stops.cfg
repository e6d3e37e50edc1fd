SPECIFICATION FairSpec
CONSTANTS
    App = {"web"}
    Check = {}
    Version = {"v1", "v2"}
    MaxReplicas = 1
    PortSpace = 2
    Manifests <- EditOne
    First <- EditOneFirst
    Only = {}
    LateSave = FALSE
    Deletes = FALSE
    LiveFailures = 2
    Flaky = TRUE
    CheckFlaps = FALSE
    SpawnFails = TRUE
    SlowBoot = TRUE
    Stops = TRUE
    MaxGen = 4
    MaxEdits = 1
    MaxCrashes = 1
INVARIANTS
    PhaseMatchesHandle
    StopIsSignalled
PROPERTIES
    StopIsFinal
    ShutdownEnds
    StopEnds
CHECK_DEADLOCK FALSE
