SPECIFICATION FairSpec
CONSTANTS
    App = {"api", "job"}
    Check = {"db"}
    Version = {"v1", "v2"}
    MaxReplicas = 1
    PortSpace = 2
    Manifests <- PairFiles
    First <- PairFirst
    Only = {}
    LateSave = TRUE
    Deletes = TRUE
    LiveFailures = 2
    Flaky = FALSE
    CheckFlaps = TRUE
    SpawnFails = FALSE
    SlowBoot = FALSE
    Stops = FALSE
    MaxGen = 1
    MaxEdits = 1
    MaxCrashes = 1
INVARIANTS
    TypeOK
    TickSettles
PROPERTIES
    DependentsRecover
