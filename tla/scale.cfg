SPECIFICATION FairSpec
CONSTANTS
    App = {"web"}
    Check = {}
    Version = {"v1", "v2"}
    MaxReplicas = 2
    PortSpace = 2
    Manifests <- ScaleFiles
    First <- ScaleFirst
    Only = {}
    LateSave = FALSE
    Deletes = TRUE
    LiveFailures = 1
    Flaky = FALSE
    CheckFlaps = FALSE
    SpawnFails = FALSE
    SlowBoot = FALSE
    Stops = FALSE
    MaxGen = 2
    MaxEdits = 2
    MaxCrashes = 1
INVARIANTS
    OneInstancePerSlot
    PortsAreExclusive
PROPERTIES
    Converges
    ImplementsCluster
