SPECIFICATION FairSpec
CONSTANTS
    App = {"web"}
    Check = {}
    Version = {"v1", "v2"}
    MaxReplicas = 1
    PortSpace = 2
    Manifests <- EditAny
    First <- EditOneFirst
    Only = {}
    LateSave = FALSE
    Deletes = FALSE
    LiveFailures = 1
    Flaky = FALSE
    CheckFlaps = FALSE
    SpawnFails = FALSE
    SlowBoot = FALSE
    Stops = FALSE
    MaxGen = 4
    MaxEdits = 2
    MaxCrashes = 1
PROPERTIES
    SurgeKeepsService
    EditsAreApplied
