SPECIFICATION PatientSpec
CONSTANTS
    App = {"web"}
    Check = {}
    Version = {"v1", "v2"}
    MaxReplicas = 2
    PortSpace = 2
    Manifests <- EditTwo
    First <- EditTwoFirst
    Only = {}
    LateSave = FALSE
    Deletes = FALSE
    LiveFailures = 2
    Flaky = FALSE
    CheckFlaps = FALSE
    SpawnFails = FALSE
    SlowBoot = FALSE
    Stops = FALSE
    MaxGen = 3
    MaxEdits = 1
    MaxCrashes = 0
PROPERTIES
    RollsOneAtATime
