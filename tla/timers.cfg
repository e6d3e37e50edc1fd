\* One instance through ticks of different lengths.  Times are in ticks.
SPECIFICATION FairSpec
CONSTANTS
    Tick = 1
    ReadyPeriod = 2
    ProbeTimeout = 2
    StopGrace = 3
    KillAgain = 2
    Base = 1
    Cap = 3
    StableAfter = 4
    ReadyTimeout = 3
    LivePeriod = 2
    LiveFailures = 2
    Others = 2
    MaxRestarts = 3
    Horizon = 14
INVARIANTS
    KilledInTime
    ReadyInTime
PROPERTIES
    BackoffIsExact
    GraceIsGiven
    StopsAreEarned
    HungEnds
