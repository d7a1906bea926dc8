SPECIFICATION FairSpec
CONSTANTS
    IntervalMs = 5
    JitterMs = 2
    LifetimeMs = 10
    Resources = 2
    ResetPeriod = 3
    StartMs = 100
    Hash <- MCHash
    Threads = 2
    Runs <- MCRuns
    StalenessMarkers = TRUE
    PointsPerRequest = 2
    ChunkSize = 2
    MaxFlushAttempts = 2
    MaxSweep = 1
INVARIANTS SettledOnce PlanExact
PROPERTIES CacheSound Timeline Stops
