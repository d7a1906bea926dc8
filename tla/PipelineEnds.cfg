SPECIFICATION FairSpec
CONSTANTS
    SourceWorkers = {s1}
    SinkWorkers = {k1}
    Source = "disk"
    Sink = "insert"
    Modes = {"metrics"}
    BatchBlocks = 1
    RetireBatches = 1
    MaxFlushAttempts = 2
    MaxFiles = 2
    MaxBlocks = 5
    MaxFailures = 1
PROPERTY Completes
