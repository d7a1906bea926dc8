SPECIFICATION Spec
CONSTANTS
    SourceWorkers = {s1}
    SinkWorkers = {k1}
    Source = "generate"
    Sink = "insert"
    Modes = {}
    BatchBlocks = 1
    RetireBatches = 0
    MaxFlushAttempts = 2
    MaxFiles = 0
    MaxBlocks = 2
    MaxFailures = 0
INVARIANT NoBlockLeaked
