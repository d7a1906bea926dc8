SPECIFICATION Spec
CONSTANTS
    SourceWorkers = {s1}
    SinkWorkers = {k1, k2}
    Source = "disk"
    Sink = "insert"
    Modes = {"metrics"}
    BatchBlocks = 1
    RetireBatches = 1
    MaxFlushAttempts = 2
    MaxFiles = 1
    MaxBlocks = 4
    MaxFailures = 1
INVARIANTS BlockAccounting OnePlace SendNeverBlocks NoSendOnClosed NaturalEndDelivers
