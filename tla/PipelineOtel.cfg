SPECIFICATION FairSpec
CONSTANTS
    SourceWorkers = {s1}
    SinkWorkers = {k1}
    Source = "generate"
    Sink = "otel"
    Modes = {"metric_gen", "user", "metrics"}
    BatchBlocks = 2
    RetireBatches = 0
    MaxFlushAttempts = 2
    MaxFiles = 0
    MaxBlocks = 5
    MaxFailures = 2
INVARIANTS MetricsLast OtelStrandsNothing RowsArrive
PROPERTIES FateIsFinal ShutsDown
