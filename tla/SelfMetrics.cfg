SPECIFICATION FairSpec
CONSTANTS
    QueueCap = 1
    BufferCap = 2
    ClickHouse = TRUE
    Modulus = 16
    MaxEntries = 3
    Reliable = FALSE
INVARIANTS SampleAccounting ValuesFaithful FlushComplete
PROPERTIES ReceivedInOrder ExporterProgress
