SPECIFICATION FairSpec
CONSTANTS
    Workers = {w1, w2}
    Dir <- MCDir
    Configs <- MCConfigs
    Total = 7
    ProgramStart = 50
    ReportCap = 1
    Half = 16
    MaxLoop = 1
INVARIANTS SharesAgree LoopsFollow IdsPerLoop
PROPERTY ReplayEnds
