SPECIFICATION FairSpec
CONSTANTS
    Threads = 2
    Names = {"a", "b", "c"}
    Configs <- MCConfigs
    MaxCalls = 4
    Longest = 6
INVARIANTS SampledAsConfigured BindsPrecede RangesResolve
PROPERTY UsersStop
