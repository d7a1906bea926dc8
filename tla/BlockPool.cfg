SPECIFICATION Spec
CONSTANTS
    b1 = b1
    b2 = b2
    b3 = b3
    b4 = b4
    g1 = g1
    g2 = g2
    NoBlock = NoBlock
    Blocks <- MCBlocks
    Goroutines <- MCGoroutines
    PoolSize = 3
    RetireAfter = 2
    MaxRetired = 3
INVARIANTS OneOwner ReleaseNeverBlocks
PROPERTY ImplementsBoundedPool
