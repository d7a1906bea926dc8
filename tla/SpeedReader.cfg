SPECIFICATION Spec
CONSTANTS
    Second = 4
    Capacity = 4
    Targets = {2, 3}
    BurstDivisor = 1
    Requests = {1, 9}
    MinChunk = 2
INVARIANTS WindowConsistent LimitNearTarget WindowBounded
