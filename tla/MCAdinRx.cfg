SPECIFICATION MCFairSpec
CONSTANTS
    Ports = {1, 2}
    FifoDepth = 2
    PoolSize = 8
    MaxArrived = 3
INVARIANTS
    TypeOK
    NoMissedEdge
    BufferForFrame
    InOrder
PROPERTY EveryFifoIsServed
