SPECIFICATION MCFairSpec
CONSTANTS
    AltSettings = {0, 1, 2}
    MaxSent = 5
INVARIANTS
    TypeOK
    BufferReturned
    NoStaleZlp
PROPERTIES
    SuccessIsDelivered
    IsChannel
    SendReturns
