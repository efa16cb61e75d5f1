SPECIFICATION MCFairSpec
CONSTANTS
    AltSettings = {0, 1, 2}
    Frames = {f1, f2, f3}
    NoFrame = NoFrame
    Attempts = 2
    SwitchMode = TRUE
    MaxSent = 4
INVARIANTS
    TypeOK
    OneOwner
    Conservation
    ReadyIsArmed
    InOrder
PROPERTIES
    IsChannel
    Returned
