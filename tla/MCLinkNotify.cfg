SPECIFICATION FairSpec
CONSTANTS
    AltSettings = {0, 1, 2}
    Ports = {1, 2}
    SpiMayFail = TRUE
    UsbMayFail = TRUE
INVARIANTS
    TypeOK
    BusyIsInFlight
    ClaimCoversTransfer
PROPERTIES
    NewHostIsTold
