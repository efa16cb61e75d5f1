SPECIFICATION FairSpec
CONSTANTS
    AltSettings = {0, 1, 2}
    Ports = {1}
    SpiMayFail = FALSE
    UsbMayFail = FALSE
PROPERTY CarrierTracksLink
