SPECIFICATION Spec
CONSTANTS
    Macs <- MCMacs
    GroupMacs <- MCGroupMacs
    OwnMac <- MCOwnMac
    MaxEntries = 2
    AgeTicks = 2
    TickMod = 6
    MaxLag = 2
    NoEntry = NoEntry
PROPERTY AgedOutWasIdle
CONSTRAINT OneHalfWritten
