SPECIFICATION FairSpec
CONSTANTS
    Macs <- MCMacs
    GroupMacs <- MCGroupMacs
    OwnMac <- MCOwnMac
    MaxEntries = 2
    AgeTicks = 1
    TickMod = 4
    MaxLag = 1
    NoEntry = NoEntry
INVARIANTS
    TypeOK
    UniqueMac
    HwInSync
PROPERTIES
    VictimIsOldest
    AgedOutOrRaced
    EntriesAgeOut
CONSTRAINT OneHalfWritten
