SPECIFICATION BootFairSpec
CONSTANTS
    Tasks = {netRx, netTx, link}
    NoTask = NoTask
    TickPriority = 4
    MaxSyscall = 5
    MaxPolls = 3
INVARIANTS
    BootTypeOK
    DmaIsBracketed
    NeverBusy
    OkIsWhole
    ObjectsExist
    RunningIsConfigured
PROPERTY AccessEnds
