SPECIFICATION BootFairSpec
CONSTANTS
    Tasks = {netRx, netTx, link}
    NoTask = NoTask
    TickPriority = 15
    MaxSyscall = 5
    MaxPolls = 3
PROPERTY BootEnds
\* With the configured priority the firmware really stops, in HAL_Delay.
CHECK_DEADLOCK FALSE
