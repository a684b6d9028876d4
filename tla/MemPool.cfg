SPECIFICATION MpSpec
CONSTANTS
    Thread = {hi, mid1, mid2, idle}
    hi = hi
    mid1 = mid1
    mid2 = mid2
    Idle = idle
    b1 = b1
    b2 = b2
    PriorityMax = 3
    GroupSize = 2
    WaitQueue = {mp}
    Mp = mp
    Blocks = {b1, b2}
    InitBlocks <- MCBlocks
    NoBlock = none
    MaxCount = 5
    InitThread = hi
    InitPriority <- MCPriority
    InitReady <- MCReady
    Api <- MCApi
INVARIANTS
    BlocksConserved
    MpNoLostWakeup
