SPECIFICATION SemSpec
CONSTANTS
    Thread = {hi, mid1, mid2, idle}
    hi = hi
    mid1 = mid1
    mid2 = mid2
    Idle = idle
    PriorityMax = 3
    GroupSize = 2
    WaitQueue = {sem}
    Object = sem
    Flag = "prio"
    InitValue = 1
    Produced = 1
    InitThread = hi
    InitPriority <- MCPriority
    InitReady <- MCReady
    Api <- MCApi
INVARIANTS
    TokensConserved
    NoTokenIdle
    UrgentFirst
PROPERTIES
    ImplementsSemaphore
