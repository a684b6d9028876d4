SPECIFICATION FairSpec
CONSTANTS
    Thread = {hi, mid1, mid2, idle}
    hi = hi
    mid1 = mid1
    mid2 = mid2
    Idle = idle
    PriorityMax = 4
    GroupSize = 2
    WaitQueue = {}
    InitThread = mid1
    InitPriority <- MCPriority
    InitReady <- MCReady
    Api = {"yield", "sleep", "suspend", "resume", "wake", "startup", "critical"}
    OneWaker = TRUE
    MaxLock = 1
INVARIANTS
    RunsHighest
PROPERTIES
    RoundRobin
    SleepEnds
