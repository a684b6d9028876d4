SPECIFICATION Spec
CONSTANTS
    Thread = {hi, mid, low, idle}
    hi = hi
    mid = mid
    low = low
    Idle = idle
    PriorityMax = 4
    GroupSize = 2
    WaitQueue = {m1, m2}
    Mutexes = {m1, m2}
    NoOwner = none
    Flag = "prio"
    m1 = m1
    m2 = m2
    MaxTakes <- MCTakes
    InitThread = hi
    InitPriority <- MCPriority
    InitReady <- MCReady
    Api <- MCApi
INVARIANTS
    MutualExclusion
    FreeOrOwned
    NoSimpleReversion
    PriorityRestored
