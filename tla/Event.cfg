SPECIFICATION EventSpec
CONSTANTS
    Thread = {hi, mid1, mid2, idle}
    hi = hi
    mid1 = mid1
    mid2 = mid2
    a = a
    b = b
    Idle = idle
    PriorityMax = 3
    GroupSize = 2
    WaitQueue = {ev}
    Object = ev
    Flag = "fifo"
    EventFlag = {a, b}
    Request <- MCRequest
    MaxSends = 2
    InitThread = hi
    InitPriority <- MCPriority
    InitReady <- MCReady
    Api <- MCApi
INVARIANTS
    WaitersUnsatisfied
    TakenOnce
    GrantedAsAsked
