SPECIFICATION Spec
CONSTANTS
    Thread = {hi, mid1, mid2, idle}
    hi = hi
    mid1 = mid1
    mid2 = mid2
    Idle = idle
    PriorityMax = 3
    GroupSize = 2
    WaitQueue = {mq}
    Object = mq
    MaxMsgs = 2
    Flag = "fifo"
    IsrActive = TRUE
    Isr = isr
    Null = null
    Nothing = nothing
    InitThread = hi
    InitPriority <- MCPriority
    InitReady <- MCReady
    Api <- MCApi
INVARIANTS
    NodesConserved
    NoLostWakeup
PROPERTIES
    ImplementsQueue
