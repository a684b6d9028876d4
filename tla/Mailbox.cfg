SPECIFICATION Spec
CONSTANTS
    Thread = {hi, mid1, mid2, idle}
    hi = hi
    mid1 = mid1
    mid2 = mid2
    Idle = idle
    PriorityMax = 3
    GroupSize = 2
    WaitQueue = {receivers, senders}
    Receivers = receivers
    Senders = senders
    Size = 2
    Flag = "fifo"
    IsrActive = TRUE
    Isr = isr
    Nothing = nothing
    InitThread = hi
    InitPriority <- MCPriority
    InitReady <- MCReady
    Api <- MCApi
INVARIANTS
    NoLostWakeup
PROPERTIES
    ImplementsQueue
