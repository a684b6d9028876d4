SPECIFICATION TimerSpec
CONSTANTS
    h1 = h1
    s1 = s1
    s2 = s2
    h2 = h2
    Hard = {h1, h2}
    Soft = {s1}
    Periodic = {h1, s1}
    UserTimers = {h2, s1}
    TickMax = 10
    FirstTick = 8
    LastTick = 1
    Times <- MCTimes
    SoftEffect = {h1, s1}
    HardEffect <- MCEffect
    MaxLate = 1
    User = user
    TimerThread = timer
    None = none
INVARIANTS
    ListsSorted
    ActiveAccounted
PROPERTIES
    HardOnTime
