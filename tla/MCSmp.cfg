SPECIFICATION SmpFairSpec
CONSTANTS
    Pids = {p1, p2}
    Movable = {m1, m2, m3}
    Priorities = {1}
    Interactive = 1
    Normal = 1
    Dream = 4
    CPUs = {0, 1}
    NoPid = NoPid
    Boot = Boot
    Idle = Idle
    TimeSlice <- OneTick
    IdleLimit = 0
    MaxProcesses = 2
    MaxWaiters = 0
INVARIANTS TypesOK 
PROPERTIES QueuedIsDispatched 
CHECK_DEADLOCK FALSE
