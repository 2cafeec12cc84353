SPECIFICATION Spec
CONSTANTS
    Pids = {p1, p2}
    Priorities = {1, 4}
    Interactive = 1
    Normal = 1
    Dream = 4
    CPUs <- OneCpu
    NoPid = NoPid
    Boot = Boot
    Idle = Idle
    TimeSlice <- Slices
    IdleLimit = 1
    MaxProcesses = 2
    MaxWaiters = 1
SYMMETRY PidSymmetry
INVARIANTS TypeOK QueuesSound DispatchedPidsExist CurrentIsConsistent
PROPERTY DispatchesMostUrgent
CHECK_DEADLOCK FALSE
