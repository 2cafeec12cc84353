SPECIFICATION FairSpec
CONSTANTS
    Pids = {p1, p2}
    Priorities = {1, 2}
    Interactive = 1
    Normal = 2
    Dream = 4
    CPUs <- OneCpu
    NoPid = NoPid
    Boot = Boot
    Idle = Idle
    TimeSlice <- Slices
    IdleLimit = 1
    MaxProcesses = 2
    MaxWaiters = 1


PROPERTY WokenProcessRuns
CHECK_DEADLOCK FALSE
