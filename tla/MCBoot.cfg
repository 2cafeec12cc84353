SPECIFICATION BootFairSpec
CONSTANTS
    Parts = {"smp", "keyboard", "mouse", "disk", "network"}
    NumAps = 3
    IdModulus = 4
    SyscallCpus = 4
    Keys = {"lshift", "lctrl", "a", "up"}
    Sectors = {s1, s2}
    NoSector = NoSector
    OneSector = s1
INVARIANTS TypesOK OwnResources  
PROPERTIES  WorkEnds
