SPECIFICATION BootFairSpec
CONSTANTS
    Parts = {"smp"}
    NumAps = 3
    IdModulus = 8
    SyscallCpus = 8
    Keys = {"lshift", "lctrl", "a", "up"}
    Sectors = {s1, s2}
    NoSector = NoSector
    OneSector = s1
PROPERTY ReadyIsFromThisAp
