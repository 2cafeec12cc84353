SPECIFICATION MemoryFairSpec
CONSTANTS
    CPUs = {c1, c2}
    NoCPU = NoCPU
    NWords = 3
    BITS = 2
    Usable <- WithHole
    FirstMB <- FirstFrame
    Locked = FALSE
    Allocator = alloc
    Freer = free
INVARIANTS TypesOK NoDoubleAllocation UsedFramesCounted  
PROPERTIES AllocateServes
