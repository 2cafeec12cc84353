SPECIFICATION FilesSpec
CONSTANTS
    Names = {a, b}
    NoName = NoName
    MAX_FILES = 2
    PerSector = 1
    DATA_BLOCKS_START = 2
    total_blocks = 6
    BITMAP_BITS = 6
    INLINE_EXTENTS = 2
    MaxBlocks = 4
    Resolvers = {t1, t2}
    Caller = t1
    NoThread = NoThread
    Devices = {d1, d2}
    NoDevice = NoDevice
INVARIANTS TypesOK  PathsLeadToTheirFs
