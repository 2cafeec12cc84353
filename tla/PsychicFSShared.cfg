SPECIFICATION Spec
CONSTANTS
    Names = {a, b}
    NoName = NoName
    MAX_FILES = 2
    PerSector = 1
    DATA_BLOCKS_START = 2
    total_blocks = 5
    BITMAP_BITS = 6
    INLINE_EXTENTS = 2
    MaxBlocks = 3
INVARIANT NoSharedBlocks
