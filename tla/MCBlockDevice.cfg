\* Two blocks of data, two of the map; callers use the numbers of blocks of
\* data, of the first block of the map, and one that is refused.
SPECIFICATION Spec
CONSTANTS
    NumBlocks = 4
    ByteBits = 2
    BlockBytes = 1
    FbmStart = 2
    BitCount = 2
    Ids = {0, 1, 2, 3}
    Buffers <- MCBuffers
PROPERTY ImplementsBlockPool
