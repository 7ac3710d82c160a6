\* Two blocks of data, two of the map; callers use the numbers of blocks of data.
SPECIFICATION Spec
CONSTANTS
    NumBlocks = 4
    ByteBits = 2
    BlockBytes = 1
    FbmStart = 2
    BitCount = 2
    Ids = {0, 1}
    Buffers <- MCBuffers
INVARIANT ImportBringsBack
