\* Two blocks of data around two of the map, as in 0..126, 127..128, 129..511.
SPECIFICATION Spec
CONSTANTS
    NumBlocks = 4
    ByteBits = 2
    BlockBytes = 1
    FbmStart = 1
    BitCount = 4
    Ids = {0, 1, 2, 3, 4}
    Buffers <- MCBuffers
INVARIANT MapNeverFree
PROPERTY ImplementsBlockPool
