\* One file that grows through direct, indirect and both inner blocks, on
\* devices that fill up at each place where a pointer block is needed.
SPECIFICATION Spec
CONSTANTS
    Inodes = {1}
    NumFds = 1
    NumBlocks = 11
    TakenSizes = {1, 2, 5, 6, 9}
    MaxTaken = 2
    BlockSize = 2
    NumDirect = 1
    word1 = word1
    word2 = word2
    Data <- MCData
    Buffers <- MCLongBuffers
    ReadSizes <- MCReadSizes
    SeekOffsets <- MCSeekOffsets
    MaxWrites = 2
INVARIANTS
    TypeOK
    NewPtrsInBounds
    NoSharedBlock
    ShortOnlyWhenFull
PROPERTIES
    OnlyDeathLeaks
    ImplementsFileStore
    WriteEnds
