\* Two files with a descriptor each, or both on one file, on a device that
\* fills up while both grow.
SPECIFICATION Spec
CONSTANTS
    Inodes = {1, 2}
    NumFds = 2
    NumBlocks = 7
    TakenSizes = {1}
    MaxTaken = 1
    BlockSize = 2
    NumDirect = 1
    word1 = word1
    word2 = word2
    Data <- MCData
    Buffers <- MCBuffers
    ReadSizes <- MCNone
    SeekOffsets <- MCStart
    MaxWrites = 3
INVARIANTS
    CursorInFile
    NoSharedBlock
    DeviceSound
PROPERTIES
    ImplementsFileStore
