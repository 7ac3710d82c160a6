\* Directories and files on one device, with deaths at every step of both
\* fs_create and fs_write.
SPECIFICATION FSSpec
CONSTANTS
    NumInodes = 3
    NumBlocks = 5
    NumReserved = 1
    MapBits = 1
    DirEntries = 2
    name1 = name1
    name2 = name2
    bits = bits
    word = word
    Slash = Slash
    Dots <- MCDots
    NoName = NoName
    Names <- MCNames
    MapName <- MCMapName
    NameBytes <- MCNameBytes
    FNameMax = 6
    Paths <- MCPaths
    Torn = TRUE
    NumFds = 1
    BlockSize = 1
    NumDirect = 1
    Data <- MCData
    Buffers <- MCBuffers
    ReadSizes <- MCReadSizes
    SeekOffsets <- MCSeekOffsets
    MaxWrites = 2
INVARIANTS
    EntryBlocksApart
    NamesAreLinks
    FilesApart
PROPERTIES
    ListedForever
    OnlyDeathLoses
    NamespaceHolds
    DataHolds
