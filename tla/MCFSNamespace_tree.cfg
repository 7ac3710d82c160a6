\* Trees of up to three files, on directories of two entries, with deaths at
\* every step but the window of Torn.
SPECIFICATION Spec
CONSTANTS
    NumInodes = 4
    NumBlocks = 4
    NumReserved = 2
    MapBits = 2
    DirEntries = 3
    a = a
    b = b
    c = c
    bits = bits
    dots = dots
    Slash = Slash
    Dots <- MCDots
    NoName = NoName
    Names <- MCNames
    MapName <- MCNoMapName
    NameBytes <- MCNameBytes
    FNameMax = 6
    Paths <- MCPaths
    Torn = FALSE
INVARIANTS
    TypeOK
    LookupFindsListed
    NamesAreLinks
PROPERTIES
    FailureLeavesNoTrace
    CreateReturns
    ListedForever
    OnlyDeathLoses
    ImplementsFileTree
