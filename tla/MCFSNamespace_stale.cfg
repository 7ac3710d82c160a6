\* A process may die between the entries and the inode of a directory.
SPECIFICATION Spec
CONSTANTS
    NumInodes = 4
    NumBlocks = 4
    NumReserved = 2
    MapBits = 2
    DirEntries = 3
    a = a
    b = b
    c = c
    bits = bits
    dots = dots
    Slash = Slash
    Dots <- MCDots
    NoName = NoName
    Names <- MCNames
    MapName <- MCNoMapName
    NameBytes <- MCNameBytes
    FNameMax = 6
    Paths <- MCPaths
    Torn = TRUE
INVARIANT LookupFindsListed
