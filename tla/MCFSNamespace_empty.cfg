\* No process dies; two inodes in use spell the name bits.
SPECIFICATION Spec
CONSTANTS
    NumInodes = 4
    NumBlocks = 4
    NumReserved = 2
    MapBits = 2
    DirEntries = 3
    a = a
    b = b
    c = c
    bits = bits
    dots = dots
    Slash = Slash
    Dots <- MCNoDots
    NoName = NoName
    Names <- MCBitsNames
    MapName <- MCMapName
    NameBytes <- MCNameBytes
    FNameMax = 6
    Paths <- MCBitsPaths
    Torn = FALSE
INVARIANT EmptyHasNoChild
