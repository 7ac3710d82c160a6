\* Up to five elements in a buffer that starts with room for one.
SPECIFICATION Spec
CONSTANTS
    Elems = {1, 2, 3, 4, 5}
    Key <- MCKey
    Junk = Junk
    MinCapacity = 1
    MaxCapacity = 3
    Wanted = {0, 2, 4}
INVARIANTS
    WithinBuffer
    EachElementOnce
PROPERTIES
    SortedStaysSorted
    ImplementsList
