SPECIFICATION StreamSpec
CONSTANTS
    Names = {a, b}
    Empty = empty
    FlagSets <- NoFlags
    Chunks <- NoChunk
    WriteThrough = TRUE
    CanWrite = TRUE
    CanAppend = TRUE
    MaxInodes = 9
    MaxSize = 0
    MaxEntries = 2
    Capacity = 2
    MaxChanges = 3
INVARIANTS
    ListsAll
    ListsOnce
PROPERTIES
    ListingEnds
