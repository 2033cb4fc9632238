SPECIFICATION GuestSpec
CONSTANTS
    Names = {a}
    Empty = empty
    FlagSets <- WriteFlags
    Chunks <- OneChunk
    WriteThrough = TRUE
    CanWrite = TRUE
    CanAppend = TRUE
    MaxInodes = 4
    MaxSize = 2
    MaxEntries = 0
    Handles = {h1, h2}
VIEW WithoutReply
SYMMETRY HandleSymmetry
INVARIANTS
    SoleWriter
