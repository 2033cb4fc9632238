SPECIFICATION AnyServiceSpec
CONSTANTS
    Names = {a}
    Empty = empty
    FlagSets <- NoFlags
    Chunks <- Letters
    WriteThrough = TRUE
    CanWrite = TRUE
    CanAppend = TRUE
    MaxInodes = 6
    MaxSize = 3
    MaxEntries = 0
    Modes = {"r", "w", "a"}
    MayTruncate = FALSE
    Name = a
    MaxOpens = 4
INVARIANTS
    StoredAsPosix
    ReadsBack
