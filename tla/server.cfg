SPECIFICATION Spec
CONSTANTS
    Names = {a, b}
    Empty = empty
    FlagSets <- CreateOnly
    Chunks <- OneChunk
    WriteThrough = TRUE
    CanWrite = TRUE
    CanAppend = TRUE
    MaxInodes = 4
    MaxSize = 1
    MaxEntries = 1
VIEW WithoutReply
INVARIANTS
    TypeOK
    MapSlabCoherent
    RootResolves
    WritersReleasable
PROPERTIES
    NodeidStable
    RetiredStaysRetired
    EntriesResolve
