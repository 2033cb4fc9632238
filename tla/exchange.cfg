SPECIFICATION ExchangeSpec
CONSTANTS
    MaxLen = 16
    Truncated = TRUE
    Sizes = {4, 8}
    Rests = {0, 1, 4}
    Counts = {1, 2, 3}
INVARIANTS
    Survives
    ReplyInPlace
    ReplyComplete
    PayloadExact
