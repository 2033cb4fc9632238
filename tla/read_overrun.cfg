SPECIFICATION ExchangeSpec
CONSTANTS
    MaxLen = 18
    Truncated = FALSE
    Sizes = {4}
    Rests = {4, 6}
    Counts = {1}
INVARIANTS
    ReplyInPlace
