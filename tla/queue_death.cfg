SPECIFICATION QueueSpec
CONSTANTS
    Queues = {request}
    MayDrop = TRUE
    MayFail = TRUE
    QueueSize = 2
    IndexMod = 4
    MaxRequests = 9
CHECK_DEADLOCK FALSE
INVARIANTS
    QueueTypeOK
    ReturnedInOrder
    NoLostKick
    NoLostInterrupt
PROPERTIES
    AnswersOnly
