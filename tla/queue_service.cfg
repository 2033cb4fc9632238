SPECIFICATION FairQueueSpec
CONSTANTS
    Queues = {hiprio, request}
    MayDrop = FALSE
    MayFail = FALSE
    QueueSize = 2
    IndexMod = 4
    MaxRequests = 2
CHECK_DEADLOCK FALSE
PROPERTIES
    ServesRequests
