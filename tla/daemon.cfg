SPECIFICATION DaemonSpec
CONSTANTS
    MayFail = TRUE
    MaxRegions = 2
    MaxRequests = 3
INVARIANTS
    MemoryCovers
    OneRule
    MainSurvives
PROPERTIES
    ControlAnswers
    ShutsDown
