SPECIFICATION Spec
CONSTANTS
    ToolIndexes = {0, 1}
    Config <- MCConfig
    Rules <- MCRules
    Default = "ant"
    NoName = "nobody"
    GateKey = TRUE
    Requests <- MCRequests
    Chunks <- MCChunks
    Pieces = {0, 1, 2}
    MaxChunks = 4
INVARIANTS
    NoDoubleWork
    OneRecord
    UsageIsReported
    FallbackAnnounced
    BlocksNest
    AnswersFollowCalls
PROPERTIES
    EveryRequestEnds
CHECK_DEADLOCK FALSE
