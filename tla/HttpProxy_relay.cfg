SPECIFICATION Spec
CONSTANTS
    Origins = {"a", "b"}
    Scripts <- MCScripts
    Answers <- MCAnswers
    Slots = 2
    MaxPieces = 2
INVARIANTS
    Attributed
    NothingAfterCut
    RequestsIntact
PROPERTIES
    ConnectionsEnd
CHECK_DEADLOCK FALSE
