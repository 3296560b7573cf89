CONSTANTS
    MaxSessions = 2
    MaxRequests = 2
    MaxLines = 2
    Cap = 1
    None = None
SPECIFICATION FairSpec
INVARIANTS
    TypeOK
    NoPanic
    LinesAccountedFor
    ShownInOrder
PROPERTIES
    ResponseShown
    GoroutinesEnd
CHECK_DEADLOCK FALSE
