CONSTANTS
    LineLength = 3
    MaxLines = 2
    MaxTyped = 2
SPECIFICATION Spec
INVARIANTS
    LostOnlyByDeadline
CHECK_DEADLOCK FALSE
