CONSTANTS
    Parts = 2
    MaxSeq = 2
    MaxDeliver = 1
    None = None
SPECIFICATION Spec
INVARIANTS
    TimeoutLosesNothing
CHECK_DEADLOCK FALSE
