CONSTANTS
    Requests = {r1, r2, r3, r4}
    SessionIds = {i1}
    Items <- MCItems
    Inputs <- MCInputs
    ExitKey <- MCExitKey
    BackKey <- MCBackKey
    None = None
    MaxAtOnce = 2
SPECIFICATION Spec
SYMMETRY Symmetry
INVARIANTS
    TypeOK
    HistoryIsPath
    ScreenIsCurrent
    NoPanic
    SessionLostOnlyByExit
CHECK_DEADLOCK FALSE
