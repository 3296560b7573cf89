CONSTANTS
    Users = {u1}
    Clients = {c1}
    Senders = {s1}
    Sweeper = sweeper
    None = None
SPECIFICATION FairSpec
INVARIANTS
    TypeOK
    SendsToConnected
PROPERTIES
    MutexGranted
    SendToUserEnds
    SilentClientSwept
CHECK_DEADLOCK FALSE
