CONSTANTS
    Addrs = {empty, a1}
    EmptyAddr = empty
    Requests = {r1, r2, r3}
    None = None
    TTL = 1
    MaxSid = 4
SPECIFICATION FairSpec
INVARIANTS
    TypeOK
    SessionsOwned
PROPERTIES
    LiveSessionKept
    MessageKeepsSession
    SessionsRemoved
CHECK_DEADLOCK FALSE
