CONSTANTS
    Conns = {c1, c2}
    Senders = {}
    SystemIDs = {esme, other}
    ServerID = esme
    BindPDUs <- TwoTypes
    None = None
    MaxSeq = 0
SPECIFICATION FairSpec
INVARIANTS
    TypeOK
    NoDeadEntry
    UnreachableOnlyByRebind
PROPERTIES
    IdleSoleClientEvicted
CHECK_DEADLOCK FALSE
