CONSTANTS
    Conns = {c1, c2}
    Senders = {s1}
    SystemIDs = {esme, other}
    ServerID = esme
    BindPDUs <- OneType
    None = None
    MaxSeq = 1
SPECIFICATION Spec
INVARIANTS
    BoundReceiverFound
CHECK_DEADLOCK FALSE
