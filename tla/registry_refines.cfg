CONSTANTS
    Conns = {c1, c2}
    Senders = {s1, s2}
    SystemIDs = {esme, other}
    ServerID = esme
    BindPDUs <- OneType
    None = None
    MaxSeq = 2
SPECIFICATION Spec
SYMMETRY Symmetry
PROPERTIES
    ImplementsConnection
CHECK_DEADLOCK FALSE
