CONSTANTS
    Msgs = {m1, m2}
    MsgIDs = {i1, i2}
    None = None
SPECIFICATION FairSpec
INVARIANTS
    TypeOK
    AtMostOneReceipt
    RemovesOnlyItsOwn
    OnlyRequestedReceipts
    NoEarlyReceipt
PROPERTIES
    TrackedUntilDone
    RequestedReceiptSent
