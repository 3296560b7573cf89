CONSTANTS
    Parts = 2
    MaxSeq = 2
    MaxDeliver = 2
    None = None
SPECIFICATION FairSpec
INVARIANTS
    TypeOK
    HandledInOrder
    HandledAtMostOnce
    UniqueSequenceNos
PROPERTIES
    DeliveriesAnswered
CHECK_DEADLOCK FALSE
