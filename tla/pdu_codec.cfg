CONSTANTS
    Byte = 8
    MaxLength = 50
    Addrs <- MCAddrs
    Texts <- MCTexts
    Ids <- MCIds
    Nothing = Nothing
SPECIFICATION CodecSpec
INVARIANTS
    Understood
CHECK_DEADLOCK FALSE
