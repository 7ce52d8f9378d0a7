SPECIFICATION USpec
CONSTANTS
    UINT16_RANGE = 9
    Offered <- OfferedChars
    MaxUrl = 9
    Memory = {0, 3}
INVARIANTS FieldsInBuffer UrlAsserts SplitAsWritten
