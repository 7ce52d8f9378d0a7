SPECIFICATION PSpec
CONSTANTS
    HTTP_MAX_HEADER_SIZE = 16
    ULLONG_MAX = 29
    MaxLen = 2
    Peer <- FramingPeer
    CbRet = {0, 1}
INVARIANTS TypeOK AtMostOneMark Asserts OneFraming
PROPERTIES SlicesInBuffer ConsumesAll ImplementsProtocol
