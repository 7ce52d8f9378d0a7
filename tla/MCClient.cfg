SPECIFICATION CSpec
CONSTANTS
    HTTP_MAX_HEADER_SIZE = 11
    ULLONG_MAX = 29
    MaxLen = 3
    Peer <- LengthPeer
    CbRet <- Returned
    MAX_HEADERS_COUNT = 100
    HEADER_SLOTS = 12
    UINT_RANGE = 16
    MallocFails = {FALSE, TRUE}
    StoredBodyCb = {"NULL", "garbage"}
    MaxMessages = 1
    MaxBody = 5
    RequestSize = 2
    BufferSize = 13
INVARIANTS ResponseIsAnswer WholeIsNotFailed
PROPERTIES ImplementsExchange
