SPECIFICATION RSpec
CONSTANTS
    HTTP_MAX_HEADER_SIZE = 11
    ULLONG_MAX = 29
    MaxLen = 2
    Peer <- AnyBodyPeer
    CbRet <- Returned
    MAX_HEADERS_COUNT = 100
    HEADER_SLOTS = 12
    UINT_RANGE = 16
    MallocFails = {FALSE, TRUE}
    StoredBodyCb = {"NULL", "user"}
    MaxMessages = 2
    MaxBody = 3
INVARIANTS HeadersAsSent BodyAsSent BodyInBlock NullOnlyOutOfMemory
PROPERTIES CompletedIsWhole
