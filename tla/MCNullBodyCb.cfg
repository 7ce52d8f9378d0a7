SPECIFICATION RSpec
CONSTANTS
    HTTP_MAX_HEADER_SIZE = 13
    ULLONG_MAX = 29
    MaxLen = 2
    Peer <- LengthPeer
    CbRet <- Returned
    MAX_HEADERS_COUNT = 100
    HEADER_SLOTS = 12
    UINT_RANGE = 16
    MallocFails = {FALSE}
    StoredBodyCb = {"NULL", "garbage"}
    MaxMessages = 1
    MaxBody = 12
INVARIANTS NullCallbackStoresBody
