SPECIFICATION RSpec
CONSTANTS
    HTTP_MAX_HEADER_SIZE = 13
    ULLONG_MAX = 29
    MaxLen = 2
    Peer <- PairPeer
    CbRet <- Returned
    MAX_HEADERS_COUNT = 100
    HEADER_SLOTS = 12
    UINT_RANGE = 16
    MallocFails = {FALSE}
    StoredBodyCb = {"NULL"}
    MaxMessages = 1
    MaxBody = 12
INVARIANTS ValuesInBlock
