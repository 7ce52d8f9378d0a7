SPECIFICATION RSpec
CONSTANTS
    HTTP_MAX_HEADER_SIZE = 13
    ULLONG_MAX = 29
    MaxLen = 2
    Peer <- PairPeer
    CbRet <- Returned
    MAX_HEADERS_COUNT = 4
    HEADER_SLOTS = 1
    UINT_RANGE = 16
    MallocFails = {FALSE}
    StoredBodyCb = {"NULL"}
    MaxMessages = 1
    MaxBody = 12
INVARIANTS SlotsSuffice
