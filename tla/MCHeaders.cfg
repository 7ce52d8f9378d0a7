SPECIFICATION RSpec
CONSTANTS
    HTTP_MAX_HEADER_SIZE = 17
    ULLONG_MAX = 29
    MaxLen = 2
    Peer <- HeadersPeer
    CbRet <- Returned
    MAX_HEADERS_COUNT = 3
    HEADER_SLOTS = 12
    UINT_RANGE = 16
    MallocFails = {FALSE, TRUE}
    StoredBodyCb = {"NULL"}
    MaxMessages = 1
    MaxBody = 1
INVARIANTS ResponseTypeOK HeadersAsSent FlagsAsSent
PROPERTIES NoConcatToNull
