SPECIFICATION Spec
CONSTANTS
    HTTP_MAX_HEADER_SIZE = 12
    ULLONG_MAX = 29
    MaxLen = 2
    Peer <- ConnectionPeer
    CbRet <- AnyRet
INVARIANTS Asserts
PROPERTIES ConsumesAll ExecuteReturns
