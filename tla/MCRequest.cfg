SPECIFICATION BSpec
CONSTANTS
    UINT16_RANGE = 65536
    Urls = {u1, u2}
    Strings <- UrlStrings
    AllocFails = {FALSE, TRUE}
    Memory = {3}
    MAX_HEADERS_COUNT = 3
    BUFFER = 2
    UINT32_RANGE = 48
    Methods <- MethodNames
    Headers <- HeaderPairs
    BodySizes = {0, 3, 12}
    MaxCalls = 7
SYMMETRY Symmetry
INVARIANTS
    FieldsOfOwnUrl MakesRequestLine HeadersAsAsked FramesBody BuildFits SlotsCounted LineNamesHost
    NullExplained NothingLeaks HostNamesServer
