CONSTANTS
    BATCH = 2
    DEPTH_IN = 3
    DEPTH_OUT = 1
    NVectors = 4
    Lines = {0}
    NoLine = NoLine
    NoData = NoData
    NoRequest = NoRequest
    Dropped = Dropped
    Levels = {2}
    Data <- MCData
    Results <- MCResults
    Image <- MCImage
    ADDR_RESET <- MCAddressReset
    Code <- AppCode
SPECIFICATION WarmSpec
INVARIANT NoAssertionFails
PROPERTY WakesAtHandler
PROPERTY ImplementsLossyPath
CHECK_DEADLOCK FALSE
