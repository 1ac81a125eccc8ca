CONSTANTS
    BATCH = 2
    DEPTH_IN = 3
    DEPTH_OUT = 2
    NVectors = 4
    Lines = {0}
    NoLine = NoLine
    NoData = NoData
    NoRequest = NoRequest
    Dropped = Dropped
    Levels = {2}
    Data <- MCTwo
    Results <- MCResults
    Image <- MCImage
    ADDR_RESET <- MCAddressReset
    Code <- AppCode
SPECIFICATION DrainedFairSpec
INVARIANT NoUnconfiguredVector
INVARIANT SingleEdge
INVARIANT NoStrandedBatch
INVARIANT ResetClearsMask
PROPERTY ImplementsEventPath
PROPERTY ResetCompletes
PROPERTY BatchServed
