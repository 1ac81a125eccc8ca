\* Two words in the input FIFO, one in the output FIFO, three event lines.
\* Two pages; three pieces of work in all, two of them deployments at most.
CONSTANTS
    N_EVENTS = 3
    Unreachable = 9
    DEPTH_IN = 2
    DEPTH_OUT = 1
    NVectors = 4
    NoLine = NoLine
    NoData = NoData
    NoRequest = NoRequest
    Dropped = Dropped
    Levels = {9}
    Lines <- MCLines
    Data <- MCData
    Results <- MCResults
    ADDR_RESET <- MCAddressReset
    Code <- MultiCode
    p = p
    q = q
    Pages <- TwoPages
    Offers <- MCOffers
    Startup = Startup
    Nobody = Nobody
    MaxDeploys = 2
    MaxWork = 3
SPECIFICATION HandlersSpec
INVARIANT AppliedIsMine
INVARIANT ServersOwned
PROPERTY ImplementsTaggedPath
PROPERTY NoticesLoss
PROPERTY HandlersEnd
