\* A trigger level fixed at power-on: below, at and above the capacity.
\* Packets of two words, batches of three: a packet is cut when two are
\* queued.  The queue holds three packets; the sequence wraps at three.
CONSTANTS
    DEPTH = 4
    Data = {a, b}
    NoData = NoData
    Levels = {1, 2, 3, 4, 5}
    Clients = {c1, c2}
    Sizes = {2}
    SeqMod = 3
    EVENT_QUEUE_PACKETS = 3
    BatchWords = 3
    Faults = {"dma", "lose", "reorder", "duplicate", "restart"}
    MaxTransfers = 4
SPECIFICATION QueuesSpec
INVARIANT QueuesInv
INVARIANT WatermarkKept
INVARIANT Accounted
INVARIANT OvertakesOnlyCut
INVARIANT NoGaps
INVARIANT DropsCounted
PROPERTY RefinesQueue
PROPERTY KeepsSending
