\* Nothing is lost on the way and the queue never overflows.
CONSTANTS
    Clients = {c1}
    Sizes = {2}
    SeqMod = 8
    EVENT_QUEUE_PACKETS = 3
    BatchWords = 3
    Faults = {}
    MaxTransfers = 3
SPECIFICATION StreamSpec
INVARIANT SlipsOnlyAfterDrop
