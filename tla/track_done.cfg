\* A recording of three words that ends between two dumps, like the default
\* one (173336 events, 256 to a dump).
CONSTANTS
    Kinds = {"track"}
    Recordings = {6}
    EVENTS_PER_WORD = 2
    EVENTS_PER_DUMP = 4
    DUMP_WORDS = 1
    STABILIZE_BATCH = 1
    Rate = 1
    LineCuts = {0, 2}
    MaxSessions = 1
SPECIFICATION TailSpec
PROPERTY ShowsDone
\* The viewer is started once.
CHECK_DEADLOCK FALSE
