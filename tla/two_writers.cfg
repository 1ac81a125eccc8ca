\* Two viewers of the motion detector, one after the other.
CONSTANTS
    Kinds = {"motion"}
    Recordings = {4}
    EVENTS_PER_WORD = 2
    EVENTS_PER_DUMP = 4
    DUMP_WORDS = 1
    STABILIZE_BATCH = 1
    Rate = 1
    LineCuts = {0, 2}
    MaxSessions = 2
SPECIFICATION TailSpec
INVARIANT OneWriter
\* Both viewers are quit in the end.
CHECK_DEADLOCK FALSE
