\* A FIFO of four slots; two lines, three vectors and masks 0..3; internal
\* bases 0 and 1, external bases 3 and 4, a gap and an unmapped external base.
\* Two firmware images of two words; three resets: one late, two after it.
\* Frames of three words.  A recording with a rest, a dump of four
\* events; flushes end anywhere in a line; two sessions.
\* Batches of four events at two pixels: eight of one pixel saturate a cell.
\* Recordings that end inside a frame and inside a group, results shorter and
\* longer than they; every word of the sensor's address space; registries of
\* up to two lines out of five.
CONSTANTS
    DEPTH = 4
    Data = {a, b}
    NoData = NoData
    Levels = {1}
    Lines = {0, 1}
    NoLine = NoLine
    Addresses = {0, 1, 2, 3}
    NVectors = 3
    Internal = {0, 1}
    ADDR_EXT_MIN = 3
    External = {3, 4}
    ADDR_NO_CATCHALL = 6
    Words = {0, 1}
    NoRequest = NoRequest
    Images = {f, g}
    Bitstream = blank
    NWords = 2
    MaxPresses = 3
    Datagrams <- MCDatagrams
    SocketRoom = 2
    max_drain_packets = 2
    max_frame_words = 3
    IdMod = 5
    Kinds = {"motion", "blob", "track", "timesurface", "denoise", "stabilize"}
    Recordings = {5}
    EVENTS_PER_WORD = 2
    EVENTS_PER_DUMP = 4
    DUMP_WORDS = 3
    STABILIZE_BATCH = 3
    Rate = 2
    LineCuts = {0, 1, 2}
    MaxSessions = 2
    Pixels <- MCPixels
    BATCH = 4
    Players = {"replay", "motion", "rotate"}
    Captures = {3, 5, 8}
    ResultFiles = {0, 1, 2, 6}
    Computed = Computed
    PER_WORD = 2
    FrameEvents = 3
    HighBits = {1}
    RegistryLines <- MCRegistryLines
    Present = {"f"}
    MaxLines = 2
SPECIFICATION PartsSpec
INVARIANT PartsInv
INVARIANT AckMeansBooted
INVARIANT CleanBoot
INVARIANT MirrorAgrees
INVARIANT BoxHasMotion
INVARIANT RotationsAgree
INVARIANT TestFindsFiles
PROPERTY RefinesQueue
PROPERTY RegistersIndependent
PROPERTY ImplementsWordMemory
PROPERTY LoadAnswered
PROPERTY DeliveredPaused
PROPERTY CommandEnds
PROPERTY NewestDrawn
PROPERTY ScreenIsTrue
PROPERTY WordsPaired
PROPERTY DoneWhenOver
CONSTRAINT Unmixed
\* A viewer that is quit and a tail whose sessions are used up stop.
CHECK_DEADLOCK FALSE
