SPECIFICATION FairSpec
CONSTANTS
    HeaderSize = 2
    MaxBuffer = 4
    Byte = {0, 2, 3, 4, 5}
    MaxChunk = 3
    MaxStream = 6
INVARIANTS
    BufferBelowCap
    PacketsMatchTheirHeader
    ChunkingIrrelevant
PROPERTIES
    FeedReturns
CHECK_DEADLOCK FALSE
