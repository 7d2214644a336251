SPECIFICATION Spec
CONSTANTS
    MaxRead = 4096
    RealBuf = 5120
    ChunkSizes <- ExtremeChunks
    ChunkMin = 300
    RndSizes <- ExtremeRnds
    RndMax = 9
    FixedLen = 12
    Totals <- Reads
INVARIANTS
    NoOverflow
PROPERTIES
    EncodedOnce
CHECK_DEADLOCK FALSE
