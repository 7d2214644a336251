SPECIFICATION FairSpec
CONSTANTS
    HdrLen = 2
    FieldLen = 0
    MaxChunk = 2
    MaxFrames = 2
    MaxBuf = 6
    RealBuf = 10
    AuthLen = 1
    MaxUp = 2
    MaxDown = 2
INVARIANTS
    TypeOK
    TurnTaking
    AuthFirst
    BuffersFit
    UpstreamIntegrity
    DownstreamIntegrity
    OrderlyClose
PROPERTIES
    AuthResolves
    TargetEofCloses
CHECK_DEADLOCK FALSE
