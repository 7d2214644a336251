SPECIFICATION Spec
CONSTANTS
    HdrLen = 2
    FieldLen = 0
    MaxChunk = 2
    MaxFrames = 2
    MaxBuf = 6
    RealBuf = 10
    GreetLen = 2
    ReqHead = 1
    ReqLen = 2
    AuthLen = 1
    MaxUp = 2
    MaxDown = 2
INVARIANTS
    TypeOK
    TurnTaking
    BuffersFit
    UpstreamIntegrity
    DownstreamIntegrity
    NothingDropped
    OrderlyClose
    ClosedForCause
CHECK_DEADLOCK FALSE
