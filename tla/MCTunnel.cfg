SPECIFICATION FairTunnelSpec
CONSTANTS
    HdrLen = 1
    FieldLen = 0
    MaxChunk = 1
    MaxFrames = 2
    MaxBuf = 3
    RealBuf = 5
    GreetLen = 1
    ReqHead = 1
    ReqLen = 1
    AuthLen = 0
    MaxUp = 1
    MaxDown = 1
INVARIANTS
    FramesAccepted
PROPERTIES
    UpIsPipe
    DownIsPipe
    BothDeliver
    HalvesEndTogether
    ClientEofCloses
CHECK_DEADLOCK FALSE
