SPECIFICATION Spec
CONSTANTS
    HdrLen = 2
    FieldLen = 0
    MaxChunk = 2
    MaxFrames = 2
    MaxBuf = 6
    RealBuf = 10
    GreetLen = 2
    ReqHead = 1
    ReqLen = 2
    AuthLen = 1
    MaxUp = 1
    MaxDown = 2
INVARIANTS
    WriteErrorIsReal
CHECK_DEADLOCK FALSE
