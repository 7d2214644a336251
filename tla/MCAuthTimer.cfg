SPECIFICATION FairSpec
CONSTANTS
    AuthTimeoutSec = 30
    HangMin = 20
    HangMax = 59
    ConnectSec = 60
INVARIANTS
    WaitIsBounded
PROPERTIES
    WaitEnds
CHECK_DEADLOCK FALSE
