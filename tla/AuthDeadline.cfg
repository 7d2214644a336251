SPECIFICATION Spec
CONSTANTS
    AuthTimeoutSec = 30
    HangMin = 20
    HangMax = 59
    ConnectSec = 60
INVARIANTS
    AuthDeadline
CHECK_DEADLOCK FALSE
