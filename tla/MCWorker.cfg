SPECIFICATION FairSpec
CONSTANTS
    MaxProc = 2
    Conns = {c1, c2, c3}
    Backlog = 2
    FdLimit = 3
    IPv6Names = {c2}
    Resetters = {c1, c2}
    LongNames = {c2}
    Setups <- SomeSetups
INVARIANTS
    TypeOK
    StartedAsConfigured
PROPERTIES
    
    PendingAccepted
CHECK_DEADLOCK FALSE
