SPECIFICATION FairSpec
CONSTANTS
    MaxThreads = 2
    MaxConns = 2
    MaxSerial = 1
    MaxNonce = 1
    MaxShares = 1
    MaxStarts = 2
INVARIANTS
    TypeOK
    SharesStayHome
    ModeIsTrue
PROPERTIES
    UiComesBack
CHECK_DEADLOCK FALSE
