SPECIFICATION Spec
CONSTANTS
    MaxThreads = 1
    MaxConns = 2
    MaxSerial = 2
    MaxNonce = 1
    MaxShares = 2
    MaxStarts = 2
PROPERTIES
    RebuiltForNewJobs
CHECK_DEADLOCK FALSE
