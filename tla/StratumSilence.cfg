SPECIFICATION FairSpec
CONSTANTS
    Workers = {}
    OutboxCap = 2
    BackoffCap = 3
    MaxAddrs = 2
    Extranonces = {x1, x2}
    NoExtranonce = NoExtranonce
    MaxSerial = 1
    MaxShares = 0
    EagerPool = FALSE
    PoolAsks = FALSE
INVARIANTS
    DelayBounded
PROPERTIES
    DetachedThreadEnds
    SilenceEnds
    ComesBack
CHECK_DEADLOCK FALSE
