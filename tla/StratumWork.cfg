SPECIFICATION Spec
CONSTANTS
    Workers = {w1}
    OutboxCap = 2
    BackoffCap = 1
    MaxAddrs = 1
    Extranonces = {x1, x2}
    NoExtranonce = NoExtranonce
    MaxSerial = 2
    MaxShares = 1
    EagerPool = TRUE
    PoolAsks = TRUE
SYMMETRY Symmetry
INVARIANTS
    TypeOK
    SharesAccounted
    SentForItsJob
    PublishedIsMinable
    ReadyHasWork
PROPERTIES
    RejectionIsFinal
