SPECIFICATION Spec
CONSTANTS
    Workers = {w1}
    OutboxCap = 2
    BackoffCap = 1
    MaxAddrs = 1
    Extranonces = {x1, x2}
    NoExtranonce = NoExtranonce
    MaxSerial = 2
    MaxShares = 2
    EagerPool = FALSE
    PoolAsks = FALSE
SYMMETRY Symmetry
INVARIANTS
    NoWorkMeansNoWork
