SPECIFICATION Spec
CONSTANTS
    Workers = {w1, w2}
    OutboxCap = 2
    BackoffCap = 1
    MaxAddrs = 1
    Extranonces = {x1, x2}
    NoExtranonce = NoExtranonce
    MaxSerial = 1
    MaxShares = 2
    EagerPool = FALSE
    PoolAsks = FALSE
SYMMETRY Symmetry
INVARIANTS
    PrefixIsOurs
    AnswersFindShares
    NoShareOversleeps
PROPERTIES
    KeepsTheBooks
