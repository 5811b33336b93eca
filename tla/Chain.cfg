SPECIFICATION Spec
CONSTANTS
    Threads = {t1, t2}
    NoThread = NoThread
    Txs = {x1, x2}
    Workloads <- AnyOfThese
    Keeper = 1
    MaxBlocks = 5
    MaxSnapshots = 2
SYMMETRY ChainSymmetry
CHECK_DEADLOCK FALSE
INVARIANTS
    ChainLinked
    DbMatchesChain
    HistoryTrue
    TransactionsMatchBlocks
    SnapshotsTrue
