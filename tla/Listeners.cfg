SPECIFICATION ListenFairSpec
CONSTANTS
    Setups <- OneKind
    Clients = {c}
    FeeLimit = 1
    MaxBlocks = 5
    MaxRollbacks = 1
    MaxFilters = 2
CHECK_DEADLOCK FALSE
INVARIANTS
    EachOnce
    FeesTrue
PROPERTIES
    LogsArrive
