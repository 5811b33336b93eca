SPECIFICATION FairSpec
CONSTANTS
    Hash = {h1, h2, h3, h4, h5}
    NoHash = NoHash
    IN_MEMORY_LIMIT = 2
    ON_DISK_LIMIT = 2
    MIN_HISTORY_LIMIT = 1
    FAST_LIMIT = 3
    Reinsert = FALSE
    DiskFails = TRUE
    MaxInserts = 5
INVARIANTS
    Bounded
    OldestRemovedFirst
    NothingLostOnDisk
PROPERTIES
    LimitsAreEnforced
