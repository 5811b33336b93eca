SPECIFICATION FairSpec
CONSTANTS
    Scripts <- OneOrTwoSenders
    MaxTxs = 4
    BatchSize = 3
    MaxRuns = 3
    MaxFaults = 2
CHECK_DEADLOCK FALSE
INVARIANTS
    CompleteMeansAll
    InOrder
PROPERTIES
    Ends
