SPECIFICATION FairSpec
CONSTANTS
    Clients = {"c1", "c2", "c3"}
    Urls = {"u"}
    Blocks <- TwoBlocks
    Nobody = "nobody"
    MaxCalls = 3
CHECK_DEADLOCK FALSE
INVARIANTS
    BackendsDriven
PROPERTIES
    KeepsPromise
