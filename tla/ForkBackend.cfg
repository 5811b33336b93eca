SPECIFICATION Spec
CONSTANTS
    None = None
    Blocks <- TwoBlocks
    Launched = {TRUE, FALSE}
    Plans <- Pairs
    MaxForks = 2
    MaxRolls = 1
    MaxWrites = 2
    MaxRounds = 1
    MaxSnapshots = 1
CHECK_DEADLOCK FALSE
INVARIANTS
    OwnState
    SharedState
    BlockPreserved
