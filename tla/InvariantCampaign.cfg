SPECIFICATION FairSpec
CONSTANTS
    Calls = {"a", "b"}
    Contracts <- Machines
    Runs = 2
    Depth = 3
    MaxAssumeRejects = 1
    ShrinkRunLimit = 4
    MaxTests = 2
CHECK_DEADLOCK FALSE
INVARIANTS
    ReportedFails
    SmallestIfMonotone
    VerdictHonest
PROPERTIES
    FailsAgain
    Finishes
