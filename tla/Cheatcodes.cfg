SPECIFICATION Spec
CONSTANTS
    Contracts = {t, c, m}
    Mocked = {m}
    Eoas = {runner, alice}
    Runner = runner
    MaxDepth = 4
    MaxSteps = 6
CHECK_DEADLOCK FALSE
INVARIANTS
    SendersAsAsked
    OriginAsAsked
    NoncesFollow
    RevertsHonest
