SPECIFICATION FairSpec
CONSTANTS
    Senders = {"a"}
    Txs <- MCTxs
    NoTx = NoTx
    MaxId = 4
    MaxMarkers = 2
INVARIANTS
    MarkersMatchReady
    InOnePlace
    NoSatisfiedWaiter
    EveryReadyYielded
PROPERTIES
    NothingLostWhilePromoting
    LockIsReleased
