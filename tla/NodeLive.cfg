SPECIFICATION FairNodeSpec
CONSTANTS
    Senders = {"a"}
    Txs <- TwoNonces
    NoTx = NoTx
    MaxId = 3
    MaxMarkers = 4
    Clients = {"c1"}
    Rpcs = {"eth_sendRawTransaction", "eth_sendTransaction"}
    InitMode = "Auto"
    Order = "Fees"
    MaxTransactions = 1
    BlockGas = 3
    Fates = {"run"}
    MaxQueued = 2
PROPERTIES
    ReadyIsMined
CHECK_DEADLOCK FALSE
