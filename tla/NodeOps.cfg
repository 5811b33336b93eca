SPECIFICATION NodeSpec
CONSTANTS
    Senders = {"a"}
    Txs <- Successor
    NoTx = NoTx
    MaxId = 2
    MaxMarkers = 4
    Clients = {"c1"}
    Rpcs = {"eth_sendRawTransaction", "evm_setAutomine", "evm_setIntervalMining", "evm_mine", "anvil_dropTransaction", "anvil_removePoolTransactions", "anvil_dropAllTransactions"}
    InitMode = "Mixed"
    Order = "Fees"
    MaxTransactions = 1
    BlockGas = 3
    Fates = {"run", "refused", "skipped"}
    MaxQueued = 1
INVARIANTS
    IndependentExecutable
    RejectedForCause
PROPERTIES
    PoolBehaviour
CHECK_DEADLOCK FALSE
