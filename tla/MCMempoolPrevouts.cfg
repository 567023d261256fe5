SPECIFICATION Spec
CONSTANTS
    Tx <- MCTx
    Txo <- MCTxo
    Outputs <- MCOutputs
    Prevouts <- MCPrevouts
    parent = parent
    child = child
    replacement = replacement
    coin = coin
    out = out
    MaxTip = 1
    RpcThreads = 0
    RestThreads = 1
INVARIANTS
    PrevoutsLoaded
