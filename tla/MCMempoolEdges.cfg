SPECIFICATION Spec
CONSTANTS
    Tx <- MCTx
    Txo <- MCTxo
    Outputs <- MCOutputs
    Prevouts <- MCPrevouts
    parent = parent
    child = child
    replacement = replacement
    coin = coin
    out = out
    MaxTip = 1
    RpcThreads = 1
    RestThreads = 0
INVARIANTS
    EdgesFound
