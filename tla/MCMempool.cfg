SPECIFICATION FairSpec
CONSTANTS
    Tx <- MCTx
    Txo <- MCTxo
    Outputs <- MCOutputs
    Prevouts <- MCPrevouts
    parent = parent
    child = child
    replacement = replacement
    coin = coin
    out = out
    MaxTip = 2
    RpcThreads = 1
    RestThreads = 1
INVARIANTS
    TypeOK
    UpdateNeverFails
    ViewAgrees
PROPERTIES
    
    SettlesOnPool
