SPECIFICATION Spec
CONSTANTS
    Block <- MCBlock
    NoBlock = NoBlock
    ChainOf <- MCChainOf
    Tx <- MCTx
    Txo <- MCTxo
    TxsIn <- MCTxsIn
    Outputs <- MCOutputs
    Prevouts <- MCPrevouts
    g = g
    a1 = a1
    a2 = a2
    b1 = b1
    b2 = b2
    x = x
    y = y
    z = z
    og = og
    ox = ox
    BatchSize = 1
    BlkFile <- FilesOutOfOrder
    JsonrpcImport = FALSE
INVARIANTS
    PrevoutsAddedFirst
