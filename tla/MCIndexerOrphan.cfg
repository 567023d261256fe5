SPECIFICATION Spec
CONSTANTS
    Block <- SmallBlock
    NoBlock = NoBlock
    ChainOf <- SmallChainOf
    Tx <- MCTx
    Txo <- MCTxo
    TxsIn <- SmallTxsIn
    Outputs <- MCOutputs
    Prevouts <- MCPrevouts
    g = g
    a1 = a1
    a2 = a2
    b1 = b1
    b2 = b2
    x = x
    y = y
    z = z
    og = og
    ox = ox
    BatchSize = 1
    BlkFile <- SmallFilesInOrder
    JsonrpcImport = FALSE
INVARIANTS
    ServesItsChain
