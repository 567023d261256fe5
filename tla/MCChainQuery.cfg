SPECIFICATION Spec
CONSTANTS
    Block <- MCBlock
    NoBlock = NoBlock
    ChainOf <- MCChainOf
    Tx <- MCTx
    Txo <- MCTxo
    TxsIn <- MCTxsIn
    Outputs <- MCOutputs
    Prevouts <- MCPrevouts
    Reader <- Readers
    OfScript <- MCTxo
    MinHistoryItems = 1
    UtxosLimit = 3
    g = g
    a1 = a1
    a2 = a2
    b1 = b1
    b2 = b2
    x = x
    y = y
    z = z
    og = og
    ob = ob
    ox = ox
    oa = oa
    oy1 = oy1
    oy2 = oy2
    r1 = r1
    r2 = r2
SYMMETRY Interchangeable
INVARIANTS
    TypeOK
    CacheExactUnlessRaced
    NamesItsBlockUnlessRaced
    AbortsOnlyIfRaced
PROPERTIES
    AnswersExactUnlessRaced
