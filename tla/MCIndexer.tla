------------------------------ MODULE MCIndexer ------------------------------
(***************************************************************************)
(* Small instances of Indexer.  Two branches leave the genesis block g:    *)
(*                                                                         *)
(*      g - a1 - a2      a1 confirms x, a2 confirms y, which spends x's    *)
(*                       output                                            *)
(*      g - b1 - b2      b1 is empty, b2 confirms x one block later than   *)
(*                       a1 does, and z, which spends the output y spends  *)
(*                                                                         *)
(* so that the branches share a transaction at different heights (its "C"  *)
(* rows have one key) and spend an output with different transactions (the *)
(* "S" rows have one key).  The daemon may also go back to an ancestor.    *)
(***************************************************************************)
EXTENDS Indexer

CONSTANTS g, a1, a2, b1, b2, x, y, z, og, ox

MCBlock == {g, a1, a2, b1, b2}

MCChainOf == [b \in MCBlock |->
    CASE b = g -> <<g>>
      [] b = a1 -> <<g, a1>>
      [] b = a2 -> <<g, a1, a2>>
      [] b = b1 -> <<g, b1>>
      [] b = b2 -> <<g, b1, b2>>]

MCTx == {g, x, y, z}
MCTxo == {og, ox}

MCTxsIn == [b \in MCBlock |->
    CASE b = g -> {g}
      [] b = a1 -> {x}
      [] b = a2 -> {y}
      [] b = b2 -> {x, z}
      [] OTHER -> {}]

MCOutputs == [t \in MCTx |-> CASE t = g -> {og} [] t = x -> {ox} [] OTHER -> {}]
MCPrevouts == [t \in MCTx |->
    CASE t = x -> {og} [] t \in {y, z} -> {ox} [] OTHER -> {}]

\* The instance without a2, for the runs that need fewer blocks.
SmallBlock == {g, a1, b1, b2}
SmallChainOf == [b \in SmallBlock |-> MCChainOf[b]]
SmallTxsIn == [b \in SmallBlock |-> MCTxsIn[b]]

\* Every block in a later file than its parent, in pairs.
FilesInOrder == [b \in MCBlock |-> IF b \in {a2, b2} THEN 1 ELSE 0]

SmallFilesInOrder == [b \in SmallBlock |-> FilesInOrder[b]]

\* The daemon received and stored a child before its parent.
FilesOutOfOrder == [b \in MCBlock |-> IF b = a1 THEN 1 ELSE 0]
=============================================================================
