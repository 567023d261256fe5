---------------------------- MODULE MCChainQuery ----------------------------
(***************************************************************************)
(* A small instance of ChainQuery: two branches of two blocks leave the    *)
(* genesis block g, and the script is paid by                              *)
(*                                                                         *)
(*      g    genesis, one output                                           *)
(*      a1   x, which spends it, and a coinbase                            *)
(*      a2   y, which spends x's output and makes two: over the limit of 3 *)
(*      b1   a coinbase                                                    *)
(*      b2   x, one block later, and z, which spends x's output            *)
(*                                                                         *)
(* One history item is not enough to be cached.                            *)
(***************************************************************************)
EXTENDS ChainQuery, TLC

CONSTANTS g, a1, a2, b1, b2, x, y, z, og, oa, ob, ox, oy1, oy2, r1, r2

MCBlock == {g, a1, a2, b1, b2}

MCChainOf == [b \in MCBlock |->
    CASE b = g -> <<g>>
      [] b = a1 -> <<g, a1>>
      [] b = a2 -> <<g, a1, a2>>
      [] b = b1 -> <<g, b1>>
      [] b = b2 -> <<g, b1, b2>>]

\* The coinbase of a block bears the name of the block.
MCTx == {g, a1, b1, x, y, z}
MCTxo == {og, oa, ob, ox, oy1, oy2}

MCTxsIn == [b \in MCBlock |->
    CASE b \in {g, b1} -> {b}
      [] b = a1 -> {a1, x}
      [] b = a2 -> {y}
      [] b = b2 -> {x, z}]

MCOutputs == [t \in MCTx |->
    CASE t = g -> {og}
      [] t = a1 -> {oa}
      [] t = b1 -> {ob}
      [] t = x -> {ox}
      [] t = y -> {oy1, oy2}
      [] t = z -> {}]

MCPrevouts == [t \in MCTx |->
    CASE t = x -> {og} [] t \in {y, z} -> {ox} [] OTHER -> {}]

Readers == {r1, r2}
Interchangeable == Permutations(Readers)
=============================================================================
