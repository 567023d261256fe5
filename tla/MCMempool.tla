------------------------------ MODULE MCMempool ------------------------------
(***************************************************************************)
(* A small instance of Mempool: `child` spends from `parent`, and          *)
(* `replacement` spends what `parent` spends, so that accepting it drops   *)
(* both.                                                                   *)
(***************************************************************************)
EXTENDS Mempool

CONSTANTS parent, child, replacement, coin, out

MCTx == {parent, child, replacement}
MCTxo == {coin, out}
MCOutputs == [t \in MCTx |-> IF t = parent THEN {out} ELSE {}]
MCPrevouts == [t \in MCTx |-> IF t = child THEN {out} ELSE {coin}]
=============================================================================
