------------------------------ MODULE BlockTree ------------------------------
(***************************************************************************)
(* The data the indexer works on: the tree of blocks the daemon may serve, *)
(* the transactions in them, and the rows one block contributes to the     *)
(* history database (schema.rs, index_blocks and index_transaction).       *)
(*                                                                         *)
(* A block hash commits to the whole chain below it, so the tree is given  *)
(* by the chain that ends in each block.  Scripts are not represented: a   *)
(* history row is identified by the output it funds or spends, and the     *)
(* script is a function of that output.                                    *)
(***************************************************************************)
EXTENDS Integers, Sequences, FiniteSets

CONSTANTS
    Block,      \* the blocks known to the daemon, on any branch
    NoBlock,    \* "no such block": the absent tip row, an absent answer
    ChainOf,    \* ChainOf[b]: the blocks from the genesis block to b
    Tx,         \* transaction ids
    Txo,        \* transaction outputs (outpoints)
    TxsIn,      \* TxsIn[b]: the transactions of block b
    Outputs,    \* Outputs[tx]: the spendable outputs tx creates
    Prevouts    \* Prevouts[tx]: the outputs tx spends

Blocks(chain) == {chain[i] : i \in 1..Len(chain)}

\* A header points to its parent, so a chain is the chain of its last block,
\* and all chains start at the same genesis block.
ASSUME BlockTreeAssumption ==
    /\ IsFiniteSet(Block)
    /\ NoBlock \notin Block
    /\ ChainOf \in [Block -> Seq(Block)]
    /\ \A b \in Block :
        /\ Len(ChainOf[b]) > 0
        /\ ChainOf[b][Len(ChainOf[b])] = b
        /\ \A i \in 1..Len(ChainOf[b]) :
            ChainOf[ChainOf[b][i]] = SubSeq(ChainOf[b], 1, i)
    /\ \A b, c \in Block : ChainOf[b][1] = ChainOf[c][1]

ASSUME TxAssumption ==
    /\ TxsIn \in [Block -> SUBSET Tx]
    /\ Outputs \in [Tx -> SUBSET Txo]
    /\ Prevouts \in [Tx -> SUBSET Txo]

\* What the daemon's validation guarantees of one chain: no transaction is
\* confirmed twice, no output is created or spent twice, and an output is
\* created on the chain before it is spent.
ASSUME ValidChainAssumption ==
    \A tip \in Block : \A b, c \in Blocks(ChainOf[tip]) :
        \A x \in TxsIn[b], y \in TxsIn[c] :
            /\ b # c => x # y
            /\ x # y => /\ Outputs[x] \cap Outputs[y] = {}
                        /\ Prevouts[x] \cap Prevouts[y] = {}
            /\ Outputs[x] \cap Prevouts[x] = {}

\* Mutant: heights count from the block after the genesis block.
HeightFromFirst(b) == Len(ChainOf[b]) - 2

Height(b) == Len(ChainOf[b]) - 1

\* Everything a block puts in the transaction store that later blocks look up:
\* the O rows of its outputs (add_transaction).
OutputsIn(b) == UNION {Outputs[x] : x \in TxsIn[b]}

\* get_previous_txos
PrevoutsIn(b) == UNION {Prevouts[x] : x \in TxsIn[b]}

ASSUME FundedAssumption ==
    \A b \in Block :
        PrevoutsIn(b) \subseteq UNION {OutputsIn(c) : c \in Blocks(ChainOf[b])}

(***************************************************************************)
(* History rows.  "C" is the confirmation row of a transaction, "H" a      *)
(* history row of the script of output `ref`, "S" the edge from a spent    *)
(* output to its spender.  The height is the value of a "C" row, part of   *)
(* the value of an "S" row, and part of the key of an "H" row.             *)
(***************************************************************************)
TxRows(x, height) ==
    {[code |-> "C", ref |-> x, by |-> x, height |-> height]}
        \cup {[code |-> "H", ref |-> o, by |-> x, height |-> height] :
                o \in Outputs[x] \cup Prevouts[x]}
        \cup {[code |-> "S", ref |-> o, by |-> x, height |-> height] :
                o \in Prevouts[x]}

RowsOf(b) == UNION {TxRows(x, Height(b)) : x \in TxsIn[b]}

RowsOfAll(bs) == UNION {RowsOf(b) : b \in bs}

SameKey(r, s) ==
    /\ r.code = s.code
    /\ r.ref = s.ref
    /\ r.code = "H" => r.by = s.by /\ r.height = s.height
=============================================================================
