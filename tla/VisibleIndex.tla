----------------------------- MODULE VisibleIndex -----------------------------
(***************************************************************************)
(* What the indexer promises to the threads that answer queries: at every  *)
(* moment there is one chain, and the rows to be seen are exactly those of *)
(* its blocks.  The chain is rewound to one of its ancestors and extended  *)
(* to one of its descendants; it never jumps to another branch, and never  *)
(* changes without its rows (the comments at schema.rs:317-320 and 453).   *)
(***************************************************************************)
EXTENDS BlockTree

VARIABLES
    chain,  \* the blocks served, from the genesis block
    rows    \* the history rows served

Serve(newChain) ==
    /\ chain' = newChain
    /\ rows' = RowsOfAll(Blocks(newChain))

Init ==
    /\ chain = <<>>
    /\ rows = {}

Rewind == \E n \in 0..Len(chain) - 1 : Serve(SubSeq(chain, 1, n))

Extend == \E b \in Block :
    /\ Len(chain) < Len(ChainOf[b])
    /\ chain = SubSeq(ChainOf[b], 1, Len(chain))
    /\ Serve(ChainOf[b])

Next == Rewind \/ Extend

Spec == Init /\ [][Next]_<<chain, rows>>
=============================================================================
