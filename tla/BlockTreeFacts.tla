---------------------------- MODULE BlockTreeFacts ----------------------------
(***************************************************************************)
(* Facts about chains of blocks and the rows of blocks on one chain, for   *)
(* the proofs about the indexer.                                           *)
(***************************************************************************)
EXTENDS BlockTree, TLAPS, WellFoundedInduction

\* The blocks on the chain that ends in b: its ancestors and itself.
Ancestry(b) == Blocks(ChainOf[b])

\* A set of blocks on one chain, without gaps.
IsChainSet(bs) ==
    /\ \E tip \in Block : bs \subseteq Ancestry(tip)
    /\ \A b \in bs : Ancestry(b) \subseteq bs

LEMMA ChainType == \A b \in Block :
    /\ ChainOf[b] \in Seq(Block)
    /\ Len(ChainOf[b]) \in Nat \ {0}
    /\ b \in Ancestry(b)
<1> SUFFICES ASSUME NEW b \in Block
             PROVE  /\ ChainOf[b] \in Seq(Block)
                    /\ Len(ChainOf[b]) \in Nat \ {0}
                    /\ b \in Ancestry(b)
  OBVIOUS
<1>1. /\ ChainOf[b] \in Seq(Block)
      /\ Len(ChainOf[b]) > 0
      /\ ChainOf[b][Len(ChainOf[b])] = b
  BY BlockTreeAssumption
<1>2. Len(ChainOf[b]) \in Nat
  BY <1>1
<1>3. Len(ChainOf[b]) \in 1..Len(ChainOf[b])
  BY <1>1, <1>2
<1> QED
  BY <1>1, <1>2, <1>3 DEF Ancestry, Blocks

\* A block stands at the same place of every chain it is on, and its own chain
\* is the part of that chain up to it.
LEMMA ChainMember ==
    ASSUME NEW b \in Block, NEW c \in Ancestry(b)
    PROVE  /\ c \in Block
           /\ Len(ChainOf[c]) \in 1..Len(ChainOf[b])
           /\ ChainOf[b][Len(ChainOf[c])] = c
           /\ ChainOf[c] = SubSeq(ChainOf[b], 1, Len(ChainOf[c]))
<1>1. PICK i \in 1..Len(ChainOf[b]) : c = ChainOf[b][i]
  BY DEF Ancestry, Blocks
<1>2. ChainOf[b] \in Seq(Block) /\ Len(ChainOf[b]) \in Nat
  BY ChainType
<1>3. ChainOf[c] = SubSeq(ChainOf[b], 1, i)
  BY <1>1, BlockTreeAssumption
<1>4. Len(ChainOf[c]) = i
  BY <1>1, <1>2, <1>3
<1> QED
  BY <1>1, <1>2, <1>3, <1>4

LEMMA AncestryTransitive ==
    ASSUME NEW b \in Block, NEW c \in Ancestry(b)
    PROVE  Ancestry(c) \subseteq Ancestry(b)
<1>1. /\ c \in Block
      /\ Len(ChainOf[c]) \in 1..Len(ChainOf[b])
      /\ ChainOf[c] = SubSeq(ChainOf[b], 1, Len(ChainOf[c]))
  BY ChainMember
<1>2. ChainOf[b] \in Seq(Block) /\ Len(ChainOf[b]) \in Nat
  BY ChainType
<1>3. \A i \in 1..Len(ChainOf[c]) : ChainOf[c][i] = ChainOf[b][i]
  BY <1>1, <1>2
<1> QED
  BY <1>1, <1>2, <1>3 DEF Ancestry, Blocks

\* Of two blocks on one chain, the lower one is an ancestor of the other.
LEMMA AncestryComparable ==
    ASSUME NEW tip \in Block, NEW b \in Ancestry(tip), NEW c \in Ancestry(tip),
           Len(ChainOf[b]) <= Len(ChainOf[c])
    PROVE  b \in Ancestry(c)
<1>1. /\ b \in Block /\ c \in Block
      /\ Len(ChainOf[b]) \in 1..Len(ChainOf[tip])
      /\ Len(ChainOf[c]) \in 1..Len(ChainOf[tip])
      /\ ChainOf[tip][Len(ChainOf[b])] = b
      /\ ChainOf[c] = SubSeq(ChainOf[tip], 1, Len(ChainOf[c]))
  BY ChainMember
<1>2. ChainOf[tip] \in Seq(Block) /\ Len(ChainOf[tip]) \in Nat
  BY ChainType
<1>3. Len(ChainOf[b]) \in 1..Len(ChainOf[c])
  BY <1>1
<1>4. ChainOf[c][Len(ChainOf[b])] = b
  BY <1>1, <1>2, <1>3
<1> QED
  BY <1>3, <1>4 DEF Ancestry, Blocks

\* Every ancestor is at most as high.
LEMMA AncestorIsLower ==
    ASSUME NEW b \in Block, NEW c \in Ancestry(b)
    PROVE  /\ Len(ChainOf[c]) <= Len(ChainOf[b])
           /\ Len(ChainOf[c]) = Len(ChainOf[b]) => c = b
<1>1. /\ c \in Block
      /\ Len(ChainOf[c]) \in 1..Len(ChainOf[b])
      /\ ChainOf[b][Len(ChainOf[c])] = c
  BY ChainMember
<1>2. Len(ChainOf[b]) \in Nat /\ ChainOf[b][Len(ChainOf[b])] = b
  BY BlockTreeAssumption
<1> QED
  BY <1>1, <1>2

LEMMA GenesisInAncestry ==
    ASSUME NEW b \in Block, NEW c \in Block
    PROVE  ChainOf[c][1] \in Ancestry(b) /\ ChainOf[c][1] \in Block
<1>1. ChainOf[c][1] = ChainOf[b][1]
  BY BlockTreeAssumption
<1>2. ChainOf[b] \in Seq(Block) /\ 1 \in 1..Len(ChainOf[b])
  BY ChainType
<1> QED
  BY <1>1, <1>2 DEF Ancestry, Blocks

LEMMA RowsType ==
    \A b \in Block : \A r \in RowsOf(b) :
        /\ r \in [code : {"C", "H", "S"}, ref : Tx \cup Txo, by : Tx, height : Nat]
        /\ r.height = Len(ChainOf[b]) - 1
        /\ r.by \in TxsIn[b]
<1> SUFFICES ASSUME NEW b \in Block, NEW x \in TxsIn[b], NEW r \in TxRows(x, Height(b))
             PROVE  /\ r \in [code : {"C", "H", "S"}, ref : Tx \cup Txo, by : Tx,
                              height : Nat]
                    /\ r.height = Len(ChainOf[b]) - 1
                    /\ r.by \in TxsIn[b]
  BY DEF RowsOf
<1>1. x \in Tx /\ Outputs[x] \subseteq Txo /\ Prevouts[x] \subseteq Txo
  BY TxAssumption
<1>2. Height(b) \in Nat /\ Height(b) = Len(ChainOf[b]) - 1
  BY ChainType DEF Height
<1> QED
  BY <1>1, <1>2 DEF TxRows

\* Rows of different blocks on one chain never have the same key, so neither
\* a put nor a delete of one block touches a row of another.
LEMMA KeysDistinct ==
    ASSUME NEW tip \in Block, NEW b \in Ancestry(tip), NEW c \in Ancestry(tip),
           b # c, NEW r \in RowsOf(b), NEW s \in RowsOf(c)
    PROVE  ~SameKey(r, s)
<1>1. PICK x \in TxsIn[b] : r \in TxRows(x, Height(b))
  BY DEF RowsOf
<1>2. PICK y \in TxsIn[c] : s \in TxRows(y, Height(c))
  BY DEF RowsOf
<1>3. /\ x # y
      /\ Prevouts[x] \cap Prevouts[y] = {}
  BY ValidChainAssumption DEF Ancestry
<1>4. /\ r.by = x /\ s.by = y
      /\ r.code = "C" => r.ref = x
      /\ s.code = "C" => s.ref = y
      /\ r.code = "S" => r.ref \in Prevouts[x]
      /\ s.code = "S" => s.ref \in Prevouts[y]
      /\ r.code \in {"C", "H", "S"}
  BY <1>1, <1>2 DEF TxRows
<1> QED
  BY <1>3, <1>4 DEF SameKey

\* A set of positions on a chain has a last one.
LEMMA HasLargest ==
    ASSUME NEW n \in Nat, NEW S \in SUBSET (1..n), S # {}
    PROVE  \E i \in S : \A j \in S : j <= i
<1> DEFINE T == {n - i : i \in S}
<1>1. T \subseteq Nat /\ T # {}
  <2>1. PICK k : k \in S
    OBVIOUS
  <2>2. n - k \in T
    BY <2>1
  <2>3. \A i \in S : n - i \in Nat
    OBVIOUS
  <2> QED
    BY <2>2, <2>3
<1>2. IsWellFoundedOn(OpToRel(<, Nat), Nat)
  BY NatLessThanWellFounded
<1>3. PICK x \in T : \A y \in T : ~(<<y, x>> \in OpToRel(<, Nat))
  BY <1>1, <1>2, WFMin
<1>4. \A y \in T : ~(y < x)
  BY <1>1, <1>3 DEF OpToRel
<1>5. PICK i \in S : x = n - i
  BY <1>3
<1>6. \A j \in S : n - j \in T /\ j \in Int
  OBVIOUS
<1>7. ASSUME NEW j \in S PROVE j <= i
  BY <1>4, <1>5, <1>6
<1> QED
  BY <1>7
=============================================================================
