-------------------------- MODULE ChainQueryProofs --------------------------
(***************************************************************************)
(* Theorems about ChainQuery: what the caches hold and what the readers    *)
(* answer, for every block tree, script, limit and set of readers.         *)
(*                                                                         *)
(* The first part is about one chain and its rows: the rows above a block  *)
(* added to the value of the chain up to that block give the value of the  *)
(* whole chain.  The second part is the inductive invariant.               *)
(***************************************************************************)
EXTENDS ChainQuery, BlockTreeFacts, FiniteSetTheorems

(***************************************************************************)
(* Rows and values of one chain.                                           *)
(***************************************************************************)
\* A row of the script stands at the height of its block.
LEMMA ScriptRowsFacts ==
    ASSUME NEW tip \in Block, NEW from \in Nat, NEW w \in ScriptRows(ChainOf[tip], from)
    PROVE  /\ w.height \in Nat /\ from <= w.height
           /\ w.height + 1 \in 1..Len(ChainOf[tip])
           /\ w.by \in TxsIn[ChainOf[tip][w.height + 1]]
           /\ w.by \in Tx
           /\ w.ref \in OfScript
           /\ w = [code |-> "H", ref |-> w.ref, by |-> w.by, height |-> w.height]
           /\ w.ref \in Outputs[w.by] \cup Prevouts[w.by]
<1>1. PICK b \in Ancestry(tip) : w \in RowsOf(b)
  BY DEF ScriptRows, RowsOfAll, Ancestry
<1>2. /\ b \in Block
      /\ Len(ChainOf[b]) \in 1..Len(ChainOf[tip])
      /\ ChainOf[tip][Len(ChainOf[b])] = b
  BY ChainMember
<1>3. PICK x \in TxsIn[b] : w \in TxRows(x, Height(b))
  BY <1>1 DEF RowsOf
<1>4. x \in Tx
  BY <1>2, <1>3, TxAssumption
<1>5. w.code = "H" /\ w.ref \in OfScript /\ w.height >= from
  BY DEF ScriptRows
<1>6. /\ w = [code |-> "H", ref |-> w.ref, by |-> x, height |-> Height(b)]
      /\ w.ref \in Outputs[x] \cup Prevouts[x]
  BY <1>3, <1>5 DEF TxRows
<1>7. w.by = x /\ w.height = Height(b)
  BY <1>6
<1>8. Len(ChainOf[b]) \in Nat /\ Height(b) = Len(ChainOf[b]) - 1 /\ Len(ChainOf[tip]) \in Nat
  BY <1>2, ChainType DEF Height
<1> QED
  BY <1>2, <1>3, <1>4, <1>5, <1>6, <1>7, <1>8

\* The part of a chain up to one of its blocks, and the rows on either side.
LEMMA PrefixOfChain ==
    ASSUME NEW tip \in Block, NEW b \in Ancestry(tip)
    PROVE  /\ b \in Block
           /\ Len(ChainOf[b]) \in 1..Len(ChainOf[tip])
           /\ \A i \in 1..Len(ChainOf[b]) : ChainOf[tip][i] = ChainOf[b][i]
<1>1. /\ b \in Block
      /\ Len(ChainOf[b]) \in 1..Len(ChainOf[tip])
      /\ ChainOf[b] = SubSeq(ChainOf[tip], 1, Len(ChainOf[b]))
  BY ChainMember
<1>2. ChainOf[tip] \in Seq(Block) /\ Len(ChainOf[tip]) \in Nat
  BY ChainType
<1> QED
  BY <1>1, <1>2

LEMMA PrefixRows ==
    ASSUME NEW tip \in Block, NEW b \in Ancestry(tip)
    PROVE  LET all == ScriptRows(ChainOf[tip], 0)
               n == Len(ChainOf[b])
           IN  /\ ScriptRows(ChainOf[b], 0) = {w \in all : w.height < n}
               /\ ScriptRows(ChainOf[tip], n) = {w \in all : w.height >= n}
<1> DEFINE n == Len(ChainOf[b])
<1>1. /\ b \in Block
      /\ n \in 1..Len(ChainOf[tip])
      /\ \A i \in 1..n : ChainOf[tip][i] = ChainOf[b][i]
      /\ Len(ChainOf[tip]) \in Nat
  BY PrefixOfChain, ChainType
<1>2. ASSUME NEW w \in ScriptRows(ChainOf[b], 0)
      PROVE  w \in ScriptRows(ChainOf[tip], 0) /\ w.height < n
  <2>1. w.height \in Nat /\ w.height + 1 \in 1..n
    BY <1>1, ScriptRowsFacts
  <2>2. Ancestry(b) \subseteq Ancestry(tip)
    BY AncestryTransitive
  <2> QED
    BY <2>1, <2>2 DEF ScriptRows, RowsOfAll, Ancestry
<1>3. ASSUME NEW w \in ScriptRows(ChainOf[tip], 0), w.height < n
      PROVE  w \in ScriptRows(ChainOf[b], 0)
  <2>1. PICK c \in Ancestry(tip) : w \in RowsOf(c)
    BY DEF ScriptRows, RowsOfAll, Ancestry
  <2>2. /\ c \in Block
        /\ w.height = Len(ChainOf[c]) - 1
        /\ Len(ChainOf[c]) \in Nat
    BY <2>1, ChainMember, RowsType, ChainType
  <2>3. Len(ChainOf[c]) <= Len(ChainOf[b])
    BY <1>1, <1>3, <2>2
  <2>4. c \in Ancestry(b)
    BY <2>3, AncestryComparable
  <2> QED
    BY <2>1, <2>4 DEF ScriptRows, RowsOfAll, Ancestry
<1>4. ScriptRows(ChainOf[tip], n) = {w \in ScriptRows(ChainOf[tip], 0) : w.height >= n}
  <2>. n \in Nat
    BY <1>1
  <2>1. ASSUME NEW w \in ScriptRows(ChainOf[tip], n)
        PROVE  w.height \in Nat
    BY ScriptRowsFacts
  <2>2. ASSUME NEW w \in ScriptRows(ChainOf[tip], n)
        PROVE  w \in ScriptRows(ChainOf[tip], 0) /\ w.height >= n
    BY <2>1 DEF ScriptRows
  <2>3. ASSUME NEW w \in ScriptRows(ChainOf[tip], 0), w.height >= n
        PROVE  w \in ScriptRows(ChainOf[tip], n)
    BY <2>3 DEF ScriptRows
  <2> QED
    BY <2>2, <2>3
<1> QED
  BY <1>2, <1>3, <1>4

\* The block at a height of a chain is on it, and no other height has it.
LEMMA BlockAtHeight ==
    ASSUME NEW tip \in Block, NEW i \in 1..Len(ChainOf[tip])
    PROVE  /\ ChainOf[tip][i] \in Ancestry(tip)
           /\ ChainOf[tip][i] \in Block
           /\ Len(ChainOf[ChainOf[tip][i]]) = i
<1>1. ChainOf[tip] \in Seq(Block) /\ Len(ChainOf[tip]) \in Nat
  BY ChainType
<1>2. ChainOf[ChainOf[tip][i]] = SubSeq(ChainOf[tip], 1, i)
  BY BlockTreeAssumption
<1> QED
  BY <1>1, <1>2 DEF Ancestry, Blocks

\* On one chain an output is funded once.
LEMMA FundedOnce ==
    ASSUME NEW tip \in Block,
           NEW w \in Funding(ScriptRows(ChainOf[tip], 0)),
           NEW v \in Funding(ScriptRows(ChainOf[tip], 0)),
           w.ref = v.ref
    PROVE  w = v
<1>1. /\ w \in ScriptRows(ChainOf[tip], 0) /\ w.ref \in Outputs[w.by]
      /\ v \in ScriptRows(ChainOf[tip], 0) /\ v.ref \in Outputs[v.by]
  BY DEF Funding
<1> DEFINE b == ChainOf[tip][w.height + 1]
           c == ChainOf[tip][v.height + 1]
<1>2. /\ w.height \in Nat /\ w.height + 1 \in 1..Len(ChainOf[tip])
      /\ w.by \in TxsIn[b]
      /\ w = [code |-> "H", ref |-> w.ref, by |-> w.by, height |-> w.height]
  BY <1>1, ScriptRowsFacts
<1>3. /\ v.height \in Nat /\ v.height + 1 \in 1..Len(ChainOf[tip])
      /\ v.by \in TxsIn[c]
      /\ v = [code |-> "H", ref |-> v.ref, by |-> v.by, height |-> v.height]
  BY <1>1, ScriptRowsFacts
<1>4. /\ b \in Ancestry(tip) /\ Len(ChainOf[b]) = w.height + 1
      /\ c \in Ancestry(tip) /\ Len(ChainOf[c]) = v.height + 1
  BY <1>2, <1>3, BlockAtHeight
<1>5. /\ b # c => w.by # v.by
      /\ w.by # v.by => Outputs[w.by] \cap Outputs[v.by] = {}
  BY <1>2, <1>3, <1>4, ValidChainAssumption DEF Ancestry
<1>6. w.by = v.by /\ b = c
  BY <1>1, <1>5
<1>7. w.height = v.height
  BY <1>2, <1>3, <1>4, <1>6
<1> QED
  BY <1>2, <1>3, <1>6, <1>7

\* On one chain an output is not spent below the block that funds it.
LEMMA SpentAfterFunded ==
    ASSUME NEW tip \in Block,
           NEW w \in Funding(ScriptRows(ChainOf[tip], 0)),
           NEW v \in Spending(ScriptRows(ChainOf[tip], 0)),
           w.ref = v.ref
    PROVE  w.height <= v.height
<1>1. /\ w \in ScriptRows(ChainOf[tip], 0) /\ w.ref \in Outputs[w.by]
      /\ v \in ScriptRows(ChainOf[tip], 0) /\ v.ref \in Prevouts[v.by]
  BY DEF Funding, Spending
<1> DEFINE b == ChainOf[tip][w.height + 1]
           c == ChainOf[tip][v.height + 1]
<1>2. /\ w.height \in Nat /\ w.height + 1 \in 1..Len(ChainOf[tip])
      /\ w.by \in TxsIn[b]
      /\ v.height \in Nat /\ v.height + 1 \in 1..Len(ChainOf[tip])
      /\ v.by \in TxsIn[c]
  BY <1>1, ScriptRowsFacts
<1>3. /\ b \in Ancestry(tip) /\ Len(ChainOf[b]) = w.height + 1
      /\ c \in Ancestry(tip) /\ Len(ChainOf[c]) = v.height + 1 /\ c \in Block
  BY <1>2, BlockAtHeight
<1>4. v.ref \in PrevoutsIn(c)
  BY <1>1, <1>2 DEF PrevoutsIn
<1>5. PICK d \in Ancestry(c) : v.ref \in OutputsIn(d)
  BY <1>3, <1>4, FundedAssumption DEF Ancestry
<1>6. PICK y \in TxsIn[d] : v.ref \in Outputs[y]
  BY <1>5 DEF OutputsIn
<1>7. d \in Ancestry(tip)
  BY <1>3, AncestryTransitive
<1>8. /\ b # d => w.by # y
      /\ w.by # y => Outputs[w.by] \cap Outputs[y] = {}
  BY <1>2, <1>3, <1>6, <1>7, ValidChainAssumption DEF Ancestry
<1>9. b = d
  BY <1>1, <1>6, <1>8
<1>10. Len(ChainOf[d]) <= Len(ChainOf[c])
  BY <1>3, AncestorIsLower
<1> QED
  BY <1>2, <1>3, <1>9, <1>10

(***************************************************************************)
(* Utxo sets.                                                              *)
(***************************************************************************)
UtxosOf(c) == AddToUtxos(<<>>, ScriptRows(c, 0), c)

\* The block that funds an output, from the rows of a chain.
FundingBlock(o, ws, c) ==
    LET w == CHOOSE w \in Funding(ws) : w.ref = o IN c[w.height + 1]

LEMMA UtxosOfChain ==
    ASSUME NEW tip \in Block
    PROVE  LET all == ScriptRows(ChainOf[tip], 0)
               utxos == UtxosOf(ChainOf[tip])
           IN  /\ utxos = [o \in Refs(Funding(all)) \ Refs(Spending(all)) |->
                             FundingBlock(o, all, ChainOf[tip])]
               /\ DOMAIN utxos = Refs(Funding(all)) \ Refs(Spending(all))
               /\ \A o \in DOMAIN utxos : utxos[o] \in Ancestry(tip)
               /\ DOMAIN utxos \subseteq OfScript
               /\ utxos \in [DOMAIN utxos -> Block]
<1> DEFINE all == ScriptRows(ChainOf[tip], 0)
           utxos == UtxosOf(ChainOf[tip])
           os == Refs(Funding(all)) \ Refs(Spending(all))
<1>1. DOMAIN <<>> = {}
  OBVIOUS
<1>2. utxos = [o \in os |-> FundingBlock(o, all, ChainOf[tip])]
  BY <1>1 DEF UtxosOf, AddToUtxos, FundingBlock
<1>3. ASSUME NEW o \in os
      PROVE  FundingBlock(o, all, ChainOf[tip]) \in Ancestry(tip) /\ o \in OfScript
  <2>1. PICK w \in Funding(all) : w.ref = o
    BY DEF Refs
  <2> DEFINE v == CHOOSE v \in Funding(all) : v.ref = o
  <2>2. v \in Funding(all) /\ v.ref = o
    BY <2>1
  <2>3. v \in all
    BY <2>2 DEF Funding
  <2>4. v.height + 1 \in 1..Len(ChainOf[tip]) /\ v.ref \in OfScript
    BY <2>3, ScriptRowsFacts
  <2>5. ChainOf[tip][v.height + 1] \in Ancestry(tip)
    BY <2>4, BlockAtHeight
  <2> QED
    BY <2>2, <2>4, <2>5 DEF FundingBlock
<1>4. \A c \in Ancestry(tip) : c \in Block
  BY ChainMember
<1> HIDE DEF utxos, os
<1> QED
  BY <1>2, <1>3, <1>4 DEF utxos, os

\* The block an output is funded in may be found from any of the rows that
\* fund it, on any chain with the same block at that height.
LEMMA FundingBlockIs ==
    ASSUME NEW tip \in Block, NEW ws \in SUBSET ScriptRows(ChainOf[tip], 0),
           NEW w \in Funding(ws), NEW c
    PROVE  FundingBlock(w.ref, ws, c) = c[w.height + 1]
<1> DEFINE v == CHOOSE v \in Funding(ws) : v.ref = w.ref
<1>1. v \in Funding(ws) /\ v.ref = w.ref
  OBVIOUS
<1>2. Funding(ws) \subseteq Funding(ScriptRows(ChainOf[tip], 0))
  BY DEF Funding
<1>3. v = w
  BY <1>1, <1>2, FundedOnce
<1> QED
  BY <1>3 DEF FundingBlock

\* The utxo set of a chain is that of the chain up to one of its blocks with
\* the rows above that block.
LEMMA UtxosExtend ==
    ASSUME NEW tip \in Block, NEW b \in Ancestry(tip)
    PROVE  AddToUtxos(UtxosOf(ChainOf[b]),
                      ScriptRows(ChainOf[tip], Len(ChainOf[b])),
                      ChainOf[tip])
             = UtxosOf(ChainOf[tip])
<1> DEFINE n == Len(ChainOf[b])
           all == ScriptRows(ChainOf[tip], 0)
           old == ScriptRows(ChainOf[b], 0)
           new == ScriptRows(ChainOf[tip], n)
           start == UtxosOf(ChainOf[b])
           oldOs == Refs(Funding(old)) \ Refs(Spending(old))
           newOs == (oldOs \cup Refs(Funding(new))) \ Refs(Spending(new))
           allOs == Refs(Funding(all)) \ Refs(Spending(all))
<1>1. /\ b \in Block /\ n \in Nat
      /\ \A i \in 1..n : ChainOf[tip][i] = ChainOf[b][i]
  BY PrefixOfChain, ChainType
<1>2. /\ old = {w \in all : w.height < n}
      /\ new = {w \in all : w.height >= n}
  BY PrefixRows
<1>3. \A w \in all : w.height \in Nat /\ w.height + 1 \in 1..Len(ChainOf[tip])
  BY ScriptRowsFacts
<1>4. /\ start = [o \in oldOs |-> FundingBlock(o, old, ChainOf[b])]
      /\ DOMAIN start = oldOs
  BY <1>1, UtxosOfChain
<1>5. UtxosOf(ChainOf[tip]) = [o \in allOs |-> FundingBlock(o, all, ChainOf[tip])]
  BY UtxosOfChain
<1>6. all = old \cup new
  BY <1>1, <1>2, <1>3
<1>7. Refs(Funding(new)) \cap Refs(Spending(old)) = {}
  <2> SUFFICES ASSUME NEW w \in Funding(new), NEW v \in Spending(old), w.ref = v.ref
               PROVE  FALSE
    BY DEF Refs
  <2>1. w \in Funding(all) /\ v \in Spending(all) /\ w \in new /\ v \in old
    BY <1>6 DEF Funding, Spending
  <2>2. w.height <= v.height
    BY <2>1, SpentAfterFunded
  <2> QED
    BY <1>1, <1>2, <1>3, <2>1, <2>2
<1>8. /\ Refs(Funding(all)) = Refs(Funding(old)) \cup Refs(Funding(new))
      /\ Refs(Spending(all)) = Refs(Spending(old)) \cup Refs(Spending(new))
  BY <1>6 DEF Refs, Funding, Spending
<1>9. newOs = allOs
  BY <1>7, <1>8
<1>10. ASSUME NEW o \in allOs, o \in Refs(Funding(new))
       PROVE  FundingBlock(o, new, ChainOf[tip]) = FundingBlock(o, all, ChainOf[tip])
  <2>1. PICK w \in Funding(new) : w.ref = o
    BY <1>10 DEF Refs
  <2>2. w \in Funding(all) /\ new \in SUBSET all
    BY <1>6 DEF Funding
  <2>3. FundingBlock(w.ref, new, ChainOf[tip]) = ChainOf[tip][w.height + 1]
    BY <2>2, FundingBlockIs
  <2>4. FundingBlock(w.ref, all, ChainOf[tip]) = ChainOf[tip][w.height + 1]
    BY <2>2, FundingBlockIs
  <2> QED
    BY <2>1, <2>3, <2>4
<1>11. ASSUME NEW o \in allOs, o \notin Refs(Funding(new))
       PROVE  start[o] = FundingBlock(o, all, ChainOf[tip])
  <2>1. PICK w \in Funding(old) : w.ref = o
    BY <1>8, <1>11 DEF Refs
  <2>2. w \in Funding(all) /\ w \in old
    BY <1>6, <2>1 DEF Funding
  <2>3. FundingBlock(o, all, ChainOf[tip]) = ChainOf[tip][w.height + 1]
    BY <2>1, <2>2, FundingBlockIs
  <2>4. FundingBlock(o, old, ChainOf[b]) = ChainOf[b][w.height + 1]
    BY <1>1, <2>1, FundingBlockIs
  <2>5. w.height + 1 \in 1..n
    BY <1>1, <1>2, <1>3, <2>2
  <2>6. o \in oldOs
    BY <1>8, <1>9, <1>11
  <2> QED
    BY <1>1, <1>4, <2>3, <2>4, <2>5, <2>6
<1> HIDE DEF n, all, old, new, start, oldOs, newOs, allOs
<1>12. AddToUtxos(start, new, ChainOf[tip]) =
         [o \in newOs |-> IF o \in Refs(Funding(new))
                            THEN FundingBlock(o, new, ChainOf[tip]) ELSE start[o]]
  BY <1>4 DEF AddToUtxos, FundingBlock, newOs
<1> QED
  BY <1>5, <1>9, <1>10, <1>11, <1>12 DEF n, new, start

(***************************************************************************)
(* Statistics.                                                             *)
(***************************************************************************)
Zeros == [f \in StatField |-> 0]
StatsOf(c) == AddToStats(Zeros, ScriptRows(c, 0))

LEMMA RowsFinite ==
    ASSUME NEW tip \in Block, NEW ws \in SUBSET ScriptRows(ChainOf[tip], 0)
    PROVE  /\ IsFiniteSet(ws)
           /\ IsFiniteSet(Funding(ws))
           /\ IsFiniteSet(Spending(ws))
           /\ IsFiniteSet({<<w.by, w.height>> : w \in ws})
<1>1. IsFiniteSet(ws)
  <2>1. ws \in SUBSET RowsOfAll(Blocks(ChainOf[tip]))
    BY DEF ScriptRows
  <2> QED
    BY <2>1, FS_Subset, FiniteAssumption
<1>2. Funding(ws) \in SUBSET ws /\ Spending(ws) \in SUBSET ws
  BY DEF Funding, Spending
<1> DEFINE f == [w \in ws |-> <<w.by, w.height>>]
           T == {<<w.by, w.height>> : w \in ws}
<1>3. f \in Surjection(ws, T)
  BY DEF Surjection
<1>4. IsFiniteSet(T)
  BY <1>1, <1>3, FS_Surjection
<1> QED
  BY <1>1, <1>2, <1>4, FS_Subset

LEMMA CountType ==
    ASSUME NEW tip \in Block, NEW ws \in SUBSET ScriptRows(ChainOf[tip], 0),
           NEW f \in StatField
    PROVE  Count(f, ws) \in Nat
BY RowsFinite, FS_CardinalityType DEF Count, StatField

LEMMA DisjointCardinality ==
    ASSUME NEW S, NEW T, IsFiniteSet(S), IsFiniteSet(T), S \cap T = {}
    PROVE  Cardinality(S \cup T) = Cardinality(S) + Cardinality(T)
<1>1. Cardinality(S \cup T) = Cardinality(S) + Cardinality(T) - Cardinality(S \cap T)
  BY FS_Union
<1>2. Cardinality(S \cap T) = 0
  BY FS_EmptySet
<1>3. Cardinality(S) \in Nat /\ Cardinality(T) \in Nat
  BY FS_CardinalityType
<1> QED
  BY <1>1, <1>2, <1>3

\* Rows at different heights count separately.
LEMMA CountAdds ==
    ASSUME NEW tip \in Block, NEW n \in Nat, NEW f \in StatField,
           NEW old \in SUBSET ScriptRows(ChainOf[tip], 0),
           NEW new \in SUBSET ScriptRows(ChainOf[tip], 0),
           \A w \in old : w.height < n,
           \A w \in new : w.height >= n
    PROVE  Count(f, old \cup new) = Count(f, old) + Count(f, new)
<1> DEFINE Keys(ws) == {<<w.by, w.height>> : w \in ws}
<1>1. \A w \in old \cup new : w.height \in Nat
  BY ScriptRowsFacts
<1>2. old \cap new = {} /\ Keys(old) \cap Keys(new) = {}
  BY <1>1
<1>3. /\ Keys(old \cup new) = Keys(old) \cup Keys(new)
      /\ Funding(old \cup new) = Funding(old) \cup Funding(new)
      /\ Spending(old \cup new) = Spending(old) \cup Spending(new)
      /\ Funding(old) \cap Funding(new) = {}
      /\ Spending(old) \cap Spending(new) = {}
  BY <1>2 DEF Funding, Spending
<1>4. /\ IsFiniteSet(Keys(old)) /\ IsFiniteSet(Keys(new))
      /\ IsFiniteSet(Funding(old)) /\ IsFiniteSet(Funding(new))
      /\ IsFiniteSet(Spending(old)) /\ IsFiniteSet(Spending(new))
  BY RowsFinite
<1> HIDE DEF Keys
<1>5. /\ Cardinality(Keys(old \cup new)) = Cardinality(Keys(old)) + Cardinality(Keys(new))
      /\ Cardinality(Funding(old \cup new)) =
           Cardinality(Funding(old)) + Cardinality(Funding(new))
      /\ Cardinality(Spending(old \cup new)) =
           Cardinality(Spending(old)) + Cardinality(Spending(new))
  BY <1>2, <1>3, <1>4, DisjointCardinality
<1> QED
  BY <1>5 DEF Count, StatField, Keys

LEMMA StatsOfChain ==
    ASSUME NEW tip \in Block
    PROVE  StatsOf(ChainOf[tip]) \in [StatField -> Nat]
BY CountType DEF StatsOf, AddToStats, Zeros

\* The statistics of a chain are those of the chain up to one of its blocks
\* with the rows above that block.
LEMMA StatsExtend ==
    ASSUME NEW tip \in Block, NEW b \in Ancestry(tip)
    PROVE  AddToStats(StatsOf(ChainOf[b]), ScriptRows(ChainOf[tip], Len(ChainOf[b])))
             = StatsOf(ChainOf[tip])
<1> DEFINE n == Len(ChainOf[b])
           all == ScriptRows(ChainOf[tip], 0)
           old == ScriptRows(ChainOf[b], 0)
           new == ScriptRows(ChainOf[tip], n)
<1>1. b \in Block /\ n \in Nat
  BY PrefixOfChain, ChainType
<1>2. /\ old = {w \in all : w.height < n}
      /\ new = {w \in all : w.height >= n}
  BY PrefixRows
<1>3. \A w \in all : w.height \in Nat
  BY ScriptRowsFacts
<1>4. all = old \cup new
  BY <1>1, <1>2, <1>3
<1>5. /\ old \in SUBSET all /\ new \in SUBSET all
      /\ \A w \in old : w.height < n
      /\ \A w \in new : w.height >= n
  BY <1>2
<1> HIDE DEF n, all, old, new
<1>6. \A f \in StatField :
        /\ Count(f, all) = Count(f, old) + Count(f, new)
        /\ Count(f, old) \in Nat /\ Count(f, new) \in Nat
  BY <1>1, <1>4, <1>5, CountAdds, CountType DEF all
<1>7. \A f \in StatField : (0 + Count(f, old)) + Count(f, new) = 0 + Count(f, all)
  BY <1>6
<1>8. AddToStats(StatsOf(ChainOf[b]), new)
        = [f \in StatField |-> (0 + Count(f, old)) + Count(f, new)]
  BY DEF AddToStats, StatsOf, Zeros, old
<1>9. StatsOf(ChainOf[tip]) = [f \in StatField |-> 0 + Count(f, all)]
  BY DEF AddToStats, StatsOf, Zeros, all
<1> QED
  BY <1>7, <1>8, <1>9 DEF n, new

(***************************************************************************)
(* Values, whatever the question is.                                       *)
(***************************************************************************)
LEMMA ValueIs ==
    ASSUME NEW tip \in Block
    PROVE  ValueOf(ChainOf[tip]) =
             IF question = "utxo" THEN UtxosOf(ChainOf[tip]) ELSE StatsOf(ChainOf[tip])
BY DEF ValueOf, Add, Nothing, UtxosOf, StatsOf, Zeros

LEMMA ValueType ==
    ASSUME NEW tip \in Block, question \in Questions
    PROVE  question # "lookup" => IsValue(ValueOf(ChainOf[tip]), Block)
BY ValueIs, UtxosOfChain, StatsOfChain DEF IsValue, Questions

LEMMA ValueExtend ==
    ASSUME NEW tip \in Block, NEW b \in Ancestry(tip)
    PROVE  Add(ValueOf(ChainOf[b]), ScriptRows(ChainOf[tip], Len(ChainOf[b])),
               ChainOf[tip])
             = ValueOf(ChainOf[tip])
BY PrefixOfChain, ValueIs, UtxosExtend, StatsExtend DEF Add

LEMMA AddNothing ==
    ASSUME NEW tip \in Block, NEW c
    PROVE  Add(ValueOf(ChainOf[tip]), {}, c) = ValueOf(ChainOf[tip])
<1>1. Funding({}) = {} /\ Spending({}) = {} /\ Refs({}) = {}
  BY DEF Funding, Spending, Refs
<1>2. \A f \in StatField : Count(f, {}) = 0
  BY <1>1, FS_EmptySet DEF Count, StatField
<1>3. UtxosOf(ChainOf[tip]) = [o \in DOMAIN UtxosOf(ChainOf[tip]) |-> UtxosOf(ChainOf[tip])[o]]
  BY UtxosOfChain
<1>4. AddToUtxos(UtxosOf(ChainOf[tip]), {}, c) = UtxosOf(ChainOf[tip])
  BY <1>1, <1>3 DEF AddToUtxos
<1>5. AddToStats(StatsOf(ChainOf[tip]), {}) = StatsOf(ChainOf[tip])
  BY <1>2, StatsOfChain DEF AddToStats
<1> QED
  BY <1>4, <1>5, ValueIs DEF Add

\* The last block with a row for the script: the value does not change above it.
LEMMA LastBlockFacts ==
    ASSUME NEW tip \in Block, NEW from \in Nat, ScriptRows(ChainOf[tip], from) # {}
    PROVE  LET b == LastBlock(ScriptRows(ChainOf[tip], from), ChainOf[tip])
           IN  /\ b \in Block
               /\ ValueOf(ChainOf[b]) = ValueOf(ChainOf[tip])
<1> DEFINE ws == ScriptRows(ChainOf[tip], from)
           is == {w.height + 1 : w \in ws}
           last_ == CHOOSE w \in ws : \A v \in ws : v.height <= w.height
           b == ChainOf[tip][last_.height + 1]
<1>1. \A w \in ws : /\ w.height \in Nat /\ from <= w.height
                    /\ w.height + 1 \in 1..Len(ChainOf[tip])
  BY ScriptRowsFacts
<1>2. Len(ChainOf[tip]) \in Nat
  BY ChainType
<1>3. is \in SUBSET (1..Len(ChainOf[tip])) /\ is # {}
  BY <1>1
<1>4. PICK i \in is : \A j \in is : j <= i
  BY <1>2, <1>3, HasLargest
<1>5. PICK w \in ws : i = w.height + 1
  BY <1>4
<1>6. ASSUME NEW v \in ws PROVE v.height <= w.height
  <2>1. v.height + 1 <= w.height + 1
    BY <1>4, <1>5
  <2>2. v.height \in Nat /\ w.height \in Nat
    BY <1>1
  <2> QED
    BY <2>1, <2>2
<1>7. last_ \in ws /\ \A v \in ws : v.height <= last_.height
  BY <1>6
<1>8. last_.height \in Nat /\ last_.height + 1 \in 1..Len(ChainOf[tip])
  BY <1>1, <1>7
<1>9. b \in Block /\ b \in Ancestry(tip) /\ Len(ChainOf[b]) = last_.height + 1
  BY <1>8, BlockAtHeight
<1>10. ScriptRows(ChainOf[tip], Len(ChainOf[b])) = {}
  <2> SUFFICES ASSUME NEW v \in ScriptRows(ChainOf[tip], last_.height + 1)
               PROVE  FALSE
    BY <1>9
  <2> DEFINE above == last_.height + 1
  <2>. above \in Nat
    BY <1>8
  <2> HIDE DEF above
  <2>1. v.height \in Nat /\ above <= v.height
    BY ScriptRowsFacts DEF above
  <2>2. from <= v.height
    BY <1>1, <1>7, <2>1 DEF above
  <2>3. v \in ws
    BY <2>2, <2>1 DEF ScriptRows
  <2> QED
    BY <1>7, <1>8, <2>1, <2>3 DEF above
<1>11. ValueOf(ChainOf[b]) = ValueOf(ChainOf[tip])
  BY <1>9, <1>10, ValueExtend, AddNothing
<1> QED
  BY <1>9, <1>11 DEF LastBlock

(***************************************************************************)
(* The index.                                                              *)
(***************************************************************************)
IndexInv == \E tip \in Block : chain = ChainOf[tip] /\ rows = RowsOfAll(Blocks(chain))

LEMMA ServedRows == \A c : Index!RowsOfAll(Index!Blocks(c)) = RowsOfAll(Blocks(c))
BY DEF Index!RowsOfAll, Index!Blocks, Index!RowsOf, Index!TxRows, Index!Height,
       RowsOfAll, Blocks, RowsOf, TxRows, Height

\* What the steps of the index do to the chain.
LEMMA IndexSteps ==
    ASSUME IndexInv
    PROVE  /\ IndexRewinds =>
                /\ IndexInv'
                /\ Len(chain') \in 1..Len(chain)
                /\ \A i \in 1..Len(chain') : chain'[i] = chain[i]
           /\ IndexExtends =>
                /\ IndexInv'
                /\ Len(chain) \in 1..Len(chain')
                /\ \A i \in 1..Len(chain) : chain'[i] = chain[i]
           /\ Restart => IndexInv'
<1>1. PICK tip \in Block : chain = ChainOf[tip]
  BY DEF IndexInv
<1>2. chain \in Seq(Block) /\ Len(chain) \in Nat \ {0}
  BY <1>1, ChainType
<1>3. ASSUME IndexRewinds
      PROVE  /\ IndexInv'
             /\ Len(chain') \in 1..Len(chain)
             /\ \A i \in 1..Len(chain') : chain'[i] = chain[i]
  <2>1. PICK n \in 0..Len(chain) - 1 : Index!Serve(SubSeq(chain, 1, n))
    BY <1>3 DEF IndexRewinds, Index!Rewind
  <2>2. /\ chain' = SubSeq(chain, 1, n)
        /\ rows' = RowsOfAll(Blocks(chain'))
    BY <2>1, ServedRows DEF Index!Serve
  <2>3. Len(chain') = n /\ n \in 1..Len(chain)
    <3>1. Len(SubSeq(chain, 1, n)) = n
      BY <1>2
    <3> QED
      BY <1>2, <1>3, <2>2, <3>1 DEF IndexRewinds
  <2>4. chain[n] \in Block /\ ChainOf[chain[n]] = chain'
    <3>1. n \in 1..Len(ChainOf[tip])
      BY <1>1, <2>3
    <3>2. ChainOf[ChainOf[tip][n]] = SubSeq(ChainOf[tip], 1, n)
      BY <3>1, BlockTreeAssumption
    <3>3. ChainOf[tip][n] \in Block
      BY <3>1, BlockAtHeight
    <3> QED
      BY <1>1, <2>2, <3>2, <3>3
  <2> QED
    BY <1>2, <2>2, <2>3, <2>4 DEF IndexInv
<1>4. ASSUME IndexExtends
      PROVE  /\ IndexInv'
             /\ Len(chain) \in 1..Len(chain')
             /\ \A i \in 1..Len(chain) : chain'[i] = chain[i]
  <2>1. PICK b \in Block : /\ Len(chain) < Len(ChainOf[b])
                           /\ chain = SubSeq(ChainOf[b], 1, Len(chain))
                           /\ Index!Serve(ChainOf[b])
    BY <1>4 DEF IndexExtends, Index!Extend
  <2>2. /\ chain' = ChainOf[b]
        /\ rows' = RowsOfAll(Blocks(chain'))
    BY <2>1, ServedRows DEF Index!Serve
  <2>3. chain' \in Seq(Block) /\ Len(chain') \in Nat
    BY <2>2, ChainType
  <2>4. Len(chain) \in 1..Len(chain')
    BY <1>2, <2>1, <2>2, <2>3
  <2>5. \A i \in 1..Len(chain) : SubSeq(chain', 1, Len(chain))[i] = chain'[i]
    BY <2>3, <2>4
  <2> QED
    BY <2>1, <2>2, <2>4, <2>5 DEF IndexInv
<1>5. Restart => IndexInv'
  BY ServedRows DEF Restart, Index!Serve, IndexInv
<1> QED
  BY <1>3, <1>4, <1>5

(***************************************************************************)
(* Types.                                                                  *)
(***************************************************************************)
Shape ==
    /\ entry = [r \in Reader |-> entry[r]]
    /\ row = [r \in Reader |-> row[r]]
    /\ acc = [r \in Reader |-> acc[r]]
    /\ \A r \in Reader :
        /\ pc[r] \in {"find", "delta"} => question # "lookup"
        /\ pc[r] = "name" => question = "lookup"
        /\ pc[r] \in {"idle", "name"} => acc[r] = <<>>

TypeInv == TypeOK /\ IndexInv /\ Shape

LEMMA ChainIsSeq == IndexInv => chain \in Seq(Block) /\ Len(chain) \in Nat \ {0}
BY ChainType DEF IndexInv

LEMMA HeaderType ==
    ASSUME IndexInv, NEW h \in Nat
    PROVE  /\ HeaderByHeight(h) \in Block \cup {NoBlock}
           /\ h < Len(chain) =>
                HeaderByHeight(h) = chain[h + 1] /\ HeaderByHeight(h) \in Block
           /\ HeaderByHeight(h) = NoBlock => ~(h < Len(chain))
<1>1. chain \in Seq(Block) /\ Len(chain) \in Nat
  BY ChainIsSeq
<1>2. h < Len(chain) => h + 1 \in 1..Len(chain)
  BY <1>1
<1>3. h < Len(chain) => chain[h + 1] \in Block
  BY <1>1, <1>2
<1>4. NoBlock \notin Block
  BY BlockTreeAssumption
<1> QED
  BY <1>3, <1>4 DEF HeaderByHeight

\* A value with the rows of the chain added to it has the type of a value.
LEMMA AddType ==
    ASSUME IndexInv, question \in Questions, question # "lookup",
           NEW value, IsValue(value, Block), NEW from \in Nat
    PROVE  IsValue(Add(value, ScriptRows(chain, from), chain), Block)
<1> DEFINE ws == ScriptRows(chain, from)
           new == Add(value, ws, chain)
<1>1. PICK tip \in Block : chain = ChainOf[tip]
  BY DEF IndexInv
<1>2. \A w \in ws : /\ w.height + 1 \in 1..Len(chain)
                    /\ w.ref \in OfScript
  BY <1>1, ScriptRowsFacts
<1>3. CASE question = "utxo"
  <2> DEFINE os == (DOMAIN value \cup Refs(Funding(ws))) \ Refs(Spending(ws))
  <2>1. new = [o \in os |-> IF o \in Refs(Funding(ws))
                              THEN FundingBlock(o, ws, chain) ELSE value[o]]
    BY <1>3 DEF Add, AddToUtxos, FundingBlock
  <2>2. value \in [DOMAIN value -> Block] /\ DOMAIN value \subseteq OfScript
    BY <1>3 DEF IsValue
  <2>3. ASSUME NEW o \in Refs(Funding(ws))
        PROVE  FundingBlock(o, ws, chain) \in Block /\ o \in OfScript
    <3>1. PICK w \in Funding(ws) : w.ref = o
      BY DEF Refs
    <3> DEFINE v == CHOOSE v \in Funding(ws) : v.ref = o
    <3>2. v \in Funding(ws) /\ v.ref = o
      BY <3>1
    <3>3. v \in ws
      BY <3>2 DEF Funding
    <3>4. v.height + 1 \in 1..Len(chain) /\ v.ref \in OfScript
      BY <1>2, <3>3
    <3>5. chain[v.height + 1] \in Block
      BY <1>1, <3>4, BlockAtHeight
    <3> QED
      BY <3>2, <3>4, <3>5 DEF FundingBlock
  <2>4. os \subseteq OfScript
    BY <2>2, <2>3
  <2>5. \A o \in os : (IF o \in Refs(Funding(ws))
                         THEN FundingBlock(o, ws, chain) ELSE value[o]) \in Block
    BY <2>2, <2>3
  <2> HIDE DEF new, os
  <2>6. DOMAIN new = os /\ new \in [os -> Block]
    BY <2>1, <2>5
  <2>7. IsValue(new, Block)
    BY <1>3, <2>4, <2>6 DEF IsValue
  <2> QED
    BY <2>7 DEF new
<1>4. CASE question = "stats"
  <2>1. value \in [StatField -> Nat]
    BY <1>4 DEF IsValue
  <2>2. ws \in SUBSET ScriptRows(chain, 0)
    <3>1. \A w \in ws : w.height \in Nat
      BY <1>1, ScriptRowsFacts
    <3> QED
      BY <3>1 DEF ScriptRows
  <2>3. \A f \in StatField : Count(f, ws) \in Nat
    BY <1>1, <2>2, CountType
  <2>4. new = [f \in StatField |-> value[f] + Count(f, ws)]
    BY <1>4 DEF Add, AddToStats
  <2>5. new \in [StatField -> Nat]
    BY <2>1, <2>3, <2>4
  <2> QED
    BY <1>4, <2>5 DEF IsValue
<1> QED
  BY <1>3, <1>4 DEF Questions

LEMMA StoredType ==
    ASSUME question \in Questions, question # "lookup", NEW value, IsValue(value, Block)
    PROVE  IsValue(Stored(value), Nat)
<1>1. \A b \in Block : Height(b) \in Nat
  BY ChainType DEF Height
<1>2. CASE question = "utxo"
  <2> DEFINE heights == [o \in DOMAIN value |-> Height(value[o])]
  <2>1. Stored(value) = heights
    BY <1>2 DEF Stored
  <2>2. DOMAIN heights = DOMAIN value /\ heights \in [DOMAIN value -> Nat]
    BY <1>1, <1>2 DEF IsValue
  <2> HIDE DEF heights
  <2> QED
    BY <1>2, <2>1, <2>2 DEF IsValue
<1>3. CASE question = "stats"
  BY <1>3 DEF IsValue, Stored
<1>4. CASE question = "lookup"
  BY <1>4 DEF Questions
<1> QED
  BY <1>2, <1>3, <1>4 DEF Questions

LEMMA LastBlockType ==
    ASSUME IndexInv, NEW from \in Nat, ScriptRows(chain, from) # {}
    PROVE  LastBlock(ScriptRows(chain, from), chain) \in Block
BY LastBlockFacts DEF IndexInv

LEMMA TypeInit == Init => TypeInv
<1> SUFFICES ASSUME Init PROVE TypeInv
  OBVIOUS
<1>1. IndexInv
  BY DEF Init, IndexInv
<1>2. IsEntry(NoEntry)
  BY DEF IsEntry
<1>3. Shape
  BY DEF Init, Shape
<1> QED
  BY <1>1, <1>2, <1>3, ChainIsSeq DEF Init, TypeInv, TypeOK

\* The locals of one reader change and their types hold.
LEMMA TypeOfReader ==
    ASSUME TypeInv, NEW r \in Reader,
           UNCHANGED <<index, question>>,
           IsEntry(cache'), spoiled' \in BOOLEAN, aborted' \in BOOLEAN,
           NEW e, IsEntry(e), entry' = [entry EXCEPT ![r] = e],
           NEW w \in Row \cup {NoRow}, row' = [row EXCEPT ![r] = w],
           NEW k \in Nat, known' = [known EXCEPT ![r] = k],
           NEW a, acc' = [acc EXCEPT ![r] = a],
           NEW b \in Block \cup {NoBlock}, last' = [last EXCEPT ![r] = b],
           NEW x \in BOOLEAN, raced' = [raced EXCEPT ![r] = x],
           NEW step \in {"idle", "find", "delta", "name", "reply"},
           pc' = [pc EXCEPT ![r] = step],
           step \in {"delta", "reply"} => IsValue(a, Block),
           step \in {"find", "delta"} => question # "lookup",
           step = "name" => question = "lookup",
           step \in {"idle", "name"} => a = <<>>
    PROVE  TypeInv'
<1> USE DEF TypeInv
<1>1. IndexInv'
  BY DEF IndexInv, index
<1>2. \A v, S : IsValue(v, S)' = IsValue(v, S)
  BY DEF IsValue
<1>3. \A d : IsEntry(d)' = IsEntry(d)
  BY DEF IsEntry, IsValue
<1>4. Shape'
  BY DEF Shape, TypeOK
<1>5. \A q \in Reader :
        /\ IsEntry(entry'[q])
        /\ row'[q] \in Row \cup {NoRow}
        /\ pc'[q] \in {"delta", "reply"} => IsValue(acc'[q], Block)
  BY DEF Shape, TypeOK
<1> QED
  BY <1>1, <1>3, <1>4, <1>5 DEF TypeOK, index, IsEntry, IsValue

\* What is unchanged is assigned what it was.
LEMMA SameLocals ==
    ASSUME TypeInv, NEW r \in Reader
    PROVE  /\ entry = [entry EXCEPT ![r] = entry[r]] /\ IsEntry(entry[r])
           /\ row = [row EXCEPT ![r] = row[r]] /\ row[r] \in Row \cup {NoRow}
           /\ known = [known EXCEPT ![r] = known[r]] /\ known[r] \in Nat
           /\ acc = [acc EXCEPT ![r] = acc[r]]
           /\ last = [last EXCEPT ![r] = last[r]] /\ last[r] \in Block \cup {NoBlock}
           /\ raced = [raced EXCEPT ![r] = raced[r]] /\ raced[r] \in BOOLEAN
           /\ pc = [pc EXCEPT ![r] = pc[r]]
           /\ IsEntry(cache) /\ spoiled \in BOOLEAN /\ aborted \in BOOLEAN
           /\ question \in Questions
           /\ pc[r] \in {"delta", "reply"} => IsValue(acc[r], Block)
           /\ pc[r] \in {"find", "delta"} => question # "lookup"
           /\ pc[r] = "name" => question = "lookup"
           /\ pc[r] \in {"idle", "name"} => acc[r] = <<>>
BY DEF TypeInv, TypeOK, Shape

LEMMA NothingType == question \in Questions /\ question # "lookup" => IsValue(Nothing, Block)
BY DEF IsValue, Nothing, Questions, StatField

LEMMA ReaderTypes ==
    ASSUME TypeInv, NEW r \in Reader, ReaderStep(r)
    PROVE  TypeInv'
<1> USE SameLocals
<1>0. /\ IndexInv /\ question \in Questions
      /\ IsEntry(NoEntry)
  BY DEF TypeInv, TypeOK, IsEntry
<1>1. CASE ReadCache(r)
  <2>1. /\ question # "lookup"
        /\ UNCHANGED <<index, question, cache, aborted, spoiled>>
        /\ pc' = [pc EXCEPT ![r] = "find"]
        /\ entry' = [entry EXCEPT ![r] = cache]
        /\ raced' = [raced EXCEPT ![r] = spoiled]
        /\ row' = [row EXCEPT ![r] = row[r]]
        /\ known' = [known EXCEPT ![r] = known[r]]
        /\ acc' = [acc EXCEPT ![r] = acc[r]]
        /\ last' = [last EXCEPT ![r] = last[r]]
    BY <1>1 DEF ReadCache
  <2> QED
    BY <2>1, TypeOfReader
<1>2. CASE FindHeight(r)
  <2>1. pc[r] = "find" /\ question # "lookup"
    BY <1>2 DEF FindHeight, At
  <2>2. CASE IsCurrent(entry[r])
    <3>1. entry[r] # NoEntry /\ entry[r].block \in Block /\ IsValue(entry[r].value, Nat)
      <4>1. PICK tip \in Block : chain = ChainOf[tip]
        BY <1>0 DEF IndexInv
      <4>2. entry[r].block \in Ancestry(tip)
        BY <2>2, <4>1 DEF IsCurrent, Ancestry
      <4>3. entry[r].block \in Block
        BY <4>2, ChainMember
      <4>4. NoEntry.block \notin Block
        BY BlockTreeAssumption DEF NoEntry
      <4> QED
        BY <4>3, <4>4 DEF IsEntry
    <3> DEFINE k == Height(entry[r].block) + 1
               a == IF question = "utxo" THEN <<>> ELSE entry[r].value
    <3>2. k \in Nat
      BY <3>1, ChainType DEF Height
    <3>3. IsValue(a, Block)
      BY <1>0, <2>1, <3>1 DEF IsValue, Questions
    <3>4. /\ known' = [known EXCEPT ![r] = k]
          /\ acc' = [acc EXCEPT ![r] = a]
          /\ pc' = [pc EXCEPT ![r] = "delta"]
          /\ UNCHANGED <<index, question, cache, entry, row, last, aborted, raced, spoiled>>
      BY <1>2, <2>2 DEF FindHeight
    <3> HIDE DEF k, a
    <3> QED
      BY <2>1, <3>2, <3>3, <3>4, TypeOfReader
  <2>3. CASE ~IsCurrent(entry[r])
    <3>1. /\ known' = [known EXCEPT ![r] = 0]
          /\ acc' = [acc EXCEPT ![r] = Nothing]
          /\ raced' = [raced EXCEPT ![r] = FALSE]
          /\ pc' = [pc EXCEPT ![r] = "delta"]
          /\ UNCHANGED <<index, question, cache, entry, row, last, aborted, spoiled>>
      BY <1>2, <2>3 DEF FindHeight
    <3> QED
      BY <1>0, <2>1, <3>1, NothingType, TypeOfReader
  <2> QED
    BY <2>2, <2>3
<1>3. ASSUME NEW o \in OfScript, Rebuild(r, o)
      PROVE  TypeInv'
  <2>1. /\ pc[r] = "delta" /\ o \in ToRebuild(r)
        /\ UNCHANGED <<index, question, cache, pc, entry, row, known, last, raced, spoiled>>
    BY <1>3 DEF Rebuild, At
  <2>2. /\ question = "utxo" /\ o \in DOMAIN entry[r].value
        /\ IsValue(acc[r], Block)
    BY <2>1 DEF ToRebuild
  <2>3. entry[r].value[o] \in Nat
    <3>1. CASE entry[r] = NoEntry
      BY <2>2, <3>1 DEF NoEntry
    <3>2. CASE IsValue(entry[r].value, Nat)
      BY <2>2, <3>2 DEF IsValue
    <3> QED
      BY <3>1, <3>2 DEF IsEntry
  <2> DEFINE block == HeaderByHeight(entry[r].value[o])
             a == [p \in DOMAIN acc[r] \cup {o} |-> IF p = o THEN block ELSE acc[r][p]]
  <2>4. block \in Block \cup {NoBlock}
    BY <1>0, <2>3, HeaderType
  <2>5. CASE block # NoBlock
    <3>1. acc' = [acc EXCEPT ![r] = a] /\ UNCHANGED aborted
      BY <1>3, <2>5 DEF Rebuild
    <3>2. IsValue(a, Block)
      <4>1. acc[r] \in [DOMAIN acc[r] -> Block] /\ DOMAIN acc[r] \subseteq OfScript
        BY <2>2 DEF IsValue
      <4>2. DOMAIN a = DOMAIN acc[r] \cup {o} /\ a \in [DOMAIN acc[r] \cup {o} -> Block]
        BY <2>4, <2>5, <4>1
      <4> HIDE DEF a
      <4> QED
        BY <2>2, <4>1, <4>2 DEF IsValue
    <3> HIDE DEF a
    <3> QED
      BY <2>1, <3>1, <3>2, TypeOfReader
  <2>6. CASE block = NoBlock
    <3>1. aborted' = TRUE /\ UNCHANGED acc
      BY <1>3, <2>6 DEF Rebuild
    <3> QED
      BY <2>1, <3>1, TypeOfReader
  <2> QED
    BY <2>5, <2>6
<1>4. CASE Delta(r)
  <2>1. /\ pc[r] = "delta" /\ question # "lookup" /\ IsValue(acc[r], Block)
        /\ UNCHANGED <<index, question, cache, aborted, spoiled>>
    BY <1>4 DEF Delta, At
  <2> DEFINE ws == NewRows(r)
             a == Add(acc[r], ws, chain)
             b == IF ToSave(known[r] > 0, ws, a) THEN LastBlock(ws, chain) ELSE NoBlock
  <2>2. CASE question = "utxo" /\ TooPopular(acc[r], ws)
    <3>1. pc' = [pc EXCEPT ![r] = "idle"] /\ NoLocals(r)
      BY <1>4, <2>2 DEF Delta
    <3> QED
      BY <1>0, <2>1, <3>1, TypeOfReader DEF NoLocals
  <2>3. CASE ~(question = "utxo" /\ TooPopular(acc[r], ws))
    <3>1. /\ pc' = [pc EXCEPT ![r] = "reply"]
          /\ acc' = [acc EXCEPT ![r] = a]
          /\ last' = [last EXCEPT ![r] = b]
          /\ UNCHANGED <<entry, row, known, raced>>
      BY <1>4, <2>3 DEF Delta
    <3>2. IsValue(a, Block)
      BY <1>0, <2>1, AddType DEF NewRows
    <3>3. b \in Block \cup {NoBlock}
      <4>1. CASE ws # {}
        BY <1>0, <4>1, LastBlockType DEF NewRows
      <4>2. CASE ws = {}
        BY <4>2 DEF ToSave
      <4> QED
        BY <4>1, <4>2
    <3> HIDE DEF ws, a, b
    <3> QED
      BY <2>1, <3>1, <3>2, <3>3, TypeOfReader
  <2> QED
    BY <2>2, <2>3
<1>5. CASE SaveAndReply(r)
  <2>1. /\ pc[r] = "reply" /\ question # "lookup" /\ IsValue(acc[r], Block)
        /\ pc' = [pc EXCEPT ![r] = "idle"] /\ NoLocals(r)
        /\ UNCHANGED <<index, question, aborted>>
    BY <1>5 DEF SaveAndReply, At
  <2>2. IsEntry(cache') /\ spoiled' \in BOOLEAN
    <3>1. CASE last[r] # NoBlock
      <4> DEFINE v == Stored(acc[r])
      <4>1. IsValue(v, Nat)
        BY <1>0, <2>1, StoredType
      <4>2. cache' = [block |-> last[r], value |-> v] /\ spoiled' = raced[r]
        BY <1>5, <3>1 DEF SaveAndReply
      <4> HIDE DEF v
      <4> QED
        BY <3>1, <4>1, <4>2 DEF IsEntry
    <3>2. CASE last[r] = NoBlock
      BY <1>5, <3>2 DEF SaveAndReply
    <3> QED
      BY <3>1, <3>2
  <2> QED
    BY <1>0, <2>1, <2>2, TypeOfReader DEF NoLocals
<1>6. ASSUME NEW w \in rows, ReadRow(r, w)
      PROVE  TypeInv'
  <2>1. w \in Row /\ w.height + 1 \in Nat
    <3>1. PICK tip \in Block : rows = RowsOfAll(Ancestry(tip))
      BY <1>0 DEF IndexInv, Ancestry
    <3>2. PICK b \in Ancestry(tip) : w \in RowsOf(b)
      BY <3>1 DEF RowsOfAll
    <3>3. w \in [code : {"C", "H", "S"}, ref : Tx \cup Txo, by : Tx, height : Nat]
      BY <3>2, ChainMember, RowsType
    <3> QED
      BY <1>6, <3>3 DEF ReadRow, Row
  <2>2. /\ question = "lookup" /\ pc[r] = "idle"
        /\ UNCHANGED <<index, question, cache, aborted, spoiled>>
        /\ pc' = [pc EXCEPT ![r] = "name"]
        /\ row' = [row EXCEPT ![r] = w]
        /\ known' = [known EXCEPT ![r] = w.height + 1]
        /\ raced' = [raced EXCEPT ![r] = FALSE]
        /\ entry' = [entry EXCEPT ![r] = entry[r]]
        /\ acc' = [acc EXCEPT ![r] = acc[r]]
        /\ last' = [last EXCEPT ![r] = last[r]]
    BY <1>6 DEF ReadRow, At
  <2> DEFINE k == w.height + 1
  <2> HIDE DEF k
  <2>3. k \in Nat /\ known' = [known EXCEPT ![r] = k]
    BY <2>1, <2>2 DEF k
  <2> QED
    BY <2>1, <2>2, <2>3, TypeOfReader
<1>7. CASE NameBlock(r)
  <2>1. HeaderByHeight(row[r].height) \in Block \cup {NoBlock}
    <3>1. row[r].height \in Nat
      BY DEF Row, NoRow
    <3> QED
      BY <1>0, <3>1, HeaderType
  <2>2. pc[r] = "name" /\ question = "lookup"
    BY <1>7 DEF NameBlock, At
  <2>3. IsValue(acc[r], Block)
    <3>1. question # "stats" => IsValue(<<>>, Block)
      BY DEF IsValue
    <3> QED
      BY <2>2, <3>1
  <2> DEFINE b == HeaderByHeight(row[r].height)
  <2>4. /\ last' = [last EXCEPT ![r] = b]
        /\ pc' = [pc EXCEPT ![r] = "reply"]
        /\ UNCHANGED <<index, question, cache, aborted, spoiled>>
        /\ entry' = [entry EXCEPT ![r] = entry[r]]
        /\ row' = [row EXCEPT ![r] = row[r]]
        /\ known' = [known EXCEPT ![r] = known[r]]
        /\ acc' = [acc EXCEPT ![r] = acc[r]]
        /\ raced' = [raced EXCEPT ![r] = raced[r]]
    BY <1>7 DEF NameBlock
  <2>5. b \in Block \cup {NoBlock}
    BY <2>1
  <2> HIDE DEF b
  <2> QED
    BY <2>5, <2>2, <2>3, <2>4, TypeOfReader
<1>8. CASE Reply(r)
  BY <1>0, <1>8, TypeOfReader DEF Reply, NoLocals
<1> QED
  BY <1>1, <1>2, <1>3, <1>4, <1>5, <1>6, <1>7, <1>8 DEF ReaderStep

LEMMA TypeStep == TypeInv /\ [Next]_vars => TypeInv'
<1> SUFFICES ASSUME TypeInv, [Next]_vars PROVE TypeInv'
  OBVIOUS
<1> USE DEF TypeInv
<1>1. ASSUME NEW r \in Reader, ReaderStep(r) PROVE TypeInv'
  BY <1>1, ReaderTypes
<1>i. \A v, S : question' = question => IsValue(v, S)' = IsValue(v, S)
  BY DEF IsValue
<1>e. \A d : question' = question => IsEntry(d)' = IsEntry(d)
  BY DEF IsEntry, IsValue
<1>2. CASE IndexRewinds
  <2>1. IndexInv' /\ chain' \in Seq(Block)
    <3>1. IndexInv'
      BY <1>2, IndexSteps
    <3> QED
      BY <3>1, ChainType DEF IndexInv
  <2>2. /\ UNCHANGED <<question, cache, request, aborted, spoiled>>
        /\ raced' = [r \in Reader |-> raced[r] \/ Raced(r)]
    BY <1>2 DEF IndexRewinds
  <2>3. raced' \in [Reader -> BOOLEAN]
    BY <2>2 DEF TypeOK, Raced
  <2>4. TypeOK'
    BY <1>i, <1>e, <2>1, <2>2, <2>3 DEF TypeOK, request, IsEntry, IsValue
  <2>5. Shape'
    BY <2>2 DEF Shape, request
  <2> QED
    BY <2>1, <2>4, <2>5
<1>3. CASE IndexExtends
  <2>1. IndexInv' /\ chain' \in Seq(Block)
    <3>1. IndexInv'
      BY <1>3, IndexSteps
    <3> QED
      BY <3>1, ChainType DEF IndexInv
  <2>2. UNCHANGED <<question, cache, request, aborted, raced, spoiled>>
    BY <1>3 DEF IndexExtends
  <2>4. TypeOK'
    BY <1>i, <1>e, <2>1, <2>2 DEF TypeOK, request, IsEntry, IsValue
  <2>5. Shape'
    BY <2>2 DEF Shape, request
  <2> QED
    BY <2>1, <2>4, <2>5
<1>4. CASE Restart
  <2>1. IndexInv' /\ chain' \in Seq(Block)
    <3>1. IndexInv'
      BY <1>4, IndexSteps
    <3> QED
      BY <3>1, ChainType DEF IndexInv
  <2>2. Shape'
    BY <1>4 DEF Restart, Shape
  <2>3. TypeOK'
    <3>1. IsEntry(cache)' /\ \A r \in Reader : IsEntry(entry[r])'
      BY <1>4 DEF Restart, TypeOK, IsEntry, IsValue
    <3> QED
      BY <1>4, <2>1, <3>1 DEF Restart, TypeOK
  <2> QED
    BY <2>1, <2>2, <2>3
<1>5. CASE UNCHANGED vars
  BY <1>5 DEF vars, index, request, TypeOK, Shape, IndexInv, IsEntry, IsValue
<1> QED
  BY <1>1, <1>2, <1>3, <1>4, <1>5 DEF Next

\* The variables keep their types: what is cached and what is answered are
\* values of the question asked, with blocks the readers know.
THEOREM TypeCorrect == Spec => []TypeOK
<1>1. TypeInv => TypeOK
  BY DEF TypeInv
<1> QED
  BY <1>1, TypeInit, TypeStep, PTL DEF Spec

(***************************************************************************)
(* Answers and cache rows are exact.  The invariant says of every reader   *)
(* that is not raced how far it has come: the value it started from is the *)
(* value of the chain up to the block of its entry, that block is still on *)
(* the chain, and what it has rebuilt so far is a part of that value.      *)
(***************************************************************************)
EntryValue(r) == ValueOf(ChainOf[entry[r].block])

Started(r) ==
    IF known[r] = 0
      THEN acc[r] = Nothing
      ELSE /\ IsExact(entry[r])
           /\ entry[r].block \in Blocks(chain)
           /\ known[r] = Len(ChainOf[entry[r].block])
           /\ question = "utxo" =>
                /\ DOMAIN acc[r] \subseteq DOMAIN EntryValue(r)
                /\ \A o \in DOMAIN acc[r] : acc[r][o] = EntryValue(r)[o]
           /\ question = "stats" => acc[r] = EntryValue(r)

HasRow(r) ==
    /\ row[r] \in Row
    /\ known[r] = row[r].height + 1
    /\ known[r] <= Len(chain)
    /\ row[r].by \in TxsIn[chain[known[r]]]

Sound(r) ==
    ~raced[r] =>
      /\ pc[r] = "find" => IsExact(entry[r])
      /\ pc[r] = "delta" => Started(r)
      /\ pc[r] = "name" => HasRow(r)
      /\ pc[r] = "reply" /\ last[r] # NoBlock =>
           IF question = "lookup"
             THEN row[r].by \in TxsIn[last[r]]
             ELSE acc[r] = ValueOf(ChainOf[last[r]])

SoundInv ==
    /\ TypeInv
    /\ CacheExactUnlessRaced
    /\ AbortsOnlyIfRaced
    /\ \A r \in Reader : Sound(r)

\* Values depend on the question, which does not change.
LEMMA SameQuestion ==
    question' = question =>
      /\ \A c : ValueOf(c)' = ValueOf(c)
      /\ \A d : IsExact(d)' = IsExact(d)
      /\ Nothing' = Nothing
<1> SUFFICES ASSUME question' = question
             PROVE  /\ \A c : ValueOf(c)' = ValueOf(c)
                    /\ \A d : IsExact(d)' = IsExact(d)
                    /\ Nothing' = Nothing
  OBVIOUS
<1>1. Nothing' = Nothing
  BY DEF Nothing
<1>2. \A c : ValueOf(c)' = ValueOf(c)
  BY <1>1 DEF ValueOf, Add
<1>3. \A v : Stored(v)' = Stored(v)
  BY DEF Stored
<1>4. \A d : IsExact(d)' = IsExact(d)
  BY <1>2, <1>3 DEF IsExact
<1> QED
  BY <1>1, <1>2, <1>4

\* A step of one reader leaves the others where they are.
LEMMA OtherReaders ==
    ASSUME NEW q, Sound(q), UNCHANGED <<index, question>>,
           pc'[q] = pc[q], entry'[q] = entry[q], row'[q] = row[q],
           known'[q] = known[q], acc'[q] = acc[q], last'[q] = last[q],
           raced'[q] = raced[q]
    PROVE  Sound(q)'
<1>1. question' = question /\ chain' = chain
  BY DEF index
<1>2. Started(q)' = Started(q)
  BY <1>1, SameQuestion DEF Started, EntryValue
<1>3. HasRow(q)' = HasRow(q)
  BY <1>1 DEF HasRow
<1> QED
  BY <1>1, <1>2, <1>3, SameQuestion DEF Sound

\* What a reader that is not raced knows of the entry it started from.
LEMMA StartedFacts ==
    ASSUME TypeInv, NEW r \in Reader, NEW tip \in Block, chain = ChainOf[tip],
           Started(r), known[r] # 0
    PROVE  /\ entry[r].block \in Ancestry(tip)
           /\ entry[r].block \in Block
           /\ entry[r].value = Stored(EntryValue(r))
<1>1. entry[r].block \in Ancestry(tip)
  BY DEF Started, Ancestry
<1>2. entry[r].block \in Block
  BY <1>1, ChainMember
<1> QED
  BY <1>1, <1>2, BlockTreeAssumption DEF Started, IsExact, EntryValue

\* The heights of a cached utxo set are those of blocks on the chain.
LEMMA RebuildFacts ==
    ASSUME TypeInv, NEW r \in Reader, Started(r), pc[r] = "delta",
           NEW o \in ToRebuild(r)
    PROVE  /\ question = "utxo"
           /\ known[r] # 0
           /\ o \in DOMAIN EntryValue(r)
           /\ HeaderByHeight(entry[r].value[o]) = EntryValue(r)[o]
           /\ EntryValue(r)[o] \in Block
<1>1. PICK tip \in Block : chain = ChainOf[tip]
  BY DEF TypeInv, IndexInv
<1>2. question = "utxo" /\ known[r] # 0 /\ o \in DOMAIN entry[r].value
  BY DEF ToRebuild
<1>3. /\ entry[r].block \in Ancestry(tip) /\ entry[r].block \in Block
      /\ entry[r].value = Stored(EntryValue(r))
  BY <1>1, <1>2, StartedFacts
<1> DEFINE V == EntryValue(r)
           b == V[o]
<1>4. entry[r].value = [p \in DOMAIN V |-> Height(V[p])]
  BY <1>2, <1>3 DEF Stored
<1>5. o \in DOMAIN V /\ entry[r].value[o] = Height(b)
  BY <1>2, <1>4
<1>6. b \in Ancestry(entry[r].block)
  <2>1. V = UtxosOf(ChainOf[entry[r].block])
    BY <1>2, <1>3, ValueIs DEF EntryValue
  <2> QED
    BY <1>3, <1>5, <2>1, UtxosOfChain
<1> HIDE DEF V, b
<1>7. b \in Ancestry(tip)
  BY <1>3, <1>6, AncestryTransitive
<1>8. /\ b \in Block
      /\ Len(ChainOf[b]) \in 1..Len(chain)
      /\ chain[Len(ChainOf[b])] = b
      /\ Len(chain) \in Nat
  BY <1>1, <1>7, ChainMember, ChainType
<1>9. HeaderByHeight(Height(b)) = b
  <2> DEFINE k == Len(ChainOf[b])
  <2>1. k \in 1..Len(chain) /\ Len(chain) \in Nat /\ chain[k] = b
    BY <1>8
  <2>2. Height(b) = k - 1
    BY DEF Height
  <2> HIDE DEF k
  <2>3. k - 1 < Len(chain) /\ (k - 1) + 1 = k
    BY <2>1
  <2> QED
    BY <2>1, <2>2, <2>3 DEF HeaderByHeight
<1> QED
  BY <1>2, <1>5, <1>8, <1>9 DEF V, b

\* What a delta returns to a reader that is not raced.
LEMMA DeltaFacts ==
    ASSUME TypeInv, NEW r \in Reader, Started(r), pc[r] = "delta",
           ToRebuild(r) = {}
    PROVE  Add(acc[r], NewRows(r), chain) = ValueOf(chain)
<1>1. PICK tip \in Block : chain = ChainOf[tip]
  BY DEF TypeInv, IndexInv
<1>2. CASE known[r] = 0
  BY <1>2 DEF Started, NewRows, ValueOf
<1>3. CASE known[r] # 0
  <2>1. /\ entry[r].block \in Ancestry(tip) /\ entry[r].block \in Block
        /\ entry[r].value = Stored(EntryValue(r))
    BY <1>1, <1>3, StartedFacts
  <2>2. acc[r] = EntryValue(r)
    <3>1. CASE question = "utxo"
      <4>1. known[r] > 0
        BY <1>3 DEF TypeInv, TypeOK
      <4>2. DOMAIN entry[r].value = DOMAIN EntryValue(r)
        BY <2>1, <3>1 DEF Stored
      <4>3. DOMAIN acc[r] = DOMAIN EntryValue(r)
        BY <1>3, <3>1, <4>1, <4>2 DEF ToRebuild, Started
      <4>4. acc[r] \in [DOMAIN acc[r] -> Block]
        BY <3>1 DEF TypeInv, TypeOK, IsValue
      <4>5. EntryValue(r) \in [DOMAIN EntryValue(r) -> Block]
        BY <2>1, <3>1, ValueIs, UtxosOfChain DEF EntryValue
      <4>6. \A o \in DOMAIN acc[r] : acc[r][o] = EntryValue(r)[o]
        BY <1>3, <3>1 DEF Started
      <4> QED
        BY <4>3, <4>4, <4>5, <4>6
    <3>2. CASE question = "stats"
      BY <1>3, <3>2 DEF Started
    <3> QED
      BY <3>1, <3>2 DEF TypeInv, TypeOK, Shape, Questions
  <2>3. known[r] = Len(ChainOf[entry[r].block])
    BY <1>3 DEF Started
  <2> QED
    BY <1>1, <2>1, <2>2, <2>3, ValueExtend DEF NewRows, EntryValue
<1> QED
  BY <1>2, <1>3

\* One reader's step.
LEMMA OneReader ==
    ASSUME TypeInv, NEW r \in Reader, ReaderStep(r)
    PROVE  /\ ~aborted
           /\ UNCHANGED <<index, question>>
           /\ \A q \in Reader \ {r} :
                /\ pc'[q] = pc[q] /\ entry'[q] = entry[q] /\ row'[q] = row[q]
                /\ known'[q] = known[q] /\ acc'[q] = acc[q]
                /\ last'[q] = last[q] /\ raced'[q] = raced[q]
<1> USE DEF TypeInv, TypeOK, Shape, At
<1>1. CASE ReadCache(r)
  BY <1>1 DEF ReadCache
<1>2. CASE FindHeight(r)
  BY <1>2 DEF FindHeight
<1>3. CASE \E o \in OfScript : Rebuild(r, o)
  BY <1>3 DEF Rebuild
<1>4. CASE Delta(r)
  BY <1>4 DEF Delta, NoLocals
<1>5. CASE SaveAndReply(r)
  BY <1>5 DEF SaveAndReply, NoLocals
<1>6. CASE \E w \in rows : ReadRow(r, w)
  BY <1>6 DEF ReadRow
<1>7. CASE NameBlock(r)
  BY <1>7 DEF NameBlock
<1>8. CASE Reply(r)
  BY <1>8 DEF Reply, NoLocals
<1> QED
  BY <1>1, <1>2, <1>3, <1>4, <1>5, <1>6, <1>7, <1>8 DEF ReaderStep

\* An answer is the value of the chain its delta was read from.
LEMMA AnswerFacts ==
    ASSUME SoundInv, NEW r \in Reader, Delta(r), pc'[r] = "reply", ~raced[r]
    PROVE  /\ acc'[r] = ValueOf(chain)
           /\ last'[r] # NoBlock => acc'[r] = ValueOf(ChainOf[last'[r]])
<1> DEFINE ws == NewRows(r)
           new == Add(acc[r], ws, chain)
<1>1. TypeInv /\ pc[r] = "delta" /\ ToRebuild(r) = {} /\ known[r] \in Nat
  BY DEF SoundInv, TypeInv, TypeOK, Delta, At
<1>2. Started(r)
  BY <1>1 DEF SoundInv, Sound
<1>3. new = ValueOf(chain)
  BY <1>1, <1>2, DeltaFacts
<1>4. /\ acc' = [acc EXCEPT ![r] = new]
      /\ last' = [last EXCEPT ![r] =
           IF ToSave(known[r] > 0, ws, new) THEN LastBlock(ws, chain) ELSE NoBlock]
  BY <1>1 DEF Delta, TypeInv, TypeOK
<1>5. /\ acc'[r] = new
      /\ last'[r] = IF ToSave(known[r] > 0, ws, new) THEN LastBlock(ws, chain) ELSE NoBlock
  BY <1>1, <1>4 DEF TypeInv, TypeOK, Shape
<1>6. ws # {} => ValueOf(ChainOf[LastBlock(ws, chain)]) = ValueOf(chain)
  BY <1>1, LastBlockFacts DEF TypeInv, IndexInv, NewRows
<1>7. last'[r] # NoBlock => ws # {} /\ last'[r] = LastBlock(ws, chain)
  BY <1>5 DEF ToSave
<1> QED
  BY <1>3, <1>5, <1>6, <1>7

LEMMA SoundReader ==
    ASSUME SoundInv, NEW r \in Reader, ReaderStep(r)
    PROVE  /\ CacheExactUnlessRaced'
           /\ aborted' => raced'[r]
           /\ Sound(r)'
<1>1. /\ TypeInv /\ ~aborted /\ Sound(r) /\ CacheExactUnlessRaced
      /\ question' = question /\ chain' = chain /\ rows' = rows
      /\ question \in Questions
  BY OneReader DEF SoundInv, index, TypeInv, TypeOK
<1>2. /\ \A c : ValueOf(c)' = ValueOf(c)
      /\ \A d : IsExact(d)' = IsExact(d)
      /\ Nothing' = Nothing
  BY <1>1, SameQuestion
<1>3. ASSUME UNCHANGED <<cache, spoiled>> PROVE CacheExactUnlessRaced'
  BY <1>1, <1>2, <1>3 DEF CacheExactUnlessRaced
<1> USE DEF TypeInv, TypeOK, Shape
<1>4. CASE ReadCache(r)
  <2>1. /\ pc'[r] = "find" /\ entry'[r] = cache /\ raced'[r] = spoiled
        /\ UNCHANGED <<cache, aborted, spoiled>>
    BY <1>1, <1>4 DEF ReadCache
  <2> QED
    BY <1>1, <1>2, <1>3, <2>1 DEF Sound, CacheExactUnlessRaced
<1>5. CASE FindHeight(r)
  <2>1. pc[r] = "find" /\ pc'[r] = "delta" /\ UNCHANGED <<cache, entry, aborted, spoiled>>
    BY <1>1, <1>5 DEF FindHeight, At
  <2>2. question # "lookup"
    BY <1>1, <2>1
  <2>3. ASSUME ~raced'[r] PROVE Started(r)'
    <3>1. CASE IsCurrent(entry[r])
      <4>1. /\ known'[r] = Height(entry[r].block) + 1
            /\ acc'[r] = IF question = "utxo" THEN <<>> ELSE entry[r].value
            /\ ~raced[r]
        BY <1>1, <1>5, <2>3, <3>1 DEF FindHeight
      <4>2. IsExact(entry[r])
        BY <1>1, <2>1, <4>1 DEF Sound
      <4>3. PICK tip \in Block : chain = ChainOf[tip]
        BY <1>1 DEF IndexInv
      <4>4. entry[r].block \in Ancestry(tip)
        BY <3>1, <4>3 DEF IsCurrent, Ancestry
      <4>5. /\ entry[r].block \in Block
            /\ Len(ChainOf[entry[r].block]) \in 1..Len(ChainOf[tip])
        BY <4>4, ChainMember
      <4> DEFINE k == Len(ChainOf[entry[r].block])
      <4>6. k \in Nat \ {0} /\ Height(entry[r].block) = k - 1
        BY <4>5, ChainType DEF Height
      <4> HIDE DEF k
      <4>7. known'[r] = k /\ known'[r] # 0
        BY <4>1, <4>6
      <4>8. entry[r].value = Stored(EntryValue(r))
        BY <4>2, <4>5, BlockTreeAssumption DEF IsExact, EntryValue
      <4>9. CASE question = "utxo"
        <5>1. acc'[r] = <<>> /\ DOMAIN acc'[r] = {}
          BY <4>1, <4>9
        <5> QED
          BY <1>1, <1>2, <2>1, <3>1, <4>2, <4>7, <4>9, <5>1
            DEF Started, EntryValue, IsCurrent, k
      <4>10. CASE question = "stats"
        <5>1. acc'[r] = EntryValue(r)
          BY <4>1, <4>8, <4>10 DEF Stored
        <5> QED
          BY <1>1, <1>2, <2>1, <3>1, <4>2, <4>7, <4>10, <5>1
            DEF Started, EntryValue, IsCurrent, k
      <4> QED
        BY <1>1, <2>2, <4>9, <4>10 DEF Questions
    <3>2. CASE ~IsCurrent(entry[r])
      <4>1. known'[r] = 0 /\ acc'[r] = Nothing
        BY <1>1, <1>5, <3>2 DEF FindHeight
      <4> QED
        BY <1>2, <4>1 DEF Started
    <3> QED
      BY <3>1, <3>2
  <2> QED
    BY <1>1, <1>3, <2>1, <2>3 DEF Sound
<1>6. ASSUME NEW o \in OfScript, Rebuild(r, o)
      PROVE  /\ CacheExactUnlessRaced'
             /\ aborted' => raced'[r]
             /\ Sound(r)'
  <2> DEFINE block == HeaderByHeight(entry[r].value[o])
  <2>1. /\ pc[r] = "delta" /\ o \in ToRebuild(r)
        /\ UNCHANGED <<cache, pc, entry, known, raced, spoiled>>
    BY <1>6 DEF Rebuild, At
  <2>2. CASE raced[r]
    BY <1>3, <2>1, <2>2 DEF Sound
  <2>3. CASE ~raced[r]
    <3>1. Started(r)
      BY <1>1, <2>1, <2>3 DEF Sound
    <3>2. /\ question = "utxo" /\ known[r] # 0
          /\ o \in DOMAIN EntryValue(r)
          /\ block = EntryValue(r)[o]
          /\ block \in Block
      BY <1>1, <2>1, <3>1, RebuildFacts
    <3> DEFINE a == [p \in DOMAIN acc[r] \cup {o} |-> IF p = o THEN block ELSE acc[r][p]]
    <3>3. block # NoBlock
      BY <3>2, BlockTreeAssumption
    <3>4. acc' = [acc EXCEPT ![r] = a] /\ UNCHANGED aborted
      BY <1>6, <3>3 DEF Rebuild
    <3>5. acc'[r] = a
      BY <1>1, <3>4
    <3>6. /\ DOMAIN a \subseteq DOMAIN EntryValue(r)
          /\ \A p \in DOMAIN a : a[p] = EntryValue(r)[p]
      BY <3>1, <3>2 DEF Started
    <3> HIDE DEF a, block
    <3>7. EntryValue(r)' = EntryValue(r)
      BY <1>2, <2>1 DEF EntryValue
    <3>8. Started(r)'
      BY <1>1, <1>2, <2>1, <3>1, <3>2, <3>5, <3>6, <3>7 DEF Started
    <3> QED
      BY <1>1, <1>3, <2>1, <3>4, <3>8 DEF Sound
  <2> QED
    BY <2>2, <2>3
<1>7. CASE Delta(r)
  <2>1. pc'[r] \in {"idle", "reply"} /\ UNCHANGED <<cache, aborted, spoiled>>
    BY <1>1, <1>7 DEF Delta
  <2>2. CASE pc'[r] = "reply"
    <3>1. raced' = raced /\ question # "lookup"
      BY <1>1, <1>7, <2>2 DEF Delta, At
    <3>2. ~raced[r] => (last'[r] # NoBlock => acc'[r] = ValueOf(ChainOf[last'[r]]))
      BY <1>7, <2>2, AnswerFacts
    <3> QED
      BY <1>1, <1>2, <1>3, <2>1, <2>2, <3>1, <3>2 DEF Sound
  <2>3. CASE pc'[r] = "idle"
    BY <1>1, <1>3, <2>1, <2>3 DEF Sound
  <2> QED
    BY <2>1, <2>2, <2>3
<1>8. CASE SaveAndReply(r)
  <2>1. pc'[r] = "idle" /\ UNCHANGED aborted /\ pc[r] = "reply" /\ question # "lookup"
    BY <1>1, <1>8 DEF SaveAndReply, At
  <2>2. CASE last[r] = NoBlock
    BY <1>1, <1>3, <1>8, <2>1, <2>2 DEF Sound, SaveAndReply
  <2>3. CASE last[r] # NoBlock
    <3>1. cache' = [block |-> last[r], value |-> Stored(acc[r])] /\ spoiled' = raced[r]
      BY <1>8, <2>3 DEF SaveAndReply
    <3>2. ~raced[r] => acc[r] = ValueOf(ChainOf[last[r]])
      BY <1>1, <2>1, <2>3 DEF Sound
    <3>3. \A v : Stored(v)' = Stored(v)
      BY <1>1 DEF Stored
    <3>4. CacheExactUnlessRaced'
      BY <1>2, <3>1, <3>2, <3>3 DEF CacheExactUnlessRaced, IsExact
    <3> QED
      BY <1>1, <2>1, <3>4 DEF Sound
  <2> QED
    BY <2>2, <2>3
<1>9. ASSUME NEW w \in rows, ReadRow(r, w)
      PROVE  /\ CacheExactUnlessRaced'
             /\ aborted' => raced'[r]
             /\ Sound(r)'
  <2>1. /\ pc'[r] = "name" /\ row'[r] = w /\ known'[r] = w.height + 1
        /\ UNCHANGED <<cache, aborted, spoiled>> /\ w.code \in {"S", "C"}
    BY <1>1, <1>9 DEF ReadRow
  <2>2. PICK tip \in Block : chain = ChainOf[tip] /\ rows = RowsOfAll(Ancestry(tip))
    BY <1>1 DEF IndexInv, Ancestry
  <2>3. PICK b \in Ancestry(tip) : w \in RowsOf(b)
    BY <2>2 DEF RowsOfAll
  <2>4. /\ b \in Block
        /\ Len(ChainOf[b]) \in 1..Len(chain)
        /\ chain[Len(ChainOf[b])] = b
    BY <2>2, <2>3, ChainMember
  <2>5. /\ w \in [code : {"C", "H", "S"}, ref : Tx \cup Txo, by : Tx, height : Nat]
        /\ w.height = Len(ChainOf[b]) - 1
        /\ w.by \in TxsIn[b]
    BY <2>3, <2>4, RowsType
  <2>6. w \in Row
    BY <2>1, <2>5 DEF Row
  <2>7. Len(chain) \in Nat
    BY <1>1, ChainIsSeq
  <2>8. /\ w.height + 1 = Len(ChainOf[b])
        /\ w.height + 1 <= Len(chain)
        /\ chain[w.height + 1] = b
    <3> DEFINE k == Len(ChainOf[b])
    <3>1. k \in 1..Len(chain) /\ w.height = k - 1 /\ chain[k] = b
      BY <2>4, <2>5
    <3> HIDE DEF k
    <3>2. w.height + 1 = k /\ k <= Len(chain)
      BY <3>1, <2>7
    <3> QED
      BY <3>1, <3>2 DEF k
  <2>9. HasRow(r)'
    BY <1>1, <2>1, <2>5, <2>6, <2>8 DEF HasRow
  <2> QED
    BY <1>1, <1>3, <2>1, <2>9 DEF Sound
<1>10. CASE NameBlock(r)
  <2>1. /\ pc[r] = "name" /\ pc'[r] = "reply"
        /\ last'[r] = HeaderByHeight(row[r].height)
        /\ UNCHANGED <<cache, row, aborted, raced, spoiled>>
    BY <1>1, <1>10 DEF NameBlock, At
  <2>2. ASSUME ~raced[r], last'[r] # NoBlock
        PROVE  row[r].by \in TxsIn[last'[r]]
    <3>1. HasRow(r)
      BY <1>1, <2>1, <2>2 DEF Sound
    <3>2. last'[r] = chain[row[r].height + 1]
      BY <2>1, <2>2 DEF HeaderByHeight
    <3> QED
      BY <3>1, <3>2 DEF HasRow
  <2>3. question = "lookup"
    BY <1>1, <2>1
  <2> QED
    BY <1>1, <1>3, <2>1, <2>2, <2>3 DEF Sound
<1>11. CASE Reply(r)
  <2>1. pc'[r] = "idle" /\ UNCHANGED <<cache, aborted, spoiled>>
    BY <1>1, <1>11 DEF Reply
  <2> QED
    BY <1>1, <1>3, <2>1 DEF Sound
<1> QED
  BY <1>4, <1>5, <1>6, <1>7, <1>8, <1>9, <1>10, <1>11 DEF ReaderStep

\* A step of the index leaves a reader sound, or leaves it raced.
LEMMA SoundIndex ==
    ASSUME SoundInv, IndexRewinds \/ IndexExtends, NEW r \in Reader
    PROVE  Sound(r)'
<1>1. /\ TypeInv /\ IndexInv /\ Sound(r)
      /\ UNCHANGED <<question, cache, request, aborted, spoiled>>
      /\ known[r] \in Nat
  BY DEF SoundInv, TypeInv, TypeOK, IndexRewinds, IndexExtends
<1>2. question' = question /\ pc' = pc /\ entry' = entry /\ row' = row
      /\ known' = known /\ acc' = acc /\ last' = last
  BY <1>1 DEF request
<1>3. raced[r] => raced'[r]
  BY DEF IndexRewinds, IndexExtends
<1>4. Len(chain) \in Nat /\ Len(chain') \in Nat
  <2>1. IndexInv'
    BY <1>1, IndexSteps
  <2> QED
    BY <1>1, <2>1, ChainType DEF IndexInv
<1>5. ASSUME ~raced'[r], pc[r] \in {"delta", "name"}, known[r] \in 1..Len(chain)
      PROVE  known[r] \in 1..Len(chain') /\ chain'[known[r]] = chain[known[r]]
  <2>1. CASE IndexRewinds
    <3>1. ~(known[r] > Len(chain'))
      BY <1>5, <2>1 DEF IndexRewinds, Raced
    <3> QED
      BY <1>1, <1>4, <1>5, <2>1, <3>1, IndexSteps
  <2>2. CASE IndexExtends
    BY <1>1, <1>4, <1>5, <2>2, IndexSteps
  <2> QED
    BY <2>1, <2>2
<1>6. ASSUME ~raced'[r], pc[r] = "delta" PROVE Started(r)'
  <2>1. Started(r)
    BY <1>1, <1>3, <1>6 DEF Sound
  <2>2. CASE known[r] = 0
    BY <1>2, <2>1, <2>2, SameQuestion DEF Started
  <2>3. CASE known[r] # 0
    <3> DEFINE b == entry[r].block
    <3>1. PICK tip \in Block : chain = ChainOf[tip]
      BY <1>1 DEF IndexInv
    <3>2. b \in Ancestry(tip) /\ known[r] = Len(ChainOf[b])
      BY <1>1, <2>1, <2>3, <3>1, StartedFacts DEF Started
    <3>3. known[r] \in 1..Len(chain) /\ chain[known[r]] = b
      BY <3>1, <3>2, ChainMember
    <3>4. b \in Blocks(chain')
      BY <1>5, <1>6, <3>3 DEF Blocks
    <3>5. EntryValue(r)' = EntryValue(r)
      BY <1>2, SameQuestion DEF EntryValue
    <3> QED
      BY <1>2, <2>1, <2>3, <3>4, <3>5, SameQuestion DEF Started
  <2> QED
    BY <2>2, <2>3
<1>7. ASSUME ~raced'[r], pc[r] = "name" PROVE HasRow(r)'
  <2>1. HasRow(r)
    BY <1>1, <1>3, <1>7 DEF Sound
  <2>2. known[r] \in 1..Len(chain)
    <3>1. row[r].height \in Nat
      BY <2>1 DEF HasRow, Row
    <3> QED
      BY <1>4, <2>1, <3>1 DEF HasRow
  <2>3. known[r] \in 1..Len(chain') /\ chain'[known[r]] = chain[known[r]]
    BY <1>5, <1>7, <2>2
  <2> QED
    BY <1>2, <2>1, <2>3 DEF HasRow
<1> QED
  BY <1>1, <1>2, <1>3, <1>6, <1>7, SameQuestion DEF Sound

LEMMA SoundStep == SoundInv /\ [Next]_vars => SoundInv'
<1> SUFFICES ASSUME SoundInv, [Next]_vars PROVE SoundInv'
  OBVIOUS
<1>1. TypeInv'
  BY TypeStep DEF SoundInv
<1>2. ASSUME NEW r \in Reader, ReaderStep(r) PROVE SoundInv'
  <2>1. /\ CacheExactUnlessRaced'
        /\ aborted' => raced'[r]
        /\ Sound(r)'
    BY <1>2, SoundReader
  <2>2. ASSUME NEW q \in Reader \ {r} PROVE Sound(q)'
    BY <1>2, OneReader, OtherReaders DEF SoundInv
  <2> QED
    BY <1>1, <2>1, <2>2 DEF SoundInv, AbortsOnlyIfRaced
<1>3. CASE IndexRewinds \/ IndexExtends
  <2>1. \A r \in Reader : Sound(r)'
    BY <1>3, SoundIndex
  <2>2. UNCHANGED <<question, cache, spoiled>> /\ ~aborted'
    BY <1>3 DEF IndexRewinds, IndexExtends
  <2> QED
    BY <1>1, <2>1, <2>2, SameQuestion
      DEF SoundInv, CacheExactUnlessRaced, AbortsOnlyIfRaced
<1>4. CASE Restart
  <2>1. /\ UNCHANGED <<question, cache, spoiled>> /\ ~aborted'
        /\ \A r \in Reader : pc'[r] = "idle"
    BY <1>4 DEF Restart
  <2> QED
    BY <1>1, <2>1, SameQuestion
      DEF SoundInv, CacheExactUnlessRaced, AbortsOnlyIfRaced, Sound
<1>5. CASE UNCHANGED vars
  <2>1. /\ UNCHANGED <<index, question>> /\ cache' = cache /\ spoiled' = spoiled
        /\ aborted' = aborted /\ raced' = raced /\ pc' = pc /\ entry' = entry
        /\ row' = row /\ known' = known /\ acc' = acc /\ last' = last
    BY <1>5 DEF vars, request
  <2>2. \A r \in Reader : Sound(r)'
    BY <2>1, OtherReaders DEF SoundInv
  <2> QED
    BY <1>1, <2>1, <2>2, SameQuestion
      DEF SoundInv, CacheExactUnlessRaced, AbortsOnlyIfRaced
<1> QED
  BY <1>2, <1>3, <1>4, <1>5 DEF Next

LEMMA SoundInit == Init => SoundInv
<1> SUFFICES ASSUME Init PROVE SoundInv
  OBVIOUS
<1>1. CacheExactUnlessRaced
  BY DEF Init, CacheExactUnlessRaced, IsExact, NoEntry
<1>2. \A r \in Reader : Sound(r)
  BY DEF Init, Sound
<1> QED
  BY <1>1, <1>2, TypeInit DEF SoundInv, AbortsOnlyIfRaced, Init

LEMMA SoundAlways == Spec => []SoundInv
BY SoundInit, SoundStep, PTL DEF Spec

\* A cached row is the value of the chain up to the block it is kept next to,
\* unless a raced request wrote it: through reorganisations, restarts and the
\* requests of other threads, which may have written it in between.
THEOREM CachesStayExact == Spec => []CacheExactUnlessRaced
<1>1. SoundInv => CacheExactUnlessRaced
  BY DEF SoundInv
<1> QED
  BY <1>1, SoundAlways, PTL

\* The block a lookup names holds the transaction asked about, unless it was
\* popped between the row and the lock.
THEOREM LookupsNameTheirBlock == Spec => []NamesItsBlockUnlessRaced
<1>1. SoundInv => NamesItsBlockUnlessRaced
  BY DEF SoundInv, Sound, NamesItsBlockUnlessRaced
<1> QED
  BY <1>1, SoundAlways, PTL

\* Rebuilding a cached utxo set finds every block, unless the request is raced.
THEOREM PanicsOnlyIfRaced == Spec => []AbortsOnlyIfRaced
<1>1. SoundInv => AbortsOnlyIfRaced
  BY DEF SoundInv
<1> QED
  BY <1>1, SoundAlways, PTL

\* What utxo() and stats() answer is the value of the chain as it was when the
\* last rows were read, whatever was in the cache, unless the request is raced.
THEOREM AnswersAreExact == Spec => AnswersExactUnlessRaced
<1>1. ASSUME SoundInv, [Next]_vars,
             NEW r \in Reader, pc[r] = "delta", pc'[r] = "reply", ~raced[r]
      PROVE  acc'[r] = ValueOf(chain)
  <2>1. TypeInv /\ r \in DOMAIN pc
    BY <1>1 DEF SoundInv, TypeInv, TypeOK
  <2>2. ASSUME NEW q \in Reader, ReaderStep(q) PROVE q = r
    BY <1>1, <2>1, <2>2, OneReader
  <2>3. ReaderStep(r)
    BY <1>1, <2>2
      DEF Next, IndexRewinds, IndexExtends, Restart, request, vars
  <2>4. Delta(r)
    BY <1>1, <2>1, <2>3
      DEF ReaderStep, ReadCache, FindHeight, Rebuild, SaveAndReply, ReadRow,
          NameBlock, Reply, At
  <2> QED
    BY <1>1, <2>4, AnswerFacts
<1>2. SoundInv /\ [Next]_vars =>
        [\A r \in Reader : pc[r] = "delta" /\ pc'[r] = "reply" /\ ~raced[r]
                             => acc'[r] = ValueOf(chain)]_vars
  BY <1>1
<1> QED
  BY <1>2, SoundAlways, PTL DEF Spec, AnswersExactUnlessRaced
=============================================================================
