---------------------------- MODULE IndexerProofs ----------------------------
(***************************************************************************)
(* Theorems about the indexer for every block tree, batch size and layout  *)
(* of the block files.                                                     *)
(***************************************************************************)
EXTENDS Indexer, BlockTreeFacts, SequenceTheorems, FiniteSetTheorems

(***************************************************************************)
(* Type correctness.                                                       *)
(***************************************************************************)
LEMMA RowsOfAllType == \A bs \in SUBSET Block : RowsOfAll(bs) \in SUBSET Row
BY RowsType DEF RowsOfAll, Row

LEMMA EmptyTypes == <<>> \in Seq(Block) /\ {} \in SUBSET Block /\ {} \in SUBSET Row
OBVIOUS

\* No step takes the state out of its types.
LEMMA TypeStep == TypeOK /\ [Next]_vars => TypeOK'
<1> SUFFICES ASSUME TypeOK, [Next]_vars
             PROVE  TypeOK'
  OBVIOUS
<1> USE DEF TypeOK, dbs, store, update
<1>1. CASE Open
  <2>1. CASE txdisk.t # NoBlock /\ ~HeadersFound
    BY <1>1, <2>1 DEF Open, Panic, Steps
  <2>2. CASE ~(txdisk.t # NoBlock /\ ~HeadersFound)
    <3>1. headers' \in Seq(Block)
      <4>1. CASE txdisk.t = NoBlock
        BY <1>1, <2>2, <4>1 DEF Open
      <4>2. CASE txdisk.t # NoBlock
        <5>1. PICK i \in 1..Len(ChainOf[txdisk.t]) :
                headers' = SubSeq(ChainOf[txdisk.t], 1, i)
          BY <1>1, <2>2, <4>2 DEF Open
        <5>2. ChainOf[txdisk.t] \in Seq(Block)
          BY <4>2, ChainType
        <5> QED
          BY <5>1, <5>2
      <4> QED
        BY <4>1, <4>2
    <3> QED
      BY <1>1, <2>2, <3>1, IndexerAssumption DEF Open, Steps
  <2> QED
    BY <2>1, <2>2
<1>2. CASE StartUpdate
  <2>1. PICK n \in 0..Len(ChainOf[bestblock]) :
          /\ IsForkLen(n)
          /\ newHeaders' = SubSeq(ChainOf[bestblock], n + 1, Len(ChainOf[bestblock]))
          /\ headers' = SubSeq(headers, 1, n)
          /\ undoing' = {headers[i] : i \in (n + 1)..Len(headers)}
          /\ pc' = IF n < Len(headers) THEN "undo" ELSE "plan"
    BY <1>2 DEF StartUpdate
  <2>2. ChainOf[bestblock] \in Seq(Block) /\ headers \in Seq(Block)
    BY ChainType
  <2>3. newHeaders' \in Seq(Block)
    BY <2>1, <2>2
  <2>4. undoing' \in SUBSET Block
    BY <2>1, <2>2
  <2>5. headers' \in Seq(Block)
    <3>1. CASE n = 0
      BY <2>1, <2>2, <3>1
    <3>2. CASE n > 0
      BY <2>1, <2>2, <3>2 DEF IsForkLen
    <3> QED
      BY <3>1, <3>2
  <2> QED
    BY <1>2, <2>1, <2>3, <2>4, <2>5 DEF StartUpdate, Steps
<1>3. CASE UndoIndex
  <2>1. DeleteRows(history.rows, RowsOfAll(UndoChunk)) \in SUBSET Row
    BY DEF DeleteRows
  <2> QED
    BY <1>3, <2>1 DEF UndoIndex, Panic, SetHistory, Steps
<1>4. CASE Plan
  <2>1. Blocks(newHeaders) \in SUBSET Block
    BY DEF Blocks
  <2> QED
    BY <1>4, <2>1 DEF Plan, ToProcess, AfterBatches, Steps
<1>5. CASE Add
  <2>1. NextBatch \in SUBSET Block
    BY DEF NextBatch
  <2> QED
    BY <1>5, <2>1 DEF Add, SetTxstore, Steps
<1>6. CASE Index
  <2>1. RowsOfAll(batch \ indexed) \in SUBSET Row
    BY RowsOfAllType
  <2>2. WriteRows(history.rows, RowsOfAll(batch \ indexed)) \in SUBSET Row
    BY <2>1 DEF WriteRows
  <2> QED
    <3>1. CASE CanIndex(batch \ indexed)
      <4>1. [done |-> history.done \cup (batch \ indexed),
             rows |-> WriteRows(history.rows, RowsOfAll(batch \ indexed))]
               \in [done : SUBSET Block, rows : SUBSET Row]
        BY <2>2
      <4> QED
        BY <1>6, <3>1, <4>1, EmptyTypes DEF Index, SetHistory, AfterBatches, Steps
    <3>2. CASE ~CanIndex(batch \ indexed)
      BY <1>6, <3>2 DEF Index, Panic, Steps
    <3> QED
      BY <3>1, <3>2
<1>7. CASE FlushTxstore
  BY <1>7 DEF FlushTxstore, Steps
<1>8. CASE FlushHistory
  BY <1>8 DEF FlushHistory, Steps
<1>9. CASE PutTip
  BY <1>9 DEF PutTip, Steps
<1>10. CASE AppendHeaders
  <2>1. headers \o newHeaders \in Seq(Block)
    OBVIOUS
  <2> QED
    BY <1>10, <2>1, EmptyTypes DEF AppendHeaders, Panic, Steps
<1>11. ASSUME NEW b \in Block, DaemonMoves(b)
       PROVE  TypeOK'
  BY <1>11 DEF DaemonMoves
<1>12. CASE MemtableFlush
  BY <1>12 DEF MemtableFlush
<1>13. CASE Crash
  BY <1>13, EmptyTypes DEF Crash, NoLocals, Steps
<1>14. CASE UNCHANGED vars
  BY <1>14 DEF vars
<1> QED
  BY <1>1, <1>2, <1>3, <1>4, <1>5, <1>6, <1>7, <1>8, <1>9, <1>10, <1>11, <1>12,
     <1>13, <1>14 DEF Next, IndexerStep

\* Every reachable state is well typed.
THEOREM TypeCorrect == Spec => []TypeOK
<1>1. ASSUME Init
      PROVE  TypeOK
  <2>1. /\ EmptyTxstore \in [done : SUBSET Block, t : Block \cup {NoBlock}]
        /\ EmptyHistory \in [done : SUBSET Block, rows : SUBSET Row]
    BY EmptyTypes DEF EmptyTxstore, EmptyHistory
  <2> QED
    BY <1>1, <2>1, EmptyTypes DEF Init, TypeOK, Steps
<1> QED
  BY <1>1, TypeStep, PTL DEF Spec

(***************************************************************************)
(* The rows served are those of the chain served.                          *)
(*                                                                         *)
(* The invariant says, while no block is orphaned, that each copy of the   *)
(* history database (in memory, on disk) holds exactly the rows of the     *)
(* blocks it marks done, that these are a chain without gaps, and how that *)
(* chain and the HeaderList relate at each step of an update.              *)
(***************************************************************************)
HistoryOK(h) ==
    /\ IsChainSet(h.done)
    /\ h.rows = RowsOfAll(h.done)

HeadersOK == headers = <<>> \/ \E b \in Block : headers = ChainOf[b]

Ending == {"flush_txstore", "flush_history", "put_tip", "append"}
InUpdate == {"undo", "plan", "add", "index"} \cup Ending

Quiet ==
    /\ HistoryOK(history) /\ HistoryOK(histdisk)
    /\ pc = "down" => history = histdisk
    /\ Up => /\ indexed = history.done
             /\ HeadersOK
             /\ Blocks(headers) \subseteq history.done
    /\ pc \in InUpdate => tip \in Block /\ headers \o newHeaders = ChainOf[tip]
    /\ pc = "undo" => /\ history.done = Blocks(headers) \cup undoing
                      /\ undoing \cap Blocks(headers) = {}
    /\ pc \in InUpdate \ {"undo"} => history.done \subseteq Ancestry(tip)
    /\ pc \in {"add", "index"} =>
          /\ Blocks(newHeaders) \ pending \subseteq history.done
          /\ pending \subseteq Blocks(newHeaders)
    /\ pc = "index" => /\ batch \subseteq pending
                       /\ \A b \in batch : Ancestry(b) \cap pending \subseteq batch
    /\ pc \in Ending => history.done = Ancestry(tip)
    /\ pc = "idle" => /\ tip \in Block
                      /\ headers = ChainOf[tip]
                      /\ history.done = Ancestry(tip)

QuietInv == orphans = {} => Quiet

LEMMA ConcatBlocks ==
    ASSUME NEW s \in Seq(Block), NEW t \in Seq(Block)
    PROVE  Blocks(s \o t) = Blocks(s) \cup Blocks(t)
<1>1. /\ s \o t \in Seq(Block)
      /\ Len(s \o t) = Len(s) + Len(t)
      /\ Len(s) \in Nat /\ Len(t) \in Nat
      /\ \A i \in 1..Len(s) : (s \o t)[i] = s[i]
      /\ \A i \in 1..Len(t) : (s \o t)[Len(s) + i] = t[i]
  OBVIOUS
<1>2. ASSUME NEW b \in Blocks(s \o t)
      PROVE  b \in Blocks(s) \cup Blocks(t)
  <2>1. PICK i \in 1..(Len(s) + Len(t)) : b = (s \o t)[i]
    BY <1>1, <1>2 DEF Blocks
  <2>2. CASE i <= Len(s)
    BY <1>1, <2>1, <2>2 DEF Blocks
  <2>3. CASE i > Len(s)
    <3>1. i - Len(s) \in 1..Len(t) /\ i = Len(s) + (i - Len(s))
      BY <1>1, <2>1, <2>3
    <3>2. b = t[i - Len(s)]
      BY <1>1, <2>1, <3>1
    <3> QED
      BY <3>1, <3>2 DEF Blocks
  <2> QED
    BY <1>1, <2>1, <2>2, <2>3
<1>3. ASSUME NEW b \in Blocks(s)
      PROVE  b \in Blocks(s \o t)
  <2>1. PICK i \in 1..Len(s) : b = s[i]
    BY <1>3 DEF Blocks
  <2>2. i \in 1..Len(s \o t) /\ (s \o t)[i] = b
    BY <1>1, <2>1
  <2> QED
    BY <2>2 DEF Blocks
<1>4. ASSUME NEW b \in Blocks(t)
      PROVE  b \in Blocks(s \o t)
  <2>1. PICK i \in 1..Len(t) : b = t[i]
    BY <1>4 DEF Blocks
  <2>2. Len(s) + i \in 1..Len(s \o t) /\ (s \o t)[Len(s) + i] = b
    BY <1>1, <2>1
  <2> QED
    BY <2>2 DEF Blocks
<1> QED
  BY <1>2, <1>3, <1>4

\* Every prefix of a chain is empty or a chain.
LEMMA PrefixIsChain ==
    ASSUME NEW b \in Block, NEW n \in 0..Len(ChainOf[b])
    PROVE  \/ SubSeq(ChainOf[b], 1, n) = <<>>
           \/ \E c \in Block : SubSeq(ChainOf[b], 1, n) = ChainOf[c]
<1>1. ChainOf[b] \in Seq(Block) /\ Len(ChainOf[b]) \in Nat
  BY ChainType
<1>2. CASE n = 0
  BY <1>1, <1>2
<1>3. CASE n > 0
  <2>1. n \in 1..Len(ChainOf[b]) /\ ChainOf[b][n] \in Block
    BY <1>1, <1>3
  <2>2. ChainOf[ChainOf[b][n]] = SubSeq(ChainOf[b], 1, n)
    BY <2>1, BlockTreeAssumption
  <2> QED
    BY <2>1, <2>2
<1> QED
  BY <1>1, <1>2, <1>3

\* Cutting a prefix off and putting the rest behind it gives the chain back.
LEMMA SplitChain ==
    ASSUME NEW s \in Seq(Block), NEW n \in 0..Len(s)
    PROVE  SubSeq(s, 1, n) \o SubSeq(s, n + 1, Len(s)) = s
<1>1. Len(s) \in Nat /\ 1 \in 1..Len(s) + 1 /\ n \in 1 - 1..Len(s) /\ Len(s) \in n..Len(s)
  OBVIOUS
<1>2. SubSeq(s, 1, n) \o SubSeq(s, n + 1, Len(s)) = SubSeq(s, 1, Len(s))
  BY <1>1, ConcatAdjacentSubSeq
<1> QED
  BY <1>2, SubSeqFull

\* Deleting the rows of some blocks of a chain leaves those of the others.
LEMMA DeleteFromChain ==
    ASSUME NEW tipb \in Block, NEW bs \in SUBSET Ancestry(tipb), NEW gone \in SUBSET bs
    PROVE  DeleteRows(RowsOfAll(bs), RowsOfAll(gone)) = RowsOfAll(bs \ gone)
<1>1. ASSUME NEW r \in RowsOfAll(bs \ gone)
      PROVE  r \in DeleteRows(RowsOfAll(bs), RowsOfAll(gone))
  <2>1. PICK b \in bs \ gone : r \in RowsOf(b)
    BY DEF RowsOfAll
  <2>2. \A c \in gone : \A s \in RowsOf(c) : ~SameKey(r, s)
    BY <2>1, KeysDistinct
  <2> QED
    BY <2>1, <2>2 DEF DeleteRows, RowsOfAll
<1>2. ASSUME NEW r \in DeleteRows(RowsOfAll(bs), RowsOfAll(gone))
      PROVE  r \in RowsOfAll(bs \ gone)
  <2>1. PICK b \in bs : r \in RowsOf(b)
    BY DEF DeleteRows, RowsOfAll
  <2>2. \A s \in RowsOfAll(gone) : ~SameKey(r, s)
    BY DEF DeleteRows
  <2>3. r \notin RowsOfAll(gone)
    BY <2>2 DEF SameKey
  <2> QED
    BY <2>1, <2>3 DEF RowsOfAll
<1> QED
  BY <1>1, <1>2

\* Writing the rows of further blocks of a chain keeps those already there.
LEMMA WriteToChain ==
    ASSUME NEW tipb \in Block, NEW bs \in SUBSET Ancestry(tipb),
           NEW new \in SUBSET Ancestry(tipb), bs \cap new = {}
    PROVE  WriteRows(RowsOfAll(bs), RowsOfAll(new)) = RowsOfAll(bs \cup new)
<1>1. ASSUME NEW r \in RowsOfAll(bs), NEW s \in RowsOfAll(new)
      PROVE  ~SameKey(r, s)
  <2>1. PICK b \in bs : r \in RowsOf(b)
    BY DEF RowsOfAll
  <2>2. PICK c \in new : s \in RowsOf(c)
    BY DEF RowsOfAll
  <2> QED
    BY <2>1, <2>2, KeysDistinct
<1> QED
  BY <1>1 DEF WriteRows, RowsOfAll

LEMMA QuietOpen ==
    ASSUME TypeOK, Quiet, Open
    PROVE  Quiet'
<1>1. CASE txdisk.t # NoBlock /\ ~HeadersFound
  BY <1>1 DEF Open, Panic, Quiet, dbs, store, update, Up, Ending, InUpdate
<1>2. CASE ~(txdisk.t # NoBlock /\ ~HeadersFound)
  <2>1. /\ pc = "down" /\ pc' = "opened"
        /\ indexed' = history'.done
        /\ UNCHANGED <<history, histdisk>>
    BY <1>2 DEF Open, dbs, Quiet
  <2>2. HeadersOK' /\ Blocks(headers)' \subseteq history'.done
    <3>1. CASE txdisk.t = NoBlock
      BY <1>2, <2>1, <3>1 DEF Open, HeadersOK, Blocks
    <3>2. CASE txdisk.t # NoBlock
      <4>1. PICK i \in 1..Len(ChainOf[txdisk.t]) :
              IsWalkBack(i) /\ headers' = SubSeq(ChainOf[txdisk.t], 1, i)
        BY <1>2, <3>2 DEF Open
      <4>2. /\ txdisk.t \in Block
            /\ ChainOf[txdisk.t] \in Seq(Block)
            /\ ChainOf[txdisk.t][i] \in histdisk.done
        BY <3>2, <4>1, ChainType DEF TypeOK, IsWalkBack, IndexedHeights
      <4>3. headers' = ChainOf[ChainOf[txdisk.t][i]]
        BY <4>1, <4>2, BlockTreeAssumption
      <4>4. Blocks(headers)' \subseteq histdisk.done
        BY <4>2, <4>3 DEF Quiet, HistoryOK, IsChainSet, Ancestry, Blocks
      <4> QED
        BY <2>1, <4>2, <4>3, <4>4 DEF HeadersOK, Quiet
    <3> QED
      BY <3>1, <3>2
  <2> QED
    BY <2>1, <2>2 DEF Quiet, Up, Ending, InUpdate, HistoryOK
<1> QED
  BY <1>1, <1>2

\* The fork point cuts the HeaderList and the daemon's chain alike.
LEMMA ForkCut ==
    ASSUME TypeOK, NEW n \in 0..Len(ChainOf[bestblock]), IsForkLen(n), HeadersOK
    PROVE  /\ n <= Len(headers)
           /\ SubSeq(headers, 1, n) = SubSeq(ChainOf[bestblock], 1, n)
<1>1. /\ bestblock \in Block /\ headers \in Seq(Block)
      /\ ChainOf[bestblock] \in Seq(Block)
  BY ChainType DEF TypeOK
<1>2. CASE n = 0
  BY <1>1, <1>2, SubSeqEmpty
<1>3. CASE n > 0
  <2>1. n <= Len(headers) /\ headers[n] = ChainOf[bestblock][n]
    BY <1>3 DEF IsForkLen
  <2>2. n \in 1..Len(headers) /\ n \in 1..Len(ChainOf[bestblock])
    BY <1>1, <1>3, <2>1
  <2>3. PICK b \in Block : headers = ChainOf[b]
    BY <1>1, <2>2 DEF HeadersOK
  <2>4. ChainOf[headers[n]] = SubSeq(headers, 1, n)
    BY <2>2, <2>3, BlockTreeAssumption
  <2>5. ChainOf[ChainOf[bestblock][n]] = SubSeq(ChainOf[bestblock], 1, n)
    BY <1>1, <2>2, BlockTreeAssumption
  <2> QED
    BY <2>1, <2>4, <2>5
<1> QED
  BY <1>2, <1>3

LEMMA QuietStartUpdate ==
    ASSUME TypeOK, Quiet, StartUpdate, orphans' = {}
    PROVE  Quiet'
<1>1. PICK n \in 0..Len(ChainOf[bestblock]) :
        /\ IsForkLen(n)
        /\ tip' = bestblock
        /\ newHeaders' = SubSeq(ChainOf[bestblock], n + 1, Len(ChainOf[bestblock]))
        /\ headers' = SubSeq(headers, 1, n)
        /\ undoing' = {headers[i] : i \in (n + 1)..Len(headers)}
        /\ pc' = IF n < Len(headers) THEN "undo" ELSE "plan"
  BY DEF StartUpdate
<1>2. /\ pc \in {"opened", "idle"}
      /\ UNCHANGED <<history, histdisk, indexed>>
      /\ indexed \subseteq Blocks(headers) \cup Ancestry(bestblock)
  BY DEF StartUpdate, dbs, Ancestry
<1>3. /\ indexed = history.done /\ HeadersOK /\ Blocks(headers) \subseteq history.done
      /\ IsChainSet(history.done)
  BY <1>2 DEF Quiet, Up, HistoryOK
<1>4. /\ bestblock \in Block /\ ChainOf[bestblock] \in Seq(Block)
      /\ headers \in Seq(Block)
  BY ChainType DEF TypeOK
<1>5. /\ n <= Len(headers)
      /\ headers' = SubSeq(ChainOf[bestblock], 1, n)
  BY <1>1, <1>3, ForkCut
<1>6. tip' \in Block /\ headers' \o newHeaders' = ChainOf[tip']
  BY <1>1, <1>4, <1>5, SplitChain
<1>7. HeadersOK'
  BY <1>4, <1>5, PrefixIsChain DEF HeadersOK
<1>8. /\ Blocks(headers)' = {headers[i] : i \in 1..n}
      /\ Blocks(headers) = Blocks(headers)' \cup undoing'
  <2>1. Len(headers') = n /\ \A i \in 1..n : headers'[i] = headers[i]
    BY <1>1, <1>4, <1>5
  <2>2. Blocks(headers)' = {headers[i] : i \in 1..n}
    BY <2>1 DEF Blocks
  <2>3. \A i \in 1..Len(headers) : i \in 1..n \/ i \in (n + 1)..Len(headers)
    BY <1>4, <1>5
  <2>4. \A i \in 1..n : i \in 1..Len(headers)
    BY <1>4, <1>5
  <2>5. \A i \in (n + 1)..Len(headers) : i \in 1..Len(headers)
    BY <1>4, <1>5
  <2> QED
    BY <1>1, <2>2, <2>3, <2>4, <2>5 DEF Blocks
<1>9. CASE n < Len(headers)
  <2>1. /\ n + 1 \in 1..Len(headers)
        /\ headers[n + 1] \in Block
        /\ headers[n + 1] \in Blocks(headers)
    BY <1>4, <1>9 DEF Blocks
  <2>2. PICK x \in Block : headers = ChainOf[x]
    BY <1>3, <1>4, <1>9 DEF HeadersOK
  <2>3. \A i \in 1..Len(headers) : Len(ChainOf[headers[i]]) = i
    <3> SUFFICES ASSUME NEW i \in 1..Len(headers)
                 PROVE  Len(ChainOf[headers[i]]) = i
      OBVIOUS
    <3>1. ChainOf[headers[i]] = SubSeq(headers, 1, i)
      BY <2>2, BlockTreeAssumption
    <3> QED
      BY <1>4, <3>1
  <2>4. headers[n + 1] \notin Ancestry(bestblock)
    <3>1. SUFFICES ASSUME headers[n + 1] \in Ancestry(bestblock)
                   PROVE  FALSE
      OBVIOUS
    <3>2. /\ n + 1 \in 1..Len(ChainOf[bestblock])
          /\ ChainOf[bestblock][n + 1] = headers[n + 1]
      BY <1>4, <2>1, <2>3, <3>1, ChainMember
    <3> QED
      BY <1>1, <2>1, <3>2 DEF IsForkLen
  <2>5. history.done \subseteq Blocks(headers)
    <3>1. SUFFICES ASSUME NEW u \in history.done, u \notin Blocks(headers)
                   PROVE  FALSE
      OBVIOUS
    <3>2. u \in Ancestry(bestblock)
      BY <1>2, <1>3, <3>1
    <3>3. PICK y \in Block : history.done \subseteq Ancestry(y)
      BY <1>3 DEF IsChainSet
    <3>4. u \in Ancestry(y) /\ headers[n + 1] \in Ancestry(y)
      BY <1>3, <2>1, <3>1, <3>3
    <3>5. u \in Block /\ Len(ChainOf[u]) \in Nat /\ Len(ChainOf[headers[n + 1]]) \in Nat
      BY <2>1, <3>3, <3>4, ChainMember, ChainType
    <3>6. x \in Ancestry(y) /\ Len(ChainOf[x]) \in Nat
      BY <1>3, <2>2, <3>3, ChainType DEF Ancestry
    <3>7. CASE Len(ChainOf[u]) <= Len(ChainOf[x])
      BY <2>2, <3>1, <3>3, <3>4, <3>6, <3>7, AncestryComparable DEF Ancestry
    <3>8. CASE Len(ChainOf[x]) <= Len(ChainOf[u])
      <4>1. x \in Ancestry(u)
        BY <3>3, <3>4, <3>6, <3>8, AncestryComparable
      <4>2. Ancestry(x) \subseteq Ancestry(bestblock)
        BY <1>4, <3>2, <3>5, <4>1, AncestryTransitive
      <4> QED
        BY <2>1, <2>2, <2>4, <4>2 DEF Ancestry
    <3> QED
      BY <3>5, <3>6, <3>7, <3>8
  <2>6. undoing' \cap Blocks(headers)' = {}
    <3>1. SUFFICES ASSUME NEW i \in 1..n, NEW j \in (n + 1)..Len(headers),
                          headers[i] = headers[j]
                   PROVE  FALSE
      BY <1>1, <1>8
    <3>2. i \in 1..Len(headers) /\ j \in 1..Len(headers) /\ i # j
      BY <1>4, <1>5
    <3> QED
      BY <2>3, <3>1, <3>2
  <2>7. history.done = Blocks(headers)' \cup undoing'
    BY <1>3, <1>8, <2>5
  <2>8. pc' = "undo"
    BY <1>1, <1>9
  <2> QED
    BY <1>2, <1>3, <1>6, <1>7, <1>8, <2>6, <2>7, <2>8
    DEF Quiet, Up, Ending, InUpdate, HistoryOK
<1>10. CASE ~(n < Len(headers))
  <2>1. headers' = headers /\ pc' = "plan"
    BY <1>1, <1>4, <1>5, <1>10, SubSeqFull
  <2>2. Blocks(headers) \subseteq Ancestry(bestblock)
    BY <1>1, <1>4, <1>5, <1>8, <1>10, <2>1 DEF Ancestry, Blocks
  <2>3. history.done \subseteq Ancestry(tip')
    BY <1>1, <1>2, <1>3, <2>2
  <2> QED
    BY <1>2, <1>3, <1>6, <1>7, <2>1, <2>3 DEF Quiet, Up, Ending, InUpdate, HistoryOK
<1> QED
  BY <1>9, <1>10

\* The two halves of the chain an update works towards.
LEMMA TipBlocks ==
    ASSUME TypeOK, Quiet, pc \in InUpdate
    PROVE  /\ tip \in Block
           /\ Blocks(headers) \cup Blocks(newHeaders) = Ancestry(tip)
BY ConcatBlocks DEF TypeOK, Quiet, Ancestry

LEMMA HeadersClosed ==
    ASSUME HeadersOK, NEW b \in Blocks(headers)
    PROVE  Ancestry(b) \subseteq Blocks(headers)
<1>1. PICK x \in Block : headers = ChainOf[x]
  BY DEF HeadersOK, Blocks
<1> QED
  BY <1>1, AncestryTransitive DEF Ancestry

\* Of a finite set of blocks, fewer are above a block than above a lower one.
LEMMA FewerAbove ==
    ASSUME NEW bs \in SUBSET Block, NEW b \in Block, NEW c \in Block,
           Height(c) <= Height(b)
    PROVE  /\ Cardinality({d \in bs : Height(d) > Height(b)})
                <= Cardinality({d \in bs : Height(d) > Height(c)})
           /\ Cardinality({d \in bs : Height(d) > Height(b)}) \in Nat
           /\ Cardinality({d \in bs : Height(d) > Height(c)}) \in Nat
           /\ Cardinality({d \in bs : Height(d) < Height(c)})
                <= Cardinality({d \in bs : Height(d) < Height(b)})
           /\ Cardinality({d \in bs : Height(d) < Height(b)}) \in Nat
           /\ Cardinality({d \in bs : Height(d) < Height(c)}) \in Nat
<1>1. IsFiniteSet(bs)
  BY BlockTreeAssumption, FS_Subset
<1>2. \A d \in Block : Height(d) \in Nat
  BY ChainType DEF Height
<1>3. /\ IsFiniteSet({d \in bs : Height(d) > Height(c)})
      /\ IsFiniteSet({d \in bs : Height(d) > Height(b)})
      /\ IsFiniteSet({d \in bs : Height(d) < Height(c)})
      /\ IsFiniteSet({d \in bs : Height(d) < Height(b)})
  BY <1>1, FS_Subset
<1>4. /\ {d \in bs : Height(d) > Height(b)} \subseteq {d \in bs : Height(d) > Height(c)}
      /\ {d \in bs : Height(d) < Height(c)} \subseteq {d \in bs : Height(d) < Height(b)}
  BY <1>2
<1> QED
  BY <1>3, <1>4, FS_Subset, FS_CardinalityType

LEMMA QuietUndoIndex ==
    ASSUME TypeOK, Quiet, UndoIndex
    PROVE  Quiet'
<1>1. CASE ~CanIndex(UndoChunk)
  BY <1>1 DEF UndoIndex, Panic, Quiet, dbs, store, update, Up, Ending, InUpdate, HistoryOK
<1>2. CASE CanIndex(UndoChunk)
  <2> DEFINE left == history.done \ UndoChunk
  <2>1. /\ pc = "undo" /\ pc \in InUpdate /\ Up
        /\ UndoChunk \subseteq undoing
        /\ undoing \subseteq Block
    BY DEF UndoIndex, UndoChunk, InUpdate, Up, TypeOK
  <2>2. /\ history.done = Blocks(headers) \cup undoing
        /\ undoing \cap Blocks(headers) = {}
        /\ indexed = history.done
        /\ HeadersOK
        /\ IsChainSet(history.done)
        /\ history.rows = RowsOfAll(history.done)
    BY <2>1 DEF Quiet, HistoryOK
  <2>3. /\ history' = [done |-> left,
                       rows |-> DeleteRows(history.rows, RowsOfAll(UndoChunk))]
        /\ histdisk' \in {histdisk, history'}
        /\ indexed' = left
        /\ undoing' = undoing \ UndoChunk
        /\ pc' = IF undoing' = {} THEN "plan" ELSE "undo"
        /\ UNCHANGED <<headers, tip, newHeaders>>
    BY <1>2, <2>2 DEF UndoIndex, SetHistory
  <2>4. PICK y \in Block : history.done \subseteq Ancestry(y)
    BY <2>2 DEF IsChainSet
  <2>5. IsChainSet(left)
    <3>1. SUFFICES ASSUME NEW b \in left, NEW c \in Ancestry(b), c \in UndoChunk
                   PROVE  FALSE
      BY <2>2, <2>4 DEF IsChainSet
    <3>2. b \in Block /\ c \in undoing /\ c \notin Blocks(headers)
      BY <2>1, <2>2, <2>4, <3>1, ChainMember
    <3>3. b \in undoing
      BY <2>2, <3>1, <3>2, HeadersClosed
    <3>4. c \in Block /\ Height(c) <= Height(b)
      <4>1. c \in Block /\ Len(ChainOf[c]) <= Len(ChainOf[b])
        BY <3>2, AncestorIsLower, ChainMember
      <4>2. Len(ChainOf[c]) \in Nat /\ Len(ChainOf[b]) \in Nat
        BY <3>2, <4>1, ChainType
      <4> QED
        BY <4>1, <4>2 DEF Height
    <3>5. b \in UndoChunk
      <4>1. Cardinality({d \in undoing : Height(d) > Height(c)}) < BatchSize
        BY <3>1 DEF UndoChunk
      <4>2. /\ Cardinality({d \in undoing : Height(d) > Height(b)})
                 <= Cardinality({d \in undoing : Height(d) > Height(c)})
            /\ Cardinality({d \in undoing : Height(d) > Height(b)}) \in Nat
            /\ Cardinality({d \in undoing : Height(d) > Height(c)}) \in Nat
        BY <2>1, <3>2, <3>4, FewerAbove
      <4>3. Cardinality({d \in undoing : Height(d) > Height(b)}) < BatchSize
        BY <4>1, <4>2, IndexerAssumption
      <4> QED
        BY <3>3, <4>3 DEF UndoChunk
    <3> QED
      BY <3>1, <3>5
  <2>6. history'.done = left /\ history'.rows = RowsOfAll(left)
    BY <2>1, <2>2, <2>3, <2>4, DeleteFromChain
  <2>7. HistoryOK(history)' /\ HistoryOK(histdisk)'
    BY <2>3, <2>5, <2>6 DEF HistoryOK, Quiet
  <2>8. left = Blocks(headers) \cup undoing'
    BY <2>1, <2>2, <2>3
  <2>9. tip \in Block /\ headers \o newHeaders = ChainOf[tip]
        /\ Blocks(headers) \subseteq Ancestry(tip)
    BY <2>1, TipBlocks DEF Quiet
  <2>10. HeadersOK' /\ Blocks(headers)' = Blocks(headers)
    BY <2>2, <2>3 DEF HeadersOK, Blocks
  <2> QED
    BY <2>2, <2>3, <2>6, <2>7, <2>8, <2>9, <2>10 DEF Quiet, Up, Ending, InUpdate
<1> QED
  BY <1>1, <1>2

LEMMA QuietPlan ==
    ASSUME TypeOK, Quiet, Plan
    PROVE  Quiet'
<1>1. /\ pc = "plan" /\ pc \in InUpdate /\ Up
      /\ pc' \in {"add", "flush_txstore", "put_tip"}
      /\ pending' = ToProcess
      /\ pending' = {} \/ pc' = "add"
      /\ UNCHANGED <<history, histdisk, indexed, headers, tip, newHeaders>>
  BY DEF Plan, AfterBatches, InUpdate, Up, dbs, store
<1>2. /\ Blocks(newHeaders) \ ToProcess \subseteq history.done
      /\ ToProcess \subseteq Blocks(newHeaders)
  BY <1>1 DEF ToProcess, Quiet
<1>3. Blocks(headers) \cup Blocks(newHeaders) = Ancestry(tip)
  BY <1>1, TipBlocks
<1>4. pending' = {} => history.done = Ancestry(tip)
  BY <1>1, <1>2, <1>3 DEF Quiet
<1>5. HeadersOK' = HeadersOK /\ HistoryOK(history)' /\ HistoryOK(histdisk)'
  BY <1>1 DEF HeadersOK, HistoryOK, Quiet
<1>6. Blocks(headers)' = Blocks(headers) /\ Blocks(newHeaders)' = Blocks(newHeaders)
  BY <1>1 DEF Blocks
<1> QED
  BY <1>1, <1>2, <1>3, <1>4, <1>5, <1>6 DEF Quiet, Up, Ending, InUpdate

\* The blk*.dat files hold no block before its parent.
FilesInChainOrder == \A b \in Block : \A c \in Ancestry(b) : BlkFile[c] <= BlkFile[b]

\* A batch holds every block still wanted below the blocks it holds.
LEMMA BatchIsClosed ==
    ASSUME TypeOK, FilesInChainOrder
    PROVE  \A b \in NextBatch : Ancestry(b) \cap pending \subseteq NextBatch
<1> SUFFICES ASSUME NEW b \in NextBatch, NEW c \in Ancestry(b), c \in pending
             PROVE  c \in NextBatch
  OBVIOUS
<1>1. b \in pending /\ pending \subseteq Block
  BY DEF NextBatch, TypeOK
<1>2. CASE blkFiles
  <2>1. BlkFile[c] <= BlkFile[b]
    BY <1>1 DEF FilesInChainOrder
  <2>2. \A d \in pending : BlkFile[b] <= BlkFile[d]
    BY <1>2 DEF NextBatch
  <2>3. \A d \in Block : BlkFile[d] \in Nat
    BY IndexerAssumption
  <2>4. \A d \in pending : BlkFile[c] <= BlkFile[d]
    BY <1>1, <2>1, <2>2, <2>3
  <2> QED
    BY <1>2, <2>4 DEF NextBatch
<1>3. CASE ~blkFiles
  <2>1. Cardinality({d \in pending : Height(d) < Height(b)}) < BatchSize
    BY <1>3 DEF NextBatch
  <2>2. Height(c) <= Height(b)
    BY <1>1, AncestorIsLower, ChainType DEF Height
  <2>3. /\ Cardinality({d \in pending : Height(d) < Height(c)})
             <= Cardinality({d \in pending : Height(d) < Height(b)})
        /\ Cardinality({d \in pending : Height(d) < Height(c)}) \in Nat
        /\ Cardinality({d \in pending : Height(d) < Height(b)}) \in Nat
    BY <1>1, <2>2, FewerAbove
  <2>4. Cardinality({d \in pending : Height(d) < Height(c)}) < BatchSize
    BY <2>1, <2>3, IndexerAssumption
  <2> QED
    BY <1>3, <2>4 DEF NextBatch
<1> QED
  BY <1>2, <1>3

LEMMA QuietAdd ==
    ASSUME TypeOK, FilesInChainOrder, Quiet, Add
    PROVE  Quiet'
<1>1. /\ pc = "add" /\ pc \in InUpdate /\ Up /\ pc' = "index"
      /\ batch' = NextBatch
      /\ UNCHANGED <<history, histdisk, indexed, headers, tip, newHeaders, pending>>
  BY DEF Add, InUpdate, Up
<1>2. NextBatch \subseteq pending
  BY DEF NextBatch
<1>3. \A b \in NextBatch : Ancestry(b) \cap pending \subseteq NextBatch
  BY BatchIsClosed
<1>4. HeadersOK' = HeadersOK /\ HistoryOK(history)' /\ HistoryOK(histdisk)'
  BY <1>1 DEF HeadersOK, HistoryOK, Quiet
<1>5. Blocks(headers)' = Blocks(headers) /\ Blocks(newHeaders)' = Blocks(newHeaders)
  BY <1>1 DEF Blocks
<1> QED
  BY <1>1, <1>2, <1>3, <1>4, <1>5 DEF Quiet, Up, Ending, InUpdate

LEMMA QuietIndex ==
    ASSUME TypeOK, Quiet, Index
    PROVE  Quiet'
<1> DEFINE new == batch \ indexed
           all == history.done \cup new
<1>1. CASE ~CanIndex(new)
  BY <1>1 DEF Index, Panic, Quiet, dbs, store, update, Up, Ending, InUpdate, HistoryOK
<1>2. CASE CanIndex(new)
  <2>1. /\ pc = "index" /\ pc \in InUpdate /\ Up
        /\ history' = [done |-> all,
                       rows |-> WriteRows(history.rows, RowsOfAll(new))]
        /\ histdisk' \in {histdisk, history'}
        /\ indexed' = indexed \cup new
        /\ pending' = pending \ batch
        /\ pc' \in {"add", "flush_txstore", "put_tip"}
        /\ pending' = {} \/ pc' = "add"
        /\ UNCHANGED <<headers, tip, newHeaders>>
    BY <1>2 DEF Index, SetHistory, AfterBatches, InUpdate, Up
  <2>2. /\ tip \in Block
        /\ Blocks(headers) \cup Blocks(newHeaders) = Ancestry(tip)
        /\ headers \o newHeaders = ChainOf[tip]
    BY <2>1, TipBlocks DEF Quiet
  <2>3. /\ indexed = history.done
        /\ history.done \subseteq Ancestry(tip)
        /\ Blocks(headers) \subseteq history.done
        /\ Blocks(newHeaders) \ pending \subseteq history.done
        /\ batch \subseteq pending /\ pending \subseteq Blocks(newHeaders)
        /\ \A b \in batch : Ancestry(b) \cap pending \subseteq batch
        /\ HeadersOK
        /\ IsChainSet(history.done)
        /\ history.rows = RowsOfAll(history.done)
    BY <2>1 DEF Quiet, HistoryOK, InUpdate
  <2>4. all \subseteq Ancestry(tip) /\ new \subseteq Ancestry(tip)
    BY <2>2, <2>3
  <2>5. IsChainSet(all)
    <3>1. SUFFICES ASSUME NEW b \in all, NEW c \in Ancestry(b)
                   PROVE  c \in all
      BY <2>2, <2>4 DEF IsChainSet
    <3>2. CASE b \in history.done
      BY <2>3, <3>2 DEF IsChainSet
    <3>3. CASE b \in new
      <4>1. c \in Ancestry(tip)
        BY <2>2, <2>4, <3>3, AncestryTransitive
      <4> QED
        BY <2>2, <2>3, <3>3, <4>1
    <3> QED
      BY <3>2, <3>3
  <2>6. history'.done = all /\ history'.rows = RowsOfAll(all)
    BY <2>1, <2>2, <2>3, <2>4, WriteToChain
  <2>7. HistoryOK(history)' /\ HistoryOK(histdisk)'
    BY <2>1, <2>5, <2>6 DEF HistoryOK, Quiet
  <2>8. /\ Blocks(newHeaders) \ pending' \subseteq all
        /\ pending' \subseteq Blocks(newHeaders)
    BY <2>1, <2>3
  <2>9. pending' = {} => all = Ancestry(tip)
    BY <2>2, <2>3, <2>4, <2>8
  <2>10. HeadersOK' /\ Blocks(headers)' = Blocks(headers)
         /\ Blocks(newHeaders)' = Blocks(newHeaders)
    BY <2>1, <2>3 DEF HeadersOK, Blocks
  <2> QED
    BY <2>1, <2>2, <2>3, <2>4, <2>6, <2>7, <2>8, <2>9, <2>10
    DEF Quiet, Up, Ending, InUpdate
<1> QED
  BY <1>1, <1>2

LEMMA QuietEnding ==
    ASSUME TypeOK, Quiet, FlushTxstore \/ FlushHistory \/ PutTip
    PROVE  Quiet'
<1>1. /\ pc \in Ending /\ pc \in InUpdate /\ Up
      /\ pc' \in Ending
      /\ histdisk' \in {histdisk, history}
      /\ UNCHANGED <<history, indexed, headers, tip, newHeaders>>
  BY DEF FlushTxstore, FlushHistory, PutTip, store, update, Ending, InUpdate, Up
<1>2. HeadersOK' = HeadersOK /\ HistoryOK(history)' /\ HistoryOK(histdisk)'
      /\ Blocks(headers)' = Blocks(headers)
  BY <1>1 DEF HeadersOK, HistoryOK, Quiet, Blocks
<1> QED
  BY <1>1, <1>2 DEF Quiet, Up, Ending, InUpdate

LEMMA QuietAppendHeaders ==
    ASSUME TypeOK, Quiet, AppendHeaders
    PROVE  Quiet'
<1>1. /\ pc = "append" /\ pc \in InUpdate /\ pc \in Ending /\ Up
      /\ headers \o newHeaders = ChainOf[tip] /\ tip \in Block
      /\ history.done = Ancestry(tip)
  BY DEF AppendHeaders, Quiet, Ending, InUpdate, Up
<1>2. CASE pc' = "panicked"
  BY <1>1, <1>2 DEF AppendHeaders, Panic, Quiet, dbs, store, update, Up, Ending,
     InUpdate, HistoryOK
<1>3. CASE pc' = "idle"
  <2>1. /\ headers' = ChainOf[tip]
        /\ UNCHANGED <<history, histdisk, indexed, tip>>
    BY <1>1, <1>3 DEF AppendHeaders, Panic, dbs
  <2>2. HeadersOK' /\ Blocks(headers)' = Ancestry(tip)
    BY <1>1, <2>1 DEF HeadersOK, Ancestry, Blocks
  <2>3. HistoryOK(history)' /\ HistoryOK(histdisk)'
    BY <2>1 DEF HistoryOK, Quiet
  <2> QED
    BY <1>1, <1>3, <2>1, <2>2, <2>3 DEF Quiet, Up, Ending, InUpdate
<1> QED
  BY <1>2, <1>3 DEF AppendHeaders, Panic

LEMMA QuietEnvironment ==
    ASSUME TypeOK, Quiet,
           \/ \E b \in Block : DaemonMoves(b)
           \/ MemtableFlush
           \/ Crash
           \/ UNCHANGED vars
    PROVE  Quiet'
<1>1. CASE Crash
  <2>1. pc' = "down" /\ history' = histdisk /\ UNCHANGED histdisk
    BY <1>1 DEF Crash
  <2> QED
    BY <2>1 DEF Quiet, HistoryOK, Up, Ending, InUpdate
<1>2. CASE ~Crash
  <2>1. /\ UNCHANGED <<history, indexed, headers, tip, newHeaders, undoing, pending,
                       batch, pc>>
        /\ histdisk' \in {histdisk, history}
        /\ pc = "down" => UNCHANGED histdisk
    BY <1>2 DEF DaemonMoves, MemtableFlush, vars, dbs, store, update, Up
  <2>2. HeadersOK' = HeadersOK /\ HistoryOK(history)' /\ HistoryOK(histdisk)'
        /\ Blocks(headers)' = Blocks(headers) /\ Blocks(newHeaders)' = Blocks(newHeaders)
    BY <2>1 DEF HeadersOK, HistoryOK, Quiet, Blocks
  <2> QED
    BY <2>1, <2>2 DEF Quiet, Up, Ending, InUpdate
<1> QED
  BY <1>1, <1>2

LEMMA QuietInit == Init => Quiet
<1> SUFFICES ASSUME Init
             PROVE  Quiet
  OBVIOUS
<1>1. RowsOfAll({}) = {}
  BY DEF RowsOfAll
<1>2. HistoryOK(history) /\ HistoryOK(histdisk)
  BY <1>1 DEF Init, EmptyHistory, HistoryOK, IsChainSet
<1> QED
  BY <1>2 DEF Init, Quiet, Up, Ending, InUpdate

LEMMA QuietStep ==
    ASSUME FilesInChainOrder, TypeOK, QuietInv, [Next]_vars
    PROVE  QuietInv'
<1>1. orphans \subseteq orphans'
  BY DEF Next, IndexerStep, Open, StartUpdate, UndoIndex, Plan, Add, Index, FlushTxstore,
     FlushHistory, PutTip, AppendHeaders, Panic, DaemonMoves, MemtableFlush, Crash, vars
<1>2. SUFFICES ASSUME orphans' = {}
               PROVE  Quiet'
  BY DEF QuietInv
<1>3. Quiet
  BY <1>1, <1>2 DEF QuietInv
<1> QED
  BY <1>2, <1>3, QuietOpen, QuietStartUpdate, QuietUndoIndex, QuietPlan, QuietAdd,
     QuietIndex, QuietEnding, QuietAppendHeaders, QuietEnvironment DEF Next, IndexerStep

\* With the rows of a gapless chain stored, those below the end of the
\* HeaderList are the rows of the blocks in the HeaderList.
RowsBelow(h, n) == {r \in h.rows : r.height < n}

LEMMA RowsOfHeaders ==
    ASSUME TypeOK, HeadersOK, NEW h, HistoryOK(h), Blocks(headers) \subseteq h.done
    PROVE  RowsBelow(h, Len(headers)) = RowsOfAll(Blocks(headers))
<1>1. IsChainSet(h.done) /\ h.rows = RowsOfAll(h.done) /\ headers \in Seq(Block)
  BY DEF HistoryOK, TypeOK
<1>2. ASSUME NEW r \in RowsOfAll(Blocks(headers))
      PROVE  r \in RowsBelow(h, Len(headers))
  <2>1. PICK b \in Blocks(headers) : r \in RowsOf(b)
    BY DEF RowsOfAll
  <2>2. PICK x \in Block : headers = ChainOf[x]
    BY <1>1, <2>1 DEF HeadersOK, Blocks
  <2>3. b \in Block /\ Len(ChainOf[b]) \in 1..Len(headers)
    BY <2>1, <2>2, ChainMember DEF Ancestry
  <2>4. r.height = Len(ChainOf[b]) - 1
    BY <2>1, <2>3, RowsType
  <2> QED
    BY <1>1, <2>1, <2>3, <2>4 DEF RowsBelow, RowsOfAll
<1>3. ASSUME NEW r \in RowsBelow(h, Len(headers))
      PROVE  r \in RowsOfAll(Blocks(headers))
  <2>1. PICK b \in h.done : r \in RowsOf(b)
    BY <1>1 DEF RowsBelow, RowsOfAll
  <2>2. PICK y \in Block : h.done \subseteq Ancestry(y)
    BY <1>1 DEF IsChainSet
  <2>3. b \in Block /\ Len(ChainOf[b]) \in Nat \ {0}
    BY <2>1, <2>2, ChainMember, ChainType
  <2>4. r.height < Len(headers) /\ r.height = Len(ChainOf[b]) - 1
    BY <2>1, <2>3, RowsType DEF RowsBelow
  <2>5. PICK x \in Block : headers = ChainOf[x]
    BY <1>1, <2>3, <2>4 DEF HeadersOK
  <2>6. x \in Ancestry(y) /\ Len(ChainOf[x]) \in Nat
    BY <1>1, <2>2, <2>5, ChainType DEF Ancestry
  <2>7. b \in Ancestry(x)
    BY <2>1, <2>2, <2>3, <2>4, <2>5, <2>6, AncestryComparable
  <2> QED
    BY <2>1, <2>5, <2>7 DEF Ancestry, RowsOfAll
<1> QED
  BY <1>2, <1>3

LEMMA QuietServes == TypeOK /\ Quiet => ServesItsChain
<1> SUFFICES ASSUME TypeOK, Quiet, Up
             PROVE  VisibleRows = RowsOfAll(Blocks(headers))
  BY DEF ServesItsChain
<1>1. VisibleRows = RowsBelow(history, Len(headers))
  BY DEF VisibleRows, RowsBelow
<1> QED
  BY <1>1, RowsOfHeaders DEF Quiet

\* At every step of an update, after every reorganisation and every crash, a
\* reader sees exactly the rows of the blocks in the HeaderList, unless a block
\* was orphaned: for every block tree, batch size and moment of the crashes.
THEOREM ServesCorrectRows ==
    FilesInChainOrder => (Spec => []ServesItsChainUnlessOrphans)
<1> SUFFICES ASSUME FilesInChainOrder
             PROVE  Spec => []ServesItsChainUnlessOrphans
  OBVIOUS
<1>1. Init => QuietInv
  BY QuietInit DEF QuietInv
<1>2. QuietInv /\ TypeOK /\ [Next]_vars => QuietInv'
  BY QuietStep
<1>3. QuietInv /\ TypeOK => ServesItsChainUnlessOrphans
  BY QuietServes DEF QuietInv, ServesItsChainUnlessOrphans
<1> QED
  BY <1>1, <1>2, <1>3, TypeCorrect, PTL DEF Spec

(***************************************************************************)
(* No assertion of the indexer fails, and the tip row is durable.          *)
(*                                                                         *)
(* These hold whether or not a block was orphaned, because they only need  *)
(* that blocks are added after their ancestors, and that what an update    *)
(* keeps, and the genesis block, stay indexed.                             *)
(***************************************************************************)
IsClosed(bs) == \A b \in bs : Ancestry(b) \subseteq bs

\* What is indexed of the chain of the tip row has no gaps.
TipClosed(bs) == \A b \in bs \cap Ancestry(txdisk.t) : Ancestry(b) \subseteq bs

Root(b) == ChainOf[b][1]

Both == txstore.done \cap history.done

StoreInv ==
    /\ pc # "panicked"
    /\ IsClosed(txstore.done) /\ IsClosed(txdisk.done)
    /\ txdisk.done \subseteq txstore.done /\ txdisk.t = txstore.t
    /\ txdisk.t # NoBlock => /\ Ancestry(txdisk.t) \subseteq txdisk.done
                             /\ Root(txdisk.t) \in histdisk.done \cap history.done
                             /\ TipClosed(histdisk.done) /\ TipClosed(history.done)
    /\ pc = "down" => txstore = txdisk /\ history = histdisk
    /\ Up => /\ added = txstore.done /\ indexed = history.done
             /\ HeadersOK
             /\ Blocks(headers) \subseteq Both
             /\ ~walDisabled => txdisk = txstore /\ histdisk = history
    /\ pc = "opened" /\ txdisk.t # NoBlock =>
          history.done \cap Ancestry(txdisk.t) \subseteq Blocks(headers)
    /\ pc \in InUpdate => tip \in Block /\ headers \o newHeaders = ChainOf[tip]
    /\ pc = "undo" =>
          /\ undoing \subseteq txstore.done
          /\ undoing \cap Blocks(headers) = {}
          /\ headers # <<>>
          /\ txdisk.t # NoBlock =>
                history.done \cap Ancestry(txdisk.t) \subseteq Blocks(headers) \cup undoing
    /\ pc \in {"add", "index"} => /\ Blocks(newHeaders) \ pending \subseteq Both
                                  /\ pending \subseteq Blocks(newHeaders)
    /\ pc = "index" => /\ batch \subseteq txstore.done /\ batch \subseteq pending
                       /\ \A b \in batch : Ancestry(b) \cap pending \subseteq batch
    /\ pc \in Ending => Ancestry(tip) \subseteq Both
    /\ pc \in {"flush_txstore", "flush_history"} => walDisabled
    /\ pc = "flush_history" => txdisk = txstore
    /\ pc \in {"put_tip", "append", "idle"} => ~walDisabled
    /\ pc \in {"append", "idle"} => txdisk.t = tip
    /\ pc = "idle" => tip \in Block /\ headers = ChainOf[tip]

\* The previous outputs of blocks that are added are found.
LEMMA AddedCanIndex ==
    ASSUME TypeOK, IsClosed(txstore.done), added = txstore.done,
           NEW bs \in SUBSET txstore.done
    PROVE  CanIndex(bs)
<1>1. ASSUME NEW b \in bs
      PROVE  PrevoutsIn(b) \subseteq UNION {OutputsIn(c) : c \in txstore.done}
  <2>1. b \in Block /\ Ancestry(b) \subseteq txstore.done
    BY <1>1 DEF IsClosed, TypeOK
  <2>2. PrevoutsIn(b) \subseteq UNION {OutputsIn(c) : c \in Ancestry(b)}
    BY <2>1, FundedAssumption DEF Ancestry
  <2> QED
    BY <2>1, <2>2
<1> QED
  BY <1>1 DEF CanIndex, PrevoutsFound

\* The tip row leads back to an indexed block, whose headers are stored.
LEMMA TipRowFound ==
    ASSUME TypeOK, StoreInv, txdisk.t # NoBlock
    PROVE  HeadersFound
<1>1. txdisk.t \in Block
  BY DEF TypeOK
<1>2. Len(ChainOf[txdisk.t]) \in Nat \ {0}
  BY <1>1, ChainType
<1>3. 1 \in IndexedHeights(txdisk.t, histdisk.done)
  BY <1>2 DEF StoreInv, Root, IndexedHeights
<1>4. IndexedHeights(txdisk.t, histdisk.done) \in SUBSET (1..Len(ChainOf[txdisk.t]))
  BY DEF IndexedHeights
<1>5. \E i \in IndexedHeights(txdisk.t, histdisk.done) : IsWalkBack(i)
  BY <1>2, <1>3, <1>4, HasLargest DEF IsWalkBack
<1> QED
  BY <1>4, <1>5 DEF HeadersFound, StoreInv, Ancestry

LEMMA StoreOpen ==
    ASSUME TypeOK, StoreInv, Open
    PROVE  StoreInv'
<1>1. pc = "down" /\ txstore = txdisk /\ history = histdisk
  BY DEF Open, StoreInv
<1>2. ASSUME txdisk.t # NoBlock
      PROVE  HeadersFound
  BY <1>2, TipRowFound
<1>3. /\ pc' = "opened"
      /\ added' = txdisk.done /\ indexed' = histdisk.done
      /\ walDisabled' = TRUE
      /\ UNCHANGED <<txstore, history, txdisk, histdisk>>
  BY <1>2 DEF Open, dbs
<1>4. /\ HeadersOK' /\ Blocks(headers)' \subseteq Both
      /\ txdisk.t # NoBlock => history.done \cap Ancestry(txdisk.t) \subseteq Blocks(headers)'
  <2>1. CASE txdisk.t = NoBlock
    BY <1>2, <2>1 DEF Open, HeadersOK, Blocks
  <2>2. CASE txdisk.t # NoBlock
    <3>1. PICK i \in 1..Len(ChainOf[txdisk.t]) :
            IsWalkBack(i) /\ headers' = SubSeq(ChainOf[txdisk.t], 1, i)
      BY <1>2, <2>2 DEF Open
    <3> DEFINE top == ChainOf[txdisk.t][i]
    <3>2. /\ txdisk.t \in Block
          /\ ChainOf[txdisk.t] \in Seq(Block)
          /\ top \in histdisk.done /\ top \in Block
          /\ top \in Ancestry(txdisk.t)
      BY <2>2, <3>1, ChainType DEF TypeOK, IsWalkBack, IndexedHeights, Ancestry, Blocks
    <3>3. headers' = ChainOf[top] /\ Blocks(headers)' = Ancestry(top)
      <4>1. ChainOf[top] = SubSeq(ChainOf[txdisk.t], 1, i)
        BY <3>2, BlockTreeAssumption
      <4>2. headers' = ChainOf[top]
        BY <3>1, <4>1
      <4> QED
        BY <4>2 DEF Ancestry, Blocks
    <3>4. Ancestry(top) \subseteq Both
      <4>1. Ancestry(top) \subseteq histdisk.done
        BY <2>2, <3>2 DEF StoreInv, TipClosed
      <4>2. Ancestry(top) \subseteq txdisk.done
        BY <2>2, <3>2, AncestryTransitive DEF StoreInv
      <4> QED
        BY <1>1, <4>1, <4>2 DEF Both
    <3>5. ASSUME NEW b \in history.done, b \in Ancestry(txdisk.t)
          PROVE  b \in Ancestry(top)
      <4>1. PICK j \in 1..Len(ChainOf[txdisk.t]) : b = ChainOf[txdisk.t][j]
        BY <3>5 DEF Ancestry, Blocks
      <4>2. j \in IndexedHeights(txdisk.t, histdisk.done)
        BY <1>1, <3>5, <4>1 DEF IndexedHeights
      <4>3. j <= i
        BY <3>1, <4>2 DEF IsWalkBack
      <4>4. headers'[j] = b /\ j \in 1..Len(headers')
        BY <3>1, <3>2, <4>1, <4>3
      <4> QED
        BY <3>3, <4>4 DEF Ancestry, Blocks
    <3> QED
      BY <3>2, <3>3, <3>4, <3>5 DEF HeadersOK
  <2> QED
    BY <2>1, <2>2
<1>5. IsClosed(txstore.done)' /\ IsClosed(txdisk.done)'
      /\ (txdisk.t # NoBlock => TipClosed(histdisk.done)' /\ TipClosed(history.done)')
  BY <1>3 DEF StoreInv, IsClosed, TipClosed
<1> QED
  BY <1>1, <1>3, <1>4, <1>5 DEF StoreInv, Up, Ending, InUpdate, Both

LEMMA StoreStartUpdate ==
    ASSUME TypeOK, StoreInv, StartUpdate
    PROVE  StoreInv'
<1>1. PICK n \in 0..Len(ChainOf[bestblock]) :
        /\ IsForkLen(n)
        /\ tip' = bestblock
        /\ newHeaders' = SubSeq(ChainOf[bestblock], n + 1, Len(ChainOf[bestblock]))
        /\ headers' = SubSeq(headers, 1, n)
        /\ undoing' = {headers[i] : i \in (n + 1)..Len(headers)}
        /\ pc' = IF n < Len(headers) THEN "undo" ELSE "plan"
  BY DEF StartUpdate
<1>2. /\ pc \in {"opened", "idle"} /\ Up
      /\ UNCHANGED <<txstore, history, txdisk, histdisk, added, indexed, walDisabled>>
  BY DEF StartUpdate, dbs, Up
<1>3. HeadersOK /\ Blocks(headers) \subseteq Both
  BY <1>2 DEF StoreInv
<1>4. /\ bestblock \in Block /\ ChainOf[bestblock] \in Seq(Block)
      /\ headers \in Seq(Block)
  BY ChainType DEF TypeOK
<1>5. n <= Len(headers) /\ headers' = SubSeq(ChainOf[bestblock], 1, n)
  BY <1>1, <1>3, ForkCut
<1>6. tip' \in Block /\ headers' \o newHeaders' = ChainOf[tip']
  BY <1>1, <1>4, <1>5, SplitChain
<1>7. HeadersOK'
  BY <1>4, <1>5, PrefixIsChain DEF HeadersOK
<1>8. /\ Blocks(headers)' = {headers[i] : i \in 1..n}
      /\ Blocks(headers) = Blocks(headers)' \cup undoing'
  <2>1. Len(headers') = n /\ \A i \in 1..n : headers'[i] = headers[i]
    BY <1>1, <1>4, <1>5
  <2>2. Blocks(headers)' = {headers[i] : i \in 1..n}
    BY <2>1 DEF Blocks
  <2>3. \A i \in 1..Len(headers) : i \in 1..n \/ i \in (n + 1)..Len(headers)
    BY <1>4, <1>5
  <2>4. \A i \in 1..n : i \in 1..Len(headers)
    BY <1>4, <1>5
  <2>5. \A i \in (n + 1)..Len(headers) : i \in 1..Len(headers)
    BY <1>4, <1>5
  <2> QED
    BY <1>1, <2>2, <2>3, <2>4, <2>5 DEF Blocks
<1>9. txdisk.t # NoBlock => history.done \cap Ancestry(txdisk.t) \subseteq Blocks(headers)
  BY <1>2 DEF StoreInv, Ancestry
<1>10. /\ IsClosed(txstore.done)' /\ IsClosed(txdisk.done)'
       /\ (txdisk.t # NoBlock => TipClosed(histdisk.done)' /\ TipClosed(history.done)')
  BY <1>2 DEF StoreInv, IsClosed, TipClosed
<1>11. CASE n < Len(headers)
  <2>1. PICK x \in Block : headers = ChainOf[x]
    BY <1>3, <1>4, <1>11 DEF HeadersOK
  <2>2. \A i \in 1..Len(headers) : Len(ChainOf[headers[i]]) = i
    <3> SUFFICES ASSUME NEW i \in 1..Len(headers)
                 PROVE  Len(ChainOf[headers[i]]) = i
      OBVIOUS
    <3>1. ChainOf[headers[i]] = SubSeq(headers, 1, i)
      BY <2>1, BlockTreeAssumption
    <3> QED
      BY <1>4, <3>1
  <2>3. undoing' \cap Blocks(headers)' = {}
    <3>1. SUFFICES ASSUME NEW i \in 1..n, NEW j \in (n + 1)..Len(headers),
                          headers[i] = headers[j]
                   PROVE  FALSE
      BY <1>1, <1>8
    <3>2. i \in 1..Len(headers) /\ j \in 1..Len(headers) /\ i # j
      BY <1>4, <1>5
    <3> QED
      BY <2>2, <3>1, <3>2
  <2>4. n > 0
    <3>1. SUFFICES ASSUME n = 0
                   PROVE  FALSE
      OBVIOUS
    <3>2. ChainOf[bestblock][1] \in Ancestry(x)
      BY <1>4, <2>1, GenesisInAncestry
    <3>3. 1 \in (n + 1)..Len(ChainOf[bestblock])
      BY <1>4, <3>1, ChainType
    <3> QED
      BY <1>1, <2>1, <3>2, <3>3 DEF IsForkLen, Ancestry
  <2>5. headers' # <<>>
    <3>1. Len(headers') = n
      BY <1>1, <1>4, <1>5
    <3> QED
      BY <2>4, <3>1
  <2> QED
    BY <1>1, <1>2, <1>3, <1>6, <1>7, <1>8, <1>9, <1>10, <1>11, <2>3, <2>5
    DEF StoreInv, Up, Ending, InUpdate, Both
<1>12. CASE ~(n < Len(headers))
  BY <1>1, <1>2, <1>3, <1>6, <1>7, <1>8, <1>10, <1>12
  DEF StoreInv, Up, Ending, InUpdate, Both
<1> QED
  BY <1>11, <1>12

LEMMA StoreUndoIndex ==
    ASSUME TypeOK, StoreInv, UndoIndex
    PROVE  StoreInv'
<1> DEFINE left == history.done \ UndoChunk
<1>1. /\ pc = "undo" /\ pc \in InUpdate /\ Up
      /\ UndoChunk \subseteq undoing /\ undoing \subseteq Block
      /\ undoing \subseteq txstore.done
      /\ undoing \cap Blocks(headers) = {}
      /\ headers # <<>> /\ headers \in Seq(Block)
      /\ HeadersOK /\ Blocks(headers) \subseteq Both
      /\ added = txstore.done /\ indexed = history.done
      /\ IsClosed(txstore.done)
  BY DEF UndoIndex, UndoChunk, InUpdate, Up, TypeOK, StoreInv
<1>2. CanIndex(UndoChunk)
  BY <1>1, AddedCanIndex
<1>3. /\ history'.done = left /\ histdisk' \in {histdisk, history'}
      /\ (~walDisabled => histdisk' = history')
      /\ indexed' = left
      /\ undoing' = undoing \ UndoChunk
      /\ pc' = IF undoing' = {} THEN "plan" ELSE "undo"
      /\ UNCHANGED <<txstore, txdisk, added, headers, tip, newHeaders, walDisabled>>
  <2> DEFINE new == [done |-> history.done \ UndoChunk,
                     rows |-> DeleteRows(history.rows, RowsOfAll(UndoChunk))]
  <2>1. /\ SetHistory(new)
        /\ indexed' = indexed \ UndoChunk
        /\ undoing' = undoing \ UndoChunk
        /\ pc' = IF undoing' = {} THEN "plan" ELSE "undo"
        /\ UNCHANGED <<txstore, txdisk, added, headers, tip, newHeaders, walDisabled>>
    BY <1>2 DEF UndoIndex
  <2>2. new.done = left
    OBVIOUS
  <2> HIDE DEF new
  <2>3. history' = new /\ histdisk' = IF walDisabled THEN histdisk ELSE new
    BY <2>1 DEF SetHistory
  <2> QED
    BY <1>1, <2>1, <2>2, <2>3
<1>4. Blocks(headers) \subseteq left
  BY <1>1 DEF Both
<1>5. ASSUME txdisk.t # NoBlock
      PROVE  /\ Root(txdisk.t) \in left
             /\ TipClosed(left)
             /\ left \cap Ancestry(txdisk.t) \subseteq Blocks(headers) \cup undoing'
  <2>1. history.done \cap Ancestry(txdisk.t) \subseteq Blocks(headers) \cup undoing
    BY <1>1, <1>5 DEF StoreInv
  <2>2. txdisk.t \in Block
    BY <1>5 DEF TypeOK
  <2>3. PICK x \in Block : headers = ChainOf[x]
    BY <1>1 DEF HeadersOK
  <2>4. Root(txdisk.t) \in Blocks(headers)
    BY <2>2, <2>3, GenesisInAncestry DEF Root, Ancestry
  <2>5. TipClosed(left)
    <3>1. SUFFICES ASSUME NEW b \in left, b \in Ancestry(txdisk.t),
                          NEW c \in Ancestry(b)
                   PROVE  c \in left
      BY DEF TipClosed
    <3>2. c \in history.done
      BY <1>5, <3>1 DEF StoreInv, TipClosed
    <3>3. SUFFICES ASSUME c \in UndoChunk
                   PROVE  FALSE
      BY <3>2
    <3>4. b \in Blocks(headers) \/ b \in undoing
      BY <2>1, <3>1
    <3>5. b \in undoing
      BY <1>1, <3>1, <3>3, <3>4, HeadersClosed
    <3>6. b \in Block /\ c \in undoing /\ c \in Block
      BY <1>1, <3>3, <3>5
    <3>7. Height(c) <= Height(b)
      <4>1. Len(ChainOf[c]) <= Len(ChainOf[b])
        BY <3>1, <3>6, AncestorIsLower
      <4> QED
        BY <3>6, <4>1, ChainType DEF Height
    <3>8. Cardinality({d \in undoing : Height(d) > Height(c)}) < BatchSize
      BY <3>3 DEF UndoChunk
    <3>9. /\ Cardinality({d \in undoing : Height(d) > Height(b)})
               <= Cardinality({d \in undoing : Height(d) > Height(c)})
          /\ Cardinality({d \in undoing : Height(d) > Height(b)}) \in Nat
          /\ Cardinality({d \in undoing : Height(d) > Height(c)}) \in Nat
      BY <1>1, <3>6, <3>7, FewerAbove
    <3>10. Cardinality({d \in undoing : Height(d) > Height(b)}) < BatchSize
      BY <3>8, <3>9, IndexerAssumption
    <3> QED
      BY <3>1, <3>5, <3>10 DEF UndoChunk
  <2> QED
    BY <1>3, <1>4, <2>1, <2>4, <2>5
<1>6. HeadersOK' /\ Blocks(headers)' = Blocks(headers)
  BY <1>1, <1>3 DEF HeadersOK, Blocks
<1>7. /\ IsClosed(txstore.done)' /\ IsClosed(txdisk.done)'
      /\ txdisk.t # NoBlock => TipClosed(histdisk.done)' /\ TipClosed(history.done)'
  BY <1>3, <1>5 DEF StoreInv, IsClosed, TipClosed
<1>8. txdisk.t # NoBlock =>
        Root(txdisk.t) \in histdisk'.done \cap history'.done
  BY <1>3, <1>5 DEF StoreInv
<1>9. undoing' \subseteq txstore.done /\ undoing' \cap Blocks(headers) = {}
  BY <1>1, <1>3
<1> QED
  BY <1>1, <1>3, <1>4, <1>5, <1>6, <1>7, <1>8, <1>9
  DEF StoreInv, Up, Ending, InUpdate, Both

LEMMA StorePlan ==
    ASSUME TypeOK, StoreInv, Plan
    PROVE  StoreInv'
<1>1. /\ pc = "plan" /\ pc \in InUpdate /\ Up
      /\ pending' = ToProcess
      /\ pc' = IF pending' = {} THEN AfterBatches ELSE "add"
      /\ UNCHANGED <<txstore, history, txdisk, histdisk, added, indexed, headers,
                     walDisabled, tip, newHeaders>>
  BY DEF Plan, InUpdate, Up, dbs, store
<1>2. /\ Blocks(newHeaders) \ ToProcess \subseteq Both
      /\ ToProcess \subseteq Blocks(newHeaders)
  BY <1>1 DEF ToProcess, StoreInv, Both
<1>3. tip \in Block /\ headers \o newHeaders = ChainOf[tip]
      /\ HeadersOK /\ Blocks(headers) \subseteq Both
  BY <1>1 DEF StoreInv
<1>4. Blocks(headers) \cup Blocks(newHeaders) = Ancestry(tip)
  BY <1>3, ConcatBlocks DEF TypeOK, Ancestry
<1>5. pending' = {} => Ancestry(tip) \subseteq Both
  BY <1>1, <1>2, <1>3, <1>4
<1>6. /\ HeadersOK' /\ Blocks(headers)' = Blocks(headers)
      /\ Blocks(newHeaders)' = Blocks(newHeaders) /\ Both' = Both
  BY <1>1, <1>3 DEF HeadersOK, Blocks, Both
<1>7. /\ IsClosed(txstore.done)' /\ IsClosed(txdisk.done)'
      /\ (txdisk.t # NoBlock => TipClosed(histdisk.done)' /\ TipClosed(history.done)')
  BY <1>1 DEF StoreInv, IsClosed, TipClosed
<1>8. pc' \in {"add", "flush_txstore", "put_tip"}
      /\ (pc' = "flush_txstore" => walDisabled) /\ (pc' = "put_tip" => ~walDisabled)
      /\ (pc' = "add" \/ pending' = {})
  BY <1>1 DEF AfterBatches
<1> QED
  BY <1>1, <1>2, <1>3, <1>5, <1>6, <1>7, <1>8 DEF StoreInv, Up, Ending, InUpdate

LEMMA StoreAdd ==
    ASSUME TypeOK, FilesInChainOrder, StoreInv, Add
    PROVE  StoreInv'
<1> DEFINE all == txstore.done \cup NextBatch
<1>1. /\ pc = "add" /\ pc \in InUpdate /\ Up /\ pc' = "index"
      /\ batch' = NextBatch
      /\ added' = added \cup NextBatch
      /\ UNCHANGED <<history, histdisk, indexed, headers, walDisabled, tip, newHeaders,
                     undoing, pending>>
  BY DEF Add, InUpdate, Up
<1>2. /\ txstore' = [done |-> all, t |-> txstore.t]
      /\ txdisk' = IF walDisabled THEN txdisk ELSE txstore'
  BY DEF Add, SetTxstore, TypeOK
<1>3. txstore'.done = all /\ txstore'.t = txstore.t
  BY <1>2
<1>4. /\ tip \in Block /\ headers \o newHeaders = ChainOf[tip]
      /\ HeadersOK /\ Blocks(headers) \subseteq Both
      /\ Blocks(newHeaders) \ pending \subseteq Both
      /\ pending \subseteq Blocks(newHeaders)
      /\ added = txstore.done /\ indexed = history.done
      /\ IsClosed(txstore.done)
  BY <1>1 DEF StoreInv
<1>5. Blocks(headers) \cup Blocks(newHeaders) = Ancestry(tip)
  BY <1>4, ConcatBlocks DEF TypeOK, Ancestry
<1>6. NextBatch \subseteq pending
  BY DEF NextBatch
<1>7. \A b \in NextBatch : Ancestry(b) \cap pending \subseteq NextBatch
  BY BatchIsClosed
<1>8. IsClosed(all)
  <2>1. SUFFICES ASSUME NEW b \in all, NEW c \in Ancestry(b)
                 PROVE  c \in all
    BY DEF IsClosed
  <2>2. CASE b \in txstore.done
    BY <1>4, <2>2 DEF IsClosed
  <2>3. CASE b \in NextBatch
    <3>1. b \in Ancestry(tip)
      BY <1>4, <1>5, <1>6, <2>3
    <3>2. c \in Ancestry(tip)
      BY <1>4, <3>1, AncestryTransitive
    <3> QED
      BY <1>4, <1>5, <1>7, <2>3, <3>2 DEF Both
  <2> QED
    BY <2>2, <2>3
<1>9. Both \subseteq Both'
  BY <1>1, <1>3 DEF Both
<1>10. /\ IsClosed(txdisk'.done)
       /\ txdisk'.done \subseteq all
       /\ txdisk.done \subseteq txdisk'.done
       /\ txdisk'.t = txdisk.t /\ txdisk'.t = txstore.t
       /\ (~walDisabled => txdisk' = txstore')
  BY <1>1, <1>2, <1>3, <1>4, <1>8 DEF StoreInv
<1>11. txdisk.t # NoBlock => TipClosed(histdisk.done)' /\ TipClosed(history.done)'
  BY <1>1, <1>10 DEF StoreInv, TipClosed
<1>12. /\ HeadersOK' /\ Blocks(headers)' = Blocks(headers)
       /\ Blocks(newHeaders)' = Blocks(newHeaders)
  BY <1>1, <1>4 DEF HeadersOK, Blocks
<1>13. IsClosed(txstore.done)' /\ IsClosed(txdisk.done)'
  BY <1>3, <1>8, <1>10 DEF IsClosed
<1>14. txdisk'.t # NoBlock =>
         /\ Ancestry(txdisk'.t) \subseteq txdisk'.done
         /\ Root(txdisk'.t) \in histdisk'.done \cap history'.done
  BY <1>1, <1>10 DEF StoreInv
<1> QED
  BY <1>1, <1>3, <1>4, <1>6, <1>7, <1>9, <1>10, <1>11, <1>12, <1>13, <1>14
  DEF StoreInv, Up, Ending, InUpdate

LEMMA StoreIndex ==
    ASSUME TypeOK, StoreInv, Index
    PROVE  StoreInv'
<1> DEFINE new == batch \ indexed
           all == history.done \cup new
<1>1. /\ pc = "index" /\ pc \in InUpdate /\ Up
      /\ batch \subseteq txstore.done /\ batch \subseteq pending
      /\ \A b \in batch : Ancestry(b) \cap pending \subseteq batch
      /\ Blocks(newHeaders) \ pending \subseteq Both
      /\ pending \subseteq Blocks(newHeaders)
      /\ tip \in Block /\ headers \o newHeaders = ChainOf[tip]
      /\ HeadersOK /\ Blocks(headers) \subseteq Both
      /\ added = txstore.done /\ indexed = history.done
      /\ IsClosed(txstore.done)
  BY DEF Index, StoreInv, InUpdate, Up
<1>2. CanIndex(new)
  BY <1>1, AddedCanIndex
<1>3. /\ history'.done = all
      /\ histdisk' = IF walDisabled THEN histdisk ELSE history'
      /\ indexed' = all
      /\ pending' = pending \ batch
      /\ pc' = IF pending' = {} THEN AfterBatches ELSE "add"
      /\ UNCHANGED <<txstore, txdisk, added, headers, walDisabled, tip, newHeaders>>
  <2> DEFINE db == [done |-> history.done \cup (batch \ indexed),
                    rows |-> WriteRows(history.rows, RowsOfAll(batch \ indexed))]
  <2>1. /\ SetHistory(db)
        /\ indexed' = indexed \cup (batch \ indexed)
        /\ pending' = pending \ batch
        /\ pc' = IF pending' = {} THEN AfterBatches ELSE "add"
        /\ UNCHANGED <<txstore, txdisk, added, headers, walDisabled, tip, newHeaders>>
    BY <1>2 DEF Index
  <2>2. db.done = all
    OBVIOUS
  <2> HIDE DEF db
  <2>3. history' = db /\ histdisk' = IF walDisabled THEN histdisk ELSE db
    BY <2>1 DEF SetHistory
  <2> QED
    BY <1>1, <2>1, <2>2, <2>3
<1>4. Blocks(headers) \cup Blocks(newHeaders) = Ancestry(tip)
  BY <1>1, ConcatBlocks DEF TypeOK, Ancestry
<1>5. Both' = txstore.done \cap all /\ batch \subseteq all /\ Both \subseteq Both'
  BY <1>1, <1>3 DEF Both
<1>6. /\ Blocks(newHeaders) \ pending' \subseteq Both'
      /\ pending' \subseteq Blocks(newHeaders)
  BY <1>1, <1>3, <1>5
<1>7. pending' = {} => Ancestry(tip) \subseteq Both'
  BY <1>1, <1>4, <1>5, <1>6
<1>8. ASSUME txdisk.t # NoBlock
      PROVE  TipClosed(all)
  <2>1. SUFFICES ASSUME NEW b \in all, b \in Ancestry(txdisk.t), NEW c \in Ancestry(b)
                 PROVE  c \in all
    BY DEF TipClosed
  <2>2. CASE b \in history.done
    BY <1>8, <2>1, <2>2 DEF StoreInv, TipClosed
  <2>3. CASE b \in new
    <3>1. b \in batch /\ b \in Ancestry(tip)
      BY <1>1, <1>4, <2>3
    <3>2. c \in Ancestry(tip)
      BY <1>1, <3>1, AncestryTransitive
    <3> QED
      BY <1>1, <1>4, <1>5, <3>1, <3>2 DEF Both
  <2> QED
    BY <2>2, <2>3
<1>9. /\ IsClosed(txstore.done)' /\ IsClosed(txdisk.done)'
      /\ (txdisk.t # NoBlock => TipClosed(histdisk.done)' /\ TipClosed(history.done)')
  BY <1>3, <1>8 DEF StoreInv, IsClosed, TipClosed
<1>10. txdisk.t # NoBlock =>
         /\ Ancestry(txdisk.t) \subseteq txdisk.done
         /\ Root(txdisk.t) \in histdisk'.done \cap history'.done
  BY <1>3 DEF StoreInv
<1>11. /\ HeadersOK' /\ Blocks(headers)' = Blocks(headers)
       /\ Blocks(newHeaders)' = Blocks(newHeaders)
  BY <1>1, <1>3 DEF HeadersOK, Blocks
<1>12. pc' \in {"add", "flush_txstore", "put_tip"}
       /\ (pc' = "flush_txstore" => walDisabled) /\ (pc' = "put_tip" => ~walDisabled)
       /\ (pc' = "add" \/ pending' = {})
  BY <1>3 DEF AfterBatches
<1>13. /\ txdisk.done \subseteq txstore.done /\ txdisk.t = txstore.t
       /\ (~walDisabled => txdisk = txstore)
  BY <1>1 DEF StoreInv
<1> QED
  BY <1>1, <1>3, <1>5, <1>6, <1>7, <1>9, <1>10, <1>11, <1>12, <1>13
  DEF StoreInv, Up, Ending, InUpdate

LEMMA StoreEnding ==
    ASSUME TypeOK, StoreInv, FlushTxstore \/ FlushHistory
    PROVE  StoreInv'
<1>1. /\ pc \in {"flush_txstore", "flush_history"}
      /\ pc \in Ending /\ pc \in InUpdate /\ Up /\ walDisabled
      /\ Ancestry(tip) \subseteq Both
      /\ UNCHANGED <<txstore, history, added, indexed, headers, tip, newHeaders>>
  BY DEF FlushTxstore, FlushHistory, StoreInv, store, update, Ending, InUpdate, Up
<1>2. CASE FlushTxstore
  <2>1. /\ pc' = "flush_history" /\ txdisk' = txstore
        /\ UNCHANGED <<histdisk, walDisabled>>
    BY <1>2 DEF FlushTxstore
  <2>2. IsClosed(txstore.done)' /\ IsClosed(txdisk.done)'
    BY <1>1, <2>1 DEF StoreInv, IsClosed
  <2>3. txdisk'.t = txdisk.t
    BY <2>1 DEF StoreInv
  <2>4. txdisk.t # NoBlock => TipClosed(histdisk.done)' /\ TipClosed(history.done)'
    BY <1>1, <2>1, <2>3 DEF StoreInv, TipClosed
  <2>5. HeadersOK' /\ Blocks(headers)' = Blocks(headers) /\ Both' = Both
    BY <1>1 DEF StoreInv, HeadersOK, Blocks, Both
  <2> QED
    BY <1>1, <2>1, <2>2, <2>3, <2>4, <2>5 DEF StoreInv, Up, Ending, InUpdate
<1>3. CASE FlushHistory
  <2>1. /\ pc = "flush_history" /\ pc' = "put_tip" /\ histdisk' = history
        /\ walDisabled' = FALSE
        /\ UNCHANGED txdisk
    BY <1>3 DEF FlushHistory
  <2>2. IsClosed(txstore.done)' /\ IsClosed(txdisk.done)'
        /\ (txdisk.t # NoBlock => TipClosed(histdisk.done)' /\ TipClosed(history.done)')
    BY <1>1, <2>1 DEF StoreInv, IsClosed, TipClosed
  <2>3. HeadersOK' /\ Blocks(headers)' = Blocks(headers) /\ Both' = Both
    BY <1>1 DEF StoreInv, HeadersOK, Blocks, Both
  <2> QED
    BY <1>1, <2>1, <2>2, <2>3 DEF StoreInv, Up, Ending, InUpdate
<1> QED
  BY <1>2, <1>3

\* The tip row is only written once the chain of the tip is on both disks.
LEMMA AtPutTip ==
    ASSUME TypeOK, StoreInv, PutTip
    PROVE  /\ txdisk = txstore /\ histdisk = history /\ ~walDisabled
           /\ tip \in Block /\ headers \o newHeaders = ChainOf[tip]
           /\ Ancestry(tip) \subseteq Both
           /\ txdisk' = [done |-> txdisk.done, t |-> tip]
           /\ txstore' = txdisk'
BY DEF PutTip, StoreInv, Up, InUpdate, Ending, TypeOK

LEMMA StorePutTip ==
    ASSUME TypeOK, StoreInv, PutTip
    PROVE  StoreInv'
<1>1. /\ pc = "put_tip" /\ pc \in InUpdate /\ Up /\ pc' = "append"
      /\ UNCHANGED <<history, histdisk, added, indexed, headers, walDisabled, tip,
                     newHeaders>>
  BY DEF PutTip, store, update, InUpdate, Ending, Up
<1>2. /\ txdisk'.done = txdisk.done /\ txdisk'.t = tip
      /\ txstore'.done = txstore.done /\ txstore'.t = tip
      /\ txdisk' = txstore'
  BY AtPutTip
<1>3. IsClosed(txstore.done)' /\ IsClosed(txdisk.done)'
  BY <1>2 DEF StoreInv, IsClosed
<1>4. TipClosed(histdisk.done)' /\ TipClosed(history.done)'
  <2>1. \A b \in Ancestry(tip) : Ancestry(b) \subseteq history.done
    BY AtPutTip, AncestryTransitive DEF Both
  <2> QED
    BY <1>1, <1>2, <2>1, AtPutTip DEF TipClosed
<1>5. Root(tip) \in Ancestry(tip)
  BY AtPutTip, GenesisInAncestry DEF Root
<1>6. HeadersOK' /\ Blocks(headers)' = Blocks(headers) /\ Both' = Both
  BY <1>1, <1>2 DEF StoreInv, HeadersOK, Blocks, Both
<1> QED
  BY <1>1, <1>2, <1>3, <1>4, <1>5, <1>6, AtPutTip
  DEF StoreInv, Up, Ending, InUpdate, Both

LEMMA StoreAppendHeaders ==
    ASSUME TypeOK, StoreInv, AppendHeaders
    PROVE  StoreInv'
<1>1. /\ pc = "append" /\ pc \in InUpdate /\ pc \in Ending /\ Up
      /\ headers \o newHeaders = ChainOf[tip] /\ tip \in Block
      /\ Ancestry(tip) \subseteq Both
      /\ ~walDisabled
  BY DEF AppendHeaders, StoreInv, Ending, InUpdate, Up
<1>2. ChainOf[tip] # <<>> /\ ChainOf[tip][Len(ChainOf[tip])] = tip
  <2>1. Len(ChainOf[tip]) > 0 /\ ChainOf[tip][Len(ChainOf[tip])] = tip
    BY <1>1, BlockTreeAssumption
  <2> QED
    BY <2>1
<1>3. /\ headers' = ChainOf[tip] /\ pc' = "idle"
      /\ UNCHANGED <<txstore, history, txdisk, histdisk, added, indexed, walDisabled, tip>>
  BY <1>1, <1>2 DEF AppendHeaders, dbs
<1>4. HeadersOK' /\ Blocks(headers)' = Ancestry(tip) /\ Both' = Both
  BY <1>1, <1>3 DEF HeadersOK, Ancestry, Blocks, Both
<1>5. /\ IsClosed(txstore.done)' /\ IsClosed(txdisk.done)'
      /\ (txdisk.t # NoBlock => TipClosed(histdisk.done)' /\ TipClosed(history.done)')
  BY <1>3 DEF StoreInv, IsClosed, TipClosed
<1> QED
  BY <1>1, <1>3, <1>4, <1>5 DEF StoreInv, Up, Ending, InUpdate

LEMMA StoreEnvironment ==
    ASSUME TypeOK, StoreInv,
           \/ \E b \in Block : DaemonMoves(b)
           \/ MemtableFlush
           \/ Crash
           \/ UNCHANGED vars
    PROVE  StoreInv'
<1>1. CASE Crash
  <2>1. /\ pc' = "down" /\ txstore' = txdisk /\ history' = histdisk
        /\ UNCHANGED <<txdisk, histdisk>>
    BY <1>1 DEF Crash
  <2>2. IsClosed(txstore.done)' /\ IsClosed(txdisk.done)'
        /\ (txdisk.t # NoBlock => TipClosed(histdisk.done)' /\ TipClosed(history.done)')
    BY <2>1 DEF StoreInv, IsClosed, TipClosed
  <2> QED
    BY <2>1, <2>2 DEF StoreInv, Up, Ending, InUpdate
<1>2. CASE MemtableFlush
  <2>1. /\ UNCHANGED <<txstore, history, added, indexed, headers, walDisabled, pc, tip,
                       newHeaders, undoing, pending, batch>>
        /\ txdisk' \in {txdisk, txstore} /\ histdisk' \in {histdisk, history}
        /\ walDisabled /\ Up
    BY <1>2 DEF MemtableFlush, store, update
  <2>2. IsClosed(txstore.done)' /\ IsClosed(txdisk.done)'
    BY <2>1 DEF StoreInv, IsClosed
  <2>3. txdisk'.t = txdisk.t /\ txdisk.done \subseteq txdisk'.done
        /\ txdisk'.done \subseteq txstore.done
    BY <2>1 DEF StoreInv
  <2>4. txdisk.t # NoBlock => TipClosed(histdisk.done)' /\ TipClosed(history.done)'
    BY <2>1, <2>3 DEF StoreInv, TipClosed
  <2>5. HeadersOK' = HeadersOK /\ Blocks(headers)' = Blocks(headers) /\ Both' = Both
        /\ Blocks(newHeaders)' = Blocks(newHeaders)
    BY <2>1 DEF HeadersOK, Blocks, Both
  <2> QED
    BY <2>1, <2>2, <2>3, <2>4, <2>5 DEF StoreInv, Up, Ending, InUpdate
<1>3. CASE (\E b \in Block : DaemonMoves(b)) \/ UNCHANGED vars
  <2>1. UNCHANGED <<txstore, history, txdisk, histdisk, added, indexed, headers,
                    walDisabled, pc, tip, newHeaders, undoing, pending, batch>>
    BY <1>3 DEF DaemonMoves, vars, dbs, store, update
  <2>2. IsClosed(txstore.done)' /\ IsClosed(txdisk.done)'
        /\ (txdisk.t # NoBlock => TipClosed(histdisk.done)' /\ TipClosed(history.done)')
    BY <2>1 DEF StoreInv, IsClosed, TipClosed
  <2>3. HeadersOK' = HeadersOK /\ Blocks(headers)' = Blocks(headers) /\ Both' = Both
        /\ Blocks(newHeaders)' = Blocks(newHeaders)
    BY <2>1 DEF HeadersOK, Blocks, Both
  <2> QED
    BY <2>1, <2>2, <2>3 DEF StoreInv, Up, Ending, InUpdate
<1> QED
  BY <1>1, <1>2, <1>3

LEMMA StoreInit == Init => StoreInv
BY DEF Init, StoreInv, EmptyTxstore, EmptyHistory, IsClosed, Up, Ending, InUpdate

LEMMA StoreStep ==
    ASSUME FilesInChainOrder
    PROVE  StoreInv /\ TypeOK /\ [Next]_vars => StoreInv'
<1> SUFFICES ASSUME StoreInv, TypeOK, [Next]_vars
             PROVE  StoreInv'
  OBVIOUS
<1> QED
  BY StoreOpen, StoreStartUpdate, StoreUndoIndex, StorePlan, StoreAdd, StoreIndex,
     StoreEnding, StorePutTip, StoreAppendHeaders, StoreEnvironment
  DEF Next, IndexerStep

THEOREM StoreInvariant == FilesInChainOrder => (Spec => []StoreInv)
<1> SUFFICES ASSUME FilesInChainOrder
             PROVE  Spec => []StoreInv
  OBVIOUS
<1>1. StoreInv /\ TypeOK /\ [Next]_vars => StoreInv'
  BY StoreStep
<1> QED
  BY <1>1, StoreInit, TypeCorrect, PTL DEF Spec

\* No expect, unwrap or assertion of the indexer fails, whatever reorganisation
\* or crash came before, when the blk*.dat files hold no block before its parent:
\* the violation run shows what happens when they do.
THEOREM NeverPanics == FilesInChainOrder => (Spec => []NoPanic)
<1> SUFFICES ASSUME FilesInChainOrder
             PROVE  Spec => []NoPanic
  OBVIOUS
<1>1. StoreInv => NoPanic
  BY DEF StoreInv, NoPanic
<1> QED
  BY <1>1, StoreInvariant, PTL

\* An update that ends has left its tip's chain in the HeaderList, in memory and
\* on both disks.
THEOREM EndsSynced == FilesInChainOrder => (Spec => []SyncedWhenIdle)
<1> SUFFICES ASSUME FilesInChainOrder
             PROVE  Spec => []SyncedWhenIdle
  OBVIOUS
<1>1. StoreInv /\ TypeOK => SyncedWhenIdle
  BY DEF StoreInv, SyncedWhenIdle, Up, Both, TypeOK
<1> QED
  BY <1>1, StoreInvariant, TypeCorrect, PTL

\* "t" never gets ahead of the blocks that a crash would leave, although the
\* batches before it may have bypassed the log.
THEOREM TipIsDurable == FilesInChainOrder => (Spec => TipRowIsDurable)
<1> SUFFICES ASSUME FilesInChainOrder
             PROVE  Spec => TipRowIsDurable
  OBVIOUS
<1>1. ASSUME StoreInv, TypeOK, [Next]_vars, txdisk'.t # txdisk.t
      PROVE  Blocks(ChainOf[txdisk'.t]) \subseteq txdisk.done \cap histdisk.done
  <2>1. CASE PutTip
    BY <1>1, <2>1, AtPutTip DEF Ancestry, Both
  <2>2. CASE MemtableFlush
    BY <1>1, <2>2 DEF MemtableFlush, StoreInv
  <2>3. CASE Add
    BY <1>1, <2>3 DEF Add, SetTxstore, StoreInv, TypeOK
  <2>4. CASE FlushTxstore
    BY <1>1, <2>4 DEF FlushTxstore, StoreInv
  <2>5. CASE ~(PutTip \/ MemtableFlush \/ Add \/ FlushTxstore)
    <3>1. UNCHANGED txdisk
      BY <1>1, <2>5 DEF Next, IndexerStep, Open, StartUpdate, UndoIndex, Plan, Index,
         FlushHistory, AppendHeaders, DaemonMoves, Crash, Panic, vars, dbs, update, store
    <3> QED
      BY <1>1, <3>1
  <2> QED
    BY <2>1, <2>2, <2>3, <2>4, <2>5
<1> QED
  BY <1>1, StoreInvariant, TypeCorrect, PTL DEF Spec, TipRowIsDurable

(***************************************************************************)
(* Every row has an owner that an undo would delete it with.               *)
(***************************************************************************)
OwnedIn(db) == \A r \in db.rows : \E b \in db.done : r \in RowsOf(b)

LEMMA OwnedAfterUndo ==
    ASSUME OwnedIn(history), UndoIndex, pc' # "panicked"
    PROVE  OwnedIn(history')
<1>1. /\ history'.done = history.done \ UndoChunk
      /\ history'.rows = DeleteRows(history.rows, RowsOfAll(UndoChunk))
  BY DEF UndoIndex, Panic, SetHistory
<1> SUFFICES ASSUME NEW r \in history'.rows
             PROVE  \E b \in history'.done : r \in RowsOf(b)
  BY DEF OwnedIn
<1>2. r \in history.rows /\ \A s \in RowsOfAll(UndoChunk) : ~SameKey(r, s)
  BY <1>1 DEF DeleteRows
<1>3. PICK b \in history.done : r \in RowsOf(b)
  BY <1>2 DEF OwnedIn
<1>4. r \notin RowsOfAll(UndoChunk)
  BY <1>2 DEF SameKey
<1>5. b \notin UndoChunk
  BY <1>3, <1>4 DEF RowsOfAll
<1> QED
  BY <1>1, <1>3, <1>5

LEMMA OwnedAfterIndex ==
    ASSUME OwnedIn(history), Index, pc' # "panicked"
    PROVE  OwnedIn(history')
<1> DEFINE new == batch \ indexed
<1>1. /\ history'.done = history.done \cup new
      /\ history'.rows = WriteRows(history.rows, RowsOfAll(new))
  BY DEF Index, Panic, SetHistory
<1>2. \A r \in history'.rows : r \in history.rows \/ \E b \in new : r \in RowsOf(b)
  BY <1>1 DEF WriteRows, RowsOfAll
<1> QED
  BY <1>1, <1>2 DEF OwnedIn

LEMMA OwnedStep ==
    ASSUME RowsOwned, [Next]_vars
    PROVE  RowsOwned'
<1>1. OwnedIn(history) /\ OwnedIn(histdisk)
  BY DEF RowsOwned, OwnedIn
<1>2. CASE (UndoIndex \/ Index) /\ pc' # "panicked"
  <2>1. OwnedIn(history') /\ histdisk' \in {histdisk, history'}
    BY <1>1, <1>2, OwnedAfterUndo, OwnedAfterIndex DEF UndoIndex, Index, Panic, SetHistory
  <2> QED
    BY <1>1, <2>1 DEF RowsOwned, OwnedIn
<1>3. CASE ~((UndoIndex \/ Index) /\ pc' # "panicked")
  <2>1. history' \in {history, histdisk} /\ histdisk' \in {history, histdisk}
    BY <1>3 DEF Next, IndexerStep, Open, StartUpdate, UndoIndex, Plan, Add, Index,
        FlushTxstore,
       FlushHistory, PutTip, AppendHeaders, Panic, DaemonMoves, MemtableFlush, Crash, SetTxstore,
       AfterBatches, vars, dbs
  <2> QED
    BY <1>1, <2>1 DEF RowsOwned, OwnedIn
<1> QED
  BY <1>2, <1>3

\* No step and no crash leaves a row in the history database, in memory or on
\* disk, that does not belong to a block marked done there: the undo of that
\* block would delete it.
THEOREM RowsHaveOwners == Spec => []RowsOwned
<1>1. Init => RowsOwned
  BY DEF Init, EmptyHistory, RowsOwned
<1> QED
  BY <1>1, OwnedStep, PTL DEF Spec

(***************************************************************************)
(* The indexer implements the abstract index.                              *)
(***************************************************************************)
\* A process that is not there serves nothing.
DownInv == pc = "down" => headers = <<>>

LEMMA DownStep ==
    ASSUME DownInv, [Next]_vars
    PROVE  DownInv'
BY DEF DownInv, Next, IndexerStep, Open, StartUpdate, UndoIndex, Plan, Add, Index,
    FlushTxstore,
   FlushHistory, PutTip, AppendHeaders, Panic, DaemonMoves, MemtableFlush, Crash, store, vars,
   AfterBatches

ServedInv == TypeOK /\ QuietInv /\ StoreInv /\ DownInv

LEMMA ServedInvariant == FilesInChainOrder => (Spec => []ServedInv)
<1> SUFFICES ASSUME FilesInChainOrder
             PROVE  Spec => []ServedInv
  OBVIOUS
<1>1. Init => QuietInv /\ DownInv
  BY QuietInit DEF QuietInv, DownInv, Init
<1>2. TypeOK /\ QuietInv /\ DownInv /\ [Next]_vars => QuietInv' /\ DownInv'
  BY QuietStep, DownStep
<1> QED
  BY <1>1, <1>2, TypeCorrect, StoreInvariant, PTL DEF Spec, ServedInv

LEMMA AbstractRows == \A c : Served!RowsOfAll(Served!Blocks(c)) = RowsOfAll(Blocks(c))
BY DEF Served!RowsOfAll, Served!Blocks, Served!RowsOf, Served!TxRows, Served!Height,
   RowsOfAll, Blocks, RowsOf, TxRows, Height

\* What is served is always the rows of the HeaderList's blocks.
ServedExact == ServedRows = RowsOfAll(Blocks(headers))

LEMMA RowsServed == ServedInv => ServedExact
<1> SUFFICES ASSUME ServedInv, orphans = {}
             PROVE  VisibleRows = RowsOfAll(Blocks(headers))
  BY DEF ServedRows, ServedExact
<1>1. CASE pc = "down"
  <2>1. Len(headers) = 0 /\ Blocks(headers) = {} /\ RowsOfAll({}) = {}
    BY <1>1 DEF ServedInv, DownInv, Blocks, RowsOfAll
  <2>2. \A r \in history.rows : r.height \in Nat
    BY DEF ServedInv, TypeOK, Row
  <2> QED
    <3>1. \A r \in history.rows : ~(r.height < 0)
      BY <2>2
    <3> QED
      BY <2>1, <3>1 DEF VisibleRows
<1>2. CASE pc # "down"
  BY <1>2, QuietServes DEF ServedInv, QuietInv, ServesItsChain, Up, StoreInv
<1> QED
  BY <1>1, <1>2

LEMMA ServedCut ==
    ASSUME TypeOK, NEW n \in 0..Len(headers), headers' = SubSeq(headers, 1, n)
    PROVE  headers' = headers \/ \E k \in 0..Len(headers) - 1 : headers' = SubSeq(headers, 1, k)
<1>1. headers \in Seq(Block) /\ Len(headers) \in Nat
  BY DEF TypeOK
<1>2. n = Len(headers) => headers' = headers
  BY <1>1, SubSeqFull
<1> QED
  BY <1>1, <1>2

LEMMA PrefixOfConcat ==
    ASSUME NEW S, NEW s \in Seq(S), NEW t \in Seq(S)
    PROVE  /\ SubSeq(s \o t, 1, Len(s)) = s
           /\ Len(s \o t) = Len(s) + Len(t)
           /\ Len(t) = 0 => s \o t = s
OBVIOUS

\* The HeaderList is cut, or it is extended to a chain.
LEMMA HeadersStep ==
    ASSUME FilesInChainOrder, ServedInv, ServedInv', [Next]_vars
    PROVE  \/ headers' = headers
           \/ \E n \in 0..Len(headers) - 1 : headers' = SubSeq(headers, 1, n)
           \/ \E b \in Block : /\ Len(headers) < Len(ChainOf[b])
                               /\ headers = SubSeq(ChainOf[b], 1, Len(headers))
                               /\ headers' = ChainOf[b]
<1>1. /\ headers \in Seq(Block) /\ Len(headers) \in Nat
      /\ SubSeq(headers, 1, 0) = <<>> /\ (Len(headers) = 0 => headers = <<>>)
  BY SubSeqEmpty DEF ServedInv, TypeOK
<1>2. CASE Open
  <2>1. headers = <<>> /\ Len(headers) = 0
    BY <1>2 DEF Open, ServedInv, DownInv
  <2>2. CASE pc' = "panicked" \/ txdisk.t = NoBlock
    BY <1>2, <2>1, <2>2 DEF Open, Panic, store
  <2>3. CASE ~(pc' = "panicked" \/ txdisk.t = NoBlock)
    <3>1. PICK i \in 1..Len(ChainOf[txdisk.t]) : headers' = SubSeq(ChainOf[txdisk.t], 1, i)
      BY <1>2, <2>3 DEF Open, Panic
    <3>2. txdisk.t \in Block /\ ChainOf[txdisk.t] \in Seq(Block)
      BY <2>3, ChainType DEF ServedInv, TypeOK
    <3>3. ChainOf[txdisk.t][i] \in Block /\ headers' = ChainOf[ChainOf[txdisk.t][i]]
      <4>1. ChainOf[txdisk.t][i] \in Block
        BY <3>1, <3>2
      <4>2. ChainOf[ChainOf[txdisk.t][i]] = SubSeq(ChainOf[txdisk.t], 1, i)
        BY <3>1, <3>2, BlockTreeAssumption
      <4> QED
        BY <3>1, <4>1, <4>2
    <3>4. /\ Len(ChainOf[ChainOf[txdisk.t][i]]) > 0
          /\ SubSeq(ChainOf[ChainOf[txdisk.t][i]], 1, 0) = <<>>
      BY <3>3, BlockTreeAssumption, ChainType, SubSeqEmpty
    <3> QED
      BY <2>1, <3>3, <3>4
  <2> QED
    BY <2>2, <2>3
<1>3. CASE StartUpdate
  <2>1. PICK n \in 0..Len(ChainOf[bestblock]) : IsForkLen(n) /\ headers' = SubSeq(headers, 1, n)
    BY <1>3 DEF StartUpdate
  <2>2. HeadersOK
    BY <1>3 DEF StartUpdate, ServedInv, StoreInv, Up
  <2>3. n <= Len(headers)
    BY <2>1, <2>2, ForkCut DEF ServedInv
  <2> QED
    BY <1>1, <2>1, <2>3, ServedCut, ChainType DEF ServedInv, TypeOK
<1>4. CASE AppendHeaders
  <2>1. tip \in Block /\ headers \o newHeaders = ChainOf[tip] /\ newHeaders \in Seq(Block)
    BY <1>4 DEF AppendHeaders, ServedInv, StoreInv, InUpdate, Ending, TypeOK
  <2>2. headers' \in {headers, ChainOf[tip]}
    BY <1>4, <2>1 DEF AppendHeaders, Panic, store
  <2>3. /\ headers = SubSeq(ChainOf[tip], 1, Len(headers))
        /\ Len(ChainOf[tip]) = Len(headers) + Len(newHeaders)
        /\ Len(newHeaders) = 0 => ChainOf[tip] = headers
    <3>1. /\ SubSeq(headers \o newHeaders, 1, Len(headers)) = headers
          /\ Len(headers \o newHeaders) = Len(headers) + Len(newHeaders)
          /\ Len(newHeaders) = 0 => headers \o newHeaders = headers
      BY <1>1, <2>1, PrefixOfConcat
    <3> QED
      BY <2>1, <3>1
  <2>4. Len(newHeaders) \in Nat
    BY <2>1
  <2> QED
    BY <1>1, <2>1, <2>2, <2>3, <2>4
<1>5. CASE Crash
  <2>1. headers' = <<>>
    BY <1>5 DEF Crash
  <2> QED
    BY <1>1, <2>1
<1>6. CASE ~(Open \/ StartUpdate \/ AppendHeaders \/ Crash)
  BY <1>6 DEF Next, IndexerStep, UndoIndex, Plan, Add, Index, FlushTxstore,
      FlushHistory, PutTip,
     Panic, DaemonMoves, MemtableFlush, store, vars
<1> QED
  BY <1>2, <1>3, <1>4, <1>5, <1>6

\* The indexer implements VisibleIndex: what readers are served is at every step
\* one chain with exactly its rows, that is rewound to an ancestor or extended to
\* a descendant and never jumps, through all reorganisations and crashes.
THEOREM ImplementsVisibleIndex == FilesInChainOrder => (Spec => ServesVisibleIndex)
<1> SUFFICES ASSUME FilesInChainOrder
             PROVE  Spec => ServesVisibleIndex
  OBVIOUS
<1>1. Init => Served!Init
  BY DEF Init, EmptyHistory, Served!Init, ServedRows, VisibleRows
<1>2. ASSUME ServedInv, ServedInv', ServedExact, ServedExact', [Next]_vars
      PROVE  [Served!Next]_<<headers, ServedRows>>
  <2>1. /\ ServedRows = Served!RowsOfAll(Served!Blocks(headers))
        /\ ServedRows' = Served!RowsOfAll(Served!Blocks(headers'))
    <3>1. ServedRows = RowsOfAll(Blocks(headers)) /\ ServedRows' = RowsOfAll(Blocks(headers'))
      BY <1>2 DEF ServedExact
    <3> QED
      BY <3>1, AbstractRows
  <2>2. CASE headers' = headers
    BY <2>1, <2>2
  <2>3. CASE \E n \in 0..Len(headers) - 1 : headers' = SubSeq(headers, 1, n)
    BY <2>1, <2>3 DEF Served!Next, Served!Rewind, Served!Serve
  <2>4. CASE \E b \in Block : /\ Len(headers) < Len(ChainOf[b])
                              /\ headers = SubSeq(ChainOf[b], 1, Len(headers))
                              /\ headers' = ChainOf[b]
    BY <2>1, <2>4 DEF Served!Next, Served!Extend, Served!Serve
  <2> QED
    BY <1>2, <2>2, <2>3, <2>4, HeadersStep
<1> QED
  BY <1>1, <1>2, ServedInvariant, RowsServed, PTL DEF Spec, ServesVisibleIndex, Served!Spec

(***************************************************************************)
(* What is served survives a crash.                                        *)
(***************************************************************************)
\* The blocks served are on the chain of the tip row and indexed on disk: a
\* reorganisation undoes blocks only after they left the HeaderList, and blocks
\* enter it only after the flush, or the log, and the tip row.
KeptInv == Up /\ headers # <<>> =>
    /\ txdisk.t # NoBlock
    /\ Blocks(headers) \subseteq Ancestry(txdisk.t) \cap histdisk.done

LEMMA KeptOpen ==
    ASSUME TypeOK, StoreInv, StoreInv', Open
    PROVE  KeptInv'
<1>1. /\ history = histdisk /\ UNCHANGED <<histdisk, txdisk, history>> /\ pc' # "panicked"
  BY DEF Open, StoreInv, dbs, Panic
<1>2. Up' => Blocks(headers)' \subseteq histdisk'.done
  BY <1>1 DEF StoreInv, Both
<1>3. CASE txdisk.t = NoBlock
  <2>1. headers' = <<>>
    BY <1>1, <1>3 DEF Open, Panic
  <2> QED
    BY <2>1 DEF KeptInv
<1>4. CASE txdisk.t # NoBlock
  <2>1. PICK i \in 1..Len(ChainOf[txdisk.t]) : headers' = SubSeq(ChainOf[txdisk.t], 1, i)
    BY <1>1, <1>4 DEF Open, Panic
  <2>2. ChainOf[txdisk.t] \in Seq(Block)
    BY <1>4, ChainType DEF TypeOK
  <2>3. Blocks(headers)' \subseteq Ancestry(txdisk.t)
    BY <2>1, <2>2 DEF Blocks, Ancestry
  <2> QED
    BY <1>1, <1>2, <1>4, <2>3 DEF KeptInv
<1> QED
  BY <1>3, <1>4

\* A cut of the HeaderList keeps what is said of its blocks.
LEMMA KeptStartUpdate ==
    ASSUME TypeOK, StoreInv, KeptInv, StartUpdate
    PROVE  KeptInv'
<1>1. Up /\ HeadersOK /\ UNCHANGED <<histdisk, txdisk>>
  BY DEF StartUpdate, StoreInv, Up, dbs
<1>2. PICK n \in 0..Len(ChainOf[bestblock]) : IsForkLen(n) /\ headers' = SubSeq(headers, 1, n)
  BY DEF StartUpdate
<1>3. n \in 0..Len(headers) /\ headers \in Seq(Block)
  BY <1>1, <1>2, ForkCut, ChainType DEF TypeOK
<1>4. Blocks(headers)' \subseteq Blocks(headers)
  BY <1>2, <1>3 DEF Blocks
<1>5. headers' # <<>> => headers # <<>>
  BY <1>2, <1>3
<1> QED
  BY <1>1, <1>4, <1>5 DEF KeptInv

LEMMA KeptUndoIndex ==
    ASSUME TypeOK, StoreInv, KeptInv, UndoIndex
    PROVE  KeptInv'
<1>1. /\ Up /\ UNCHANGED <<headers, txdisk>>
      /\ undoing \cap Blocks(headers) = {} /\ Blocks(headers) \subseteq history.done
  BY DEF UndoIndex, Panic, StoreInv, Up, Both, dbs, store
<1>2. histdisk'.done \in {histdisk.done, history.done \ UndoChunk}
  BY DEF UndoIndex, Panic, SetHistory, dbs
<1>3. UndoChunk \subseteq undoing
  BY DEF UndoChunk
<1>4. headers # <<>> => Blocks(headers) \subseteq histdisk'.done
  BY <1>1, <1>2, <1>3 DEF KeptInv
<1> QED
  BY <1>1, <1>4 DEF KeptInv, Blocks

LEMMA KeptPutTip ==
    ASSUME TypeOK, StoreInv, KeptInv, PutTip
    PROVE  KeptInv'
<1>1. /\ headers \in Seq(Block) /\ newHeaders \in Seq(Block)
      /\ headers \o newHeaders = ChainOf[tip] /\ tip \in Block /\ txdisk'.t = tip
      /\ Up /\ UNCHANGED <<headers, histdisk>>
  BY AtPutTip DEF TypeOK, PutTip, store, Up
<1>2. Blocks(headers) \subseteq Ancestry(tip)
  BY <1>1, ConcatBlocks DEF Ancestry
<1>3. tip # NoBlock
  BY <1>1, BlockTreeAssumption
<1>4. KeptInv' = (Up' /\ headers # <<>> =>
                    /\ tip # NoBlock
                    /\ Blocks(headers) \subseteq Ancestry(tip) \cap histdisk.done)
  BY <1>1 DEF KeptInv, Blocks, Ancestry
<1> QED
  BY <1>1, <1>2, <1>3, <1>4 DEF KeptInv

LEMMA KeptAppendHeaders ==
    ASSUME TypeOK, StoreInv, AppendHeaders
    PROVE  KeptInv'
<1>1. /\ headers \o newHeaders = ChainOf[tip] /\ tip \in Block /\ txdisk.t = tip
      /\ Ancestry(tip) \subseteq histdisk.done
      /\ UNCHANGED <<txdisk, histdisk>>
  BY DEF AppendHeaders, Panic, StoreInv, InUpdate, Ending, Up, Both, dbs
<1>2. headers' = ChainOf[tip] \/ pc' = "panicked"
  BY <1>1 DEF AppendHeaders, Panic
<1>3. tip # NoBlock
  BY <1>1, BlockTreeAssumption
<1>4. headers' = ChainOf[tip] => Blocks(headers)' = Ancestry(tip)
  BY DEF Ancestry, Blocks
<1>5. Ancestry(txdisk'.t) = Ancestry(tip)
  BY <1>1
<1> QED
  BY <1>1, <1>2, <1>3, <1>4, <1>5 DEF KeptInv, Up

\* The other steps leave the HeaderList and the tip row, and put on disk what is
\* in memory, where the HeaderList is indexed, or more than was there.
LEMMA KeptOther ==
    ASSUME TypeOK, StoreInv, KeptInv, [Next]_vars,
           ~(Open \/ StartUpdate \/ UndoIndex \/ PutTip \/ AppendHeaders)
    PROVE  KeptInv'
<1>1. CASE Crash
  BY <1>1 DEF Crash, KeptInv, Up
<1>2. CASE ~Crash
  <2>1. UNCHANGED headers /\ (Up' => Up)
    BY <1>2 DEF Next, IndexerStep, Plan, Add, Index, FlushTxstore, FlushHistory, Panic,
       DaemonMoves, MemtableFlush, AfterBatches, Up, store, vars
  <2>2. txdisk'.t \in {txdisk.t, txstore.t}
    BY <1>2 DEF Next, IndexerStep, Plan, Add, Index, FlushTxstore, FlushHistory, Panic,
       DaemonMoves, MemtableFlush, SetTxstore, dbs, vars, TypeOK
  <2>3. histdisk'.done \in {histdisk.done, history.done, history.done \cup (batch \ indexed)}
    BY <1>2 DEF Next, IndexerStep, Plan, Add, Index, FlushTxstore, FlushHistory, Panic,
       DaemonMoves, MemtableFlush, SetHistory, dbs, vars
  <2> QED
    BY <2>1, <2>2, <2>3 DEF KeptInv, StoreInv, Both, Blocks
<1> QED
  BY <1>1, <1>2

LEMMA KeptStep ==
    ASSUME TypeOK, StoreInv, StoreInv', KeptInv, [Next]_vars
    PROVE  KeptInv'
BY KeptOpen, KeptStartUpdate, KeptUndoIndex, KeptPutTip, KeptAppendHeaders, KeptOther

LEMMA KeptSurvives ==
    ASSUME TypeOK, StoreInv, KeptInv, QuietInv
    PROVE  CrashForgetsNothing
<1> SUFFICES ASSUME Up, headers # <<>>
             PROVE  /\ txdisk.t # NoBlock /\ HeadersFound
                    /\ headers = SubSeq(ChainOf[txdisk.t], 1, Len(headers))
                    /\ Blocks(headers) \subseteq histdisk.done
                    /\ orphans = {} => RowsBelow(histdisk, Len(headers))
                                         = RowsOfAll(Blocks(headers))
  BY DEF CrashForgetsNothing, RowsBelow
<1>1. /\ txdisk.t # NoBlock /\ txdisk.t \in Block /\ HeadersOK
      /\ Blocks(headers) \subseteq Ancestry(txdisk.t)
      /\ Blocks(headers) \subseteq histdisk.done
  BY DEF KeptInv, StoreInv, TypeOK
<1>2. HeadersFound
  BY <1>1, TipRowFound
<1>3. headers = SubSeq(ChainOf[txdisk.t], 1, Len(headers))
  <2>1. PICK c \in Block : headers = ChainOf[c]
    BY <1>1 DEF HeadersOK
  <2>2. c \in Ancestry(txdisk.t)
    BY <1>1, <2>1, ChainType DEF Ancestry
  <2> QED
    BY <1>1, <2>1, <2>2, ChainMember
<1>4. orphans = {} => HistoryOK(histdisk)
  BY DEF QuietInv, Quiet
<1> QED
  BY <1>1, <1>2, <1>3, <1>4, RowsOfHeaders

\* Whatever is served at any moment would be served again after a crash at that
\* moment: for every block tree, batch size and order of the writes that RocksDB
\* makes on its own, although an update that runs may have left blocks of two
\* branches in the databases.
THEOREM CrashKeepsServed == FilesInChainOrder => (Spec => []CrashForgetsNothing)
<1> SUFFICES ASSUME FilesInChainOrder
             PROVE  Spec => []CrashForgetsNothing
  OBVIOUS
<1>1. Init => KeptInv
  BY DEF Init, KeptInv
<1> QED
  BY <1>1, KeptStep, KeptSurvives, ServedInvariant, PTL DEF Spec, ServedInv
=============================================================================
