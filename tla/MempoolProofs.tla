----------------------------- MODULE MempoolProofs -----------------------------
(***************************************************************************)
(* Theorems about the mempool view for every set of transactions, whatever *)
(* they spend, and any number of threads.                                  *)
(***************************************************************************)
EXTENDS Mempool, TLAPS

\* What WithDescendants is the smallest of.
LEMMA Descendants ==
    ASSUME NEW txs, NEW among
    PROVE  /\ txs \subseteq WithDescendants(txs, among)
           /\ WithDescendants(txs, among) \subseteq txs \cup among
           /\ \A t \in among : Parents(t) \cap WithDescendants(txs, among) # {}
                                 => t \in WithDescendants(txs, among)
<1>1. txs \subseteq WithDescendants(txs, among)
  BY DEF WithDescendants, HasDescendants
<1>2. WithDescendants(txs, among) \subseteq txs \cup among
  BY DEF WithDescendants
<1>3. ASSUME NEW t \in among, Parents(t) \cap WithDescendants(txs, among) # {}
      PROVE  t \in WithDescendants(txs, among)
  <2>1. PICK p \in Parents(t) : p \in WithDescendants(txs, among)
    BY <1>3
  <2>2. ASSUME NEW s \in SUBSET (txs \cup among), HasDescendants(s, txs, among)
        PROVE  t \in s
    <3>1. p \in s
      BY <2>1, <2>2 DEF WithDescendants
    <3> QED
      BY <2>1, <2>2, <3>1 DEF HasDescendants
  <2> QED
    BY <2>2 DEF WithDescendants
<1> QED
  BY <1>1, <1>2, <1>3

(***************************************************************************)
(* Type correctness.  The rows of a transaction are in `history` at most   *)
(* twice: those of a transaction the main loop is about to add, at most    *)
(* once.                                                                   *)
(***************************************************************************)
\* `entries` without its bound, which EntriesInv gives.
TypeInv ==
    /\ pool \in SUBSET Tx
    /\ confirmed \in SUBSET Tx
    /\ bestblock \in 0..MaxTip
    /\ tip \in 0..MaxTip
    /\ chain \in SUBSET Tx
    /\ txstore \in SUBSET Tx
    /\ DOMAIN edges \in SUBSET Txo
    /\ \A o \in DOMAIN edges : edges[o] \in Tx
    /\ entries \in [Tx -> Nat]
    /\ pc \in {"index", "list", "snapshot", "evict", "fetch", "check", "add"}
    /\ bitcoindTxids \in SUBSET Tx
    /\ indexedTxids \in SUBSET Tx
    /\ newTxids \in SUBSET Tx
    /\ toFetch \in SUBSET Tx
    /\ fetchedTxs \in SUBSET Tx
    /\ serving \in BOOLEAN
    /\ sent \in SUBSET Tx
    /\ reading \in SUBSET Tx
    /\ failed \in {"no", "add", "remove", "lookup"}
    /\ replaced \in BOOLEAN
    /\ moved \in SUBSET Tx

\* The locals of update() that are not in use are empty.
LocalsInv ==
    /\ toFetch \subseteq newTxids
    /\ fetchedTxs \subseteq newTxids
    /\ pc \in {"index", "list"} => bitcoindTxids = {}
    /\ pc # "evict" => indexedTxids = {}
    /\ pc \notin {"fetch", "check", "add"} => newTxids = {}
    /\ pc \notin {"snapshot", "evict"} => bitcoindTxids = {}
    /\ failed # "no" => pc = "index"

EntriesInv ==
    /\ indexedTxids \subseteq txstore
    /\ \A t \in Tx : entries[t] > 0 <=> t \in txstore
    /\ \A t \in Tx : entries[t] <= 2
    /\ \A t \in newTxids : entries[t] <= 1
    /\ pc = "evict" => \A t \in Missing : entries[t] <= 1

LEMMA SpentType == \A txs \in SUBSET Tx : Spent(txs) \subseteq Txo
BY MempoolAssumption DEF Spent

LEMMA EmptyEdges == DOMAIN << >> = {}
OBVIOUS

LEMMA FailType ==
    ASSUME TypeInv, NEW why \in {"add", "remove", "lookup"}, Fail(why)
    PROVE  TypeInv'
BY EmptyEdges DEF TypeInv, Fail, daemon

LEMMA AddType ==
    ASSUME TypeInv, NEW txs \in SUBSET Tx, AddTxs(txs)
    PROVE  /\ txstore' \in SUBSET Tx
           /\ DOMAIN edges' \in SUBSET Txo
           /\ \A o \in DOMAIN edges' : edges'[o] \in Tx
           /\ entries' \in [Tx -> Nat]
           /\ replaced' \in BOOLEAN
<1>1. ASSUME NEW o \in Spent(txs)
      PROVE  (CHOOSE t \in txs : o \in Prevouts[t]) \in Tx
  BY <1>1 DEF Spent
<1>2. Spent(txs) \subseteq Txo
  BY SpentType
<1>3. /\ DOMAIN edges' \in SUBSET Txo
      /\ \A o \in DOMAIN edges' : edges'[o] \in Tx
  BY <1>1, <1>2 DEF AddTxs, TypeInv
<1>4. entries' \in [Tx -> Nat]
  BY DEF AddTxs, TypeInv
<1>5. replaced' \in BOOLEAN
  BY DEF AddTxs, TypeInv
<1> QED
  BY <1>3, <1>4, <1>5 DEF AddTxs, TypeInv

LEMMA RemoveType ==
    ASSUME TypeInv, NEW txs \in SUBSET Tx, RemoveTxs(txs)
    PROVE  /\ txstore' \in SUBSET Tx
           /\ DOMAIN edges' \in SUBSET Txo
           /\ \A o \in DOMAIN edges' : edges'[o] \in Tx
           /\ entries' \in [Tx -> Nat]
BY DEF RemoveTxs, TypeInv

\* No step takes the state out of these types.
LEMMA TypeStep == TypeInv /\ [Next]_vars => TypeInv'
<1> SUFFICES ASSUME TypeInv, [Next]_vars
             PROVE  TypeInv'
  OBVIOUS
<1> USE DEF TypeInv, daemon, view, locals, threads
<1>1. CASE IndexBlocks
  BY <1>1 DEF IndexBlocks
<1>2. CASE ListDaemon
  BY <1>2 DEF ListDaemon
<1>3. CASE SnapshotView
  BY <1>3 DEF SnapshotView
<1>4. CASE Evict
  <2>1. CASE ~CanRemove(Evicted)
    BY <1>4, <2>1, FailType DEF Evict
  <2>2. CASE CanRemove(Evicted)
    <3>1. Evicted \in SUBSET Tx /\ Missing \in SUBSET Tx
      BY DEF Evicted, Missing
    <3>2. RemoveTxs(Evicted)
      BY <1>4, <2>2 DEF Evict
    <3>3. /\ txstore' \in SUBSET Tx
          /\ DOMAIN edges' \in SUBSET Txo
          /\ \A o \in DOMAIN edges' : edges'[o] \in Tx
          /\ entries' \in [Tx -> Nat]
      BY <3>1, <3>2, RemoveType
    <3> QED
      BY <1>4, <2>2, <3>1, <3>3 DEF Evict, EndUpdate
  <2> QED
    BY <2>1, <2>2
<1>5. ASSUME NEW t \in Tx, Fetch(t)
      PROVE  TypeInv'
  BY <1>5 DEF Fetch
<1>6. CASE CheckTip
  BY <1>6 DEF CheckTip, EndUpdate
<1>7. CASE AddFetched
  <2>1. CASE ~CanAdd(Snapshot)
    BY <1>7, <2>1, FailType DEF AddFetched
  <2>2. CASE CanAdd(Snapshot)
    <3>1. Snapshot \in SUBSET Tx
      BY DEF Snapshot
    <3>2. /\ txstore' \in SUBSET Tx
          /\ DOMAIN edges' \in SUBSET Txo
          /\ \A o \in DOMAIN edges' : edges'[o] \in Tx
          /\ entries' \in [Tx -> Nat]
          /\ replaced' \in BOOLEAN
      BY <1>7, <2>2, <3>1, AddType DEF AddFetched
    <3> QED
      BY <1>7, <2>2, <3>2 DEF AddFetched, EndUpdate
  <2> QED
    BY <2>1, <2>2
<1>8. ASSUME NEW t \in Tx, DaemonAccepts(t)
      PROVE  TypeInv'
  BY <1>8 DEF DaemonAccepts, Accept, PoolMoves
<1>9. ASSUME NEW t \in Tx, DaemonEvicts(t)
      PROVE  TypeInv'
  BY <1>9 DEF DaemonEvicts, PoolMoves
<1>10. ASSUME NEW t \in Tx, Broadcast(t)
       PROVE  TypeInv'
  BY <1>10 DEF Broadcast, Accept, PoolMoves
<1>11. ASSUME NEW t \in Tx, AddByTxid(t)
       PROVE  TypeInv'
  <2>1. CASE Wanted(t) /\ t \in pool /\ CanAdd({t})
    <3>1. AddTxs({t}) /\ {t} \in SUBSET Tx
      BY <1>11, <2>1 DEF AddByTxid
    <3>2. /\ txstore' \in SUBSET Tx
          /\ DOMAIN edges' \in SUBSET Txo
          /\ \A o \in DOMAIN edges' : edges'[o] \in Tx
          /\ entries' \in [Tx -> Nat]
          /\ replaced' \in BOOLEAN
      BY <3>1, AddType
    <3> QED
      BY <1>11, <3>2 DEF AddByTxid
  <2>2. CASE ~(Wanted(t) /\ t \in pool /\ CanAdd({t}))
    BY <1>11, <2>2 DEF AddByTxid
  <2> QED
    BY <2>1, <2>2
<1>12. ASSUME NEW t \in Tx, ReadTx(t)
       PROVE  TypeInv'
  BY <1>12 DEF ReadTx
<1>13. ASSUME NEW t \in Tx, ReadPrevouts(t)
       PROVE  TypeInv'
  <2>1. CASE ~Found(Prevouts[t])
    BY <1>13, <2>1, FailType DEF ReadPrevouts
  <2>2. CASE Found(Prevouts[t])
    BY <1>13, <2>2 DEF ReadPrevouts
  <2> QED
    BY <2>1, <2>2
<1>14. ASSUME NEW txs \in SUBSET Tx, DaemonMoves(txs)
       PROVE  TypeInv'
  BY <1>14, MempoolAssumption DEF DaemonMoves, PoolMoves
<1>15. CASE Restart
  BY <1>15 DEF Restart
<1>16. CASE UNCHANGED vars
  BY <1>16 DEF vars
<1> QED
  BY <1>1, <1>2, <1>3, <1>4, <1>5, <1>6, <1>7, <1>8, <1>9, <1>10, <1>11, <1>12,
     <1>13, <1>14, <1>15, <1>16 DEF Next, MainLoop

\* The locals of the main loop are cleared when they are no longer in use.
LEMMA LocalsStep == TypeInv /\ LocalsInv /\ [Next]_vars => LocalsInv'
<1> SUFFICES ASSUME TypeInv, LocalsInv, [Next]_vars
             PROVE  LocalsInv'
  OBVIOUS
<1> USE DEF LocalsInv, daemon, view, locals, threads, Running
<1>1. CASE IndexBlocks
  BY <1>1 DEF IndexBlocks
<1>2. CASE ListDaemon
  BY <1>2 DEF ListDaemon
<1>3. CASE SnapshotView
  BY <1>3 DEF SnapshotView
<1>4. CASE Evict
  BY <1>4 DEF Evict, Fail, EndUpdate
<1>5. ASSUME NEW t \in Tx, Fetch(t)
      PROVE  LocalsInv'
  BY <1>5 DEF Fetch
<1>6. CASE CheckTip
  BY <1>6 DEF CheckTip, EndUpdate
<1>7. CASE AddFetched
  BY <1>7 DEF AddFetched, Fail, EndUpdate
<1>8. ASSUME NEW t \in Tx, \/ DaemonAccepts(t) \/ DaemonEvicts(t) \/ Broadcast(t)
                           \/ AddByTxid(t) \/ ReadTx(t)
      PROVE  LocalsInv'
  BY <1>8 DEF DaemonAccepts, DaemonEvicts, Broadcast, AddByTxid, ReadTx
<1>9. ASSUME NEW t \in Tx, ReadPrevouts(t)
      PROVE  LocalsInv'
  BY <1>9 DEF ReadPrevouts, Fail
<1>10. ASSUME NEW txs \in SUBSET Tx, DaemonMoves(txs)
       PROVE  LocalsInv'
  BY <1>10 DEF DaemonMoves
<1>11. CASE Restart
  BY <1>11 DEF Restart
<1>12. CASE UNCHANGED vars
  BY <1>12 DEF vars
<1> QED
  BY <1>1, <1>2, <1>3, <1>4, <1>5, <1>6, <1>7, <1>8, <1>9, <1>10, <1>11, <1>12
     DEF Next, MainLoop

\* A transaction the main loop found missing has no rows, or those a broadcast
\* has added since; it is added once.
LEMMA EntriesStep ==
    TypeInv /\ LocalsInv /\ EntriesInv /\ [Next]_vars => EntriesInv'
<1> SUFFICES ASSUME TypeInv, LocalsInv, EntriesInv, [Next]_vars
             PROVE  EntriesInv'
  OBVIOUS
<1> USE DEF EntriesInv, daemon, view, locals, threads
<1>0. ASSUME NEW why \in {"add", "remove", "lookup"}, Fail(why)
      PROVE  EntriesInv'
  BY <1>0 DEF Fail, Missing
<1>1. CASE IndexBlocks
  BY <1>1 DEF IndexBlocks, Missing
<1>2. CASE ListDaemon
  BY <1>2 DEF ListDaemon, Missing
<1>3. CASE SnapshotView
  <2>1. \A t \in Tx : t \notin txstore => entries[t] <= 1
    BY DEF TypeInv
  <2> QED
    BY <1>3, <2>1 DEF SnapshotView, Missing, TypeInv
<1>4. CASE Evict
  <2>1. CASE ~CanRemove(Evicted)
    BY <1>0, <1>4, <2>1 DEF Evict
  <2>2. CASE CanRemove(Evicted)
    <3>1. pc = "evict" /\ RemoveTxs(Evicted)
      BY <1>4, <2>2 DEF Evict
    <3>2. /\ txstore' = txstore \ Evicted
          /\ \A t \in Tx : entries'[t] = IF t \in Evicted THEN 0 ELSE entries[t]
      BY <3>1 DEF RemoveTxs
    <3>3. /\ indexedTxids' = {}
          /\ newTxids' \subseteq Missing
          /\ pc' # "evict"
      BY <1>4, <2>2 DEF Evict, EndUpdate
    <3> QED
      BY <3>1, <3>2, <3>3 DEF Missing, TypeInv
  <2> QED
    BY <2>1, <2>2
<1>5. ASSUME NEW t \in Tx, Fetch(t)
      PROVE  EntriesInv'
  BY <1>5 DEF Fetch, Missing
<1>6. CASE CheckTip
  BY <1>6 DEF CheckTip, EndUpdate, Missing
<1>7. CASE AddFetched
  <2>1. CASE ~CanAdd(Snapshot)
    BY <1>0, <1>7, <2>1 DEF AddFetched
  <2>2. CASE CanAdd(Snapshot)
    <3>1. Snapshot \subseteq newTxids
      BY DEF Snapshot, LocalsInv
    <3>2. /\ txstore' = txstore \cup Snapshot
          /\ \A t \in Tx : entries'[t] = entries[t] + IF t \in Snapshot THEN 1 ELSE 0
      BY <1>7, <2>2 DEF AddFetched, AddTxs
    <3>3. newTxids' = {} /\ indexedTxids' = {} /\ pc' = "index"
      BY <1>7, <2>2 DEF AddFetched, EndUpdate
    <3> QED
      BY <3>1, <3>2, <3>3 DEF TypeInv
  <2> QED
    BY <2>1, <2>2
<1>8. ASSUME NEW t \in Tx, AddByTxid(t)
      PROVE  EntriesInv'
  <2>1. CASE Wanted(t) /\ t \in pool /\ CanAdd({t})
    <3>1. t \notin txstore /\ AddTxs({t})
      BY <1>8, <2>1 DEF AddByTxid, Wanted
    <3>2. /\ txstore' = txstore \cup {t}
          /\ \A u \in Tx : entries'[u] = entries[u] + IF u \in {t} THEN 1 ELSE 0
      BY <3>1 DEF AddTxs
    <3>3. entries[t] = 0
      BY <3>1 DEF TypeInv
    <3> QED
      BY <1>8, <3>2, <3>3 DEF AddByTxid, Missing, TypeInv
  <2>2. CASE ~(Wanted(t) /\ t \in pool /\ CanAdd({t}))
    BY <1>8, <2>2 DEF AddByTxid, Missing
  <2> QED
    BY <2>1, <2>2
<1>9. ASSUME NEW t \in Tx, \/ DaemonAccepts(t) \/ DaemonEvicts(t)
                           \/ Broadcast(t) \/ ReadTx(t)
      PROVE  EntriesInv'
  BY <1>9 DEF DaemonAccepts, DaemonEvicts, Broadcast, ReadTx, Missing
<1>10. ASSUME NEW t \in Tx, ReadPrevouts(t)
       PROVE  EntriesInv'
  <2>1. CASE ~Found(Prevouts[t])
    BY <1>0, <1>10, <2>1 DEF ReadPrevouts
  <2>2. CASE Found(Prevouts[t])
    BY <1>10, <2>2 DEF ReadPrevouts, Missing
  <2> QED
    BY <2>1, <2>2
<1>11. ASSUME NEW txs \in SUBSET Tx, DaemonMoves(txs)
       PROVE  EntriesInv'
  BY <1>11 DEF DaemonMoves, Missing
<1>12. CASE Restart
  BY <1>12 DEF Restart, Missing
<1>13. CASE UNCHANGED vars
  BY <1>13 DEF vars, Missing
<1> QED
  BY <1>1, <1>2, <1>3, <1>4, <1>5, <1>6, <1>7, <1>8, <1>9, <1>10, <1>11, <1>12,
     <1>13 DEF Next, MainLoop

LEMMA InitInv == Init => TypeInv /\ LocalsInv /\ EntriesInv
<1> SUFFICES ASSUME Init
             PROVE  TypeInv /\ LocalsInv /\ EntriesInv
  OBVIOUS
<1>1. TypeInv
  <2>1. 0 \in 0..MaxTip
    BY MempoolAssumption
  <2>2. DOMAIN edges = {}
    BY EmptyEdges DEF Init
  <2> QED
    BY <2>1, <2>2 DEF Init, TypeInv
<1>2. LocalsInv
  BY DEF Init, LocalsInv
<1>3. EntriesInv
  BY DEF Init, EntriesInv, Missing
<1> QED
  BY <1>1, <1>2, <1>3

\* Every reachable state is well typed: the rows of a transaction are in the
\* history at most twice, whatever was broadcast while the main loop fetched.
THEOREM TypeCorrect == Spec => []TypeOK
<1>1. Init => TypeInv /\ LocalsInv /\ EntriesInv
  BY InitInv
<1>2. TypeInv /\ EntriesInv => TypeOK
  BY DEF TypeInv, EntriesInv, TypeOK
<1> QED
  BY <1>1, <1>2, TypeStep, LocalsStep, EntriesStep, PTL DEF Spec

(***************************************************************************)
(* The update of the view never fails.                                     *)
(*                                                                         *)
(* The daemon's mempool and chain agree: no two of their transactions      *)
(* spend one output, and the parents of each are there.  While the best    *)
(* block is still the tip the indexer worked for, the parents of what the  *)
(* daemon listed are listed or in txstore; the transactions to add inherit *)
(* this, and keep it when the best block moves after the check.            *)
(***************************************************************************)
Consistent(txs) == \A t, u \in txs : ~Conflict(t, u)

PoolInv ==
    /\ Consistent(pool \cup confirmed)
    /\ \A t \in confirmed : Parents(t) \subseteq confirmed
    /\ \A t \in pool : Parents(t) \subseteq pool \cup confirmed

TipInv ==
    /\ tip <= bestblock
    /\ bestblock = tip => confirmed \subseteq chain

ParentsInv ==
    /\ bestblock = tip => \A t \in bitcoindTxids : Parents(t) \subseteq bitcoindTxids \cup chain
    /\ bestblock = tip \/ pc = "add" =>
         \A t \in newTxids : Parents(t) \subseteq newTxids \cup txstore \cup chain

LEMMA ParentsType == \A t \in Tx : Parents(t) \in SUBSET Tx
BY DEF Parents

\* The daemon accepts a transaction in place of those it conflicts with and of
\* what spends from them.
LEMMA AcceptStep ==
    ASSUME TypeInv, PoolInv, NEW t \in Tx, Accepts(t), Accept(t), UNCHANGED confirmed
    PROVE  PoolInv'
<1> DEFINE Conflicting == {u \in pool : Conflict(t, u)}
<1>1. /\ Conflicting \subseteq Replaces(t)
      /\ \A u \in pool : Parents(u) \cap Replaces(t) # {} => u \in Replaces(t)
  BY Descendants DEF Replaces
<1> HIDE DEF Conflicting
<1>2. \A u \in pool \ Replaces(t) : ~Conflict(t, u) /\ ~Conflict(u, t)
  BY <1>1 DEF Conflict, Conflicting
<1>3. \A u \in confirmed : ~Conflict(t, u) /\ ~Conflict(u, t)
  BY DEF Accepts, Conflict
<1>4. pool' = (pool \ Replaces(t)) \cup {t}
  BY DEF Accept
<1>5. ~Conflict(t, t)
  BY DEF Conflict
<1>6. Consistent(pool \cup confirmed)'
  BY <1>2, <1>3, <1>4, <1>5 DEF PoolInv, Consistent, Conflict
<1>7. \A u \in pool' : Parents(u) \subseteq pool' \cup confirmed
  BY <1>1, <1>4 DEF PoolInv, Accepts
<1> QED
  BY <1>6, <1>7 DEF PoolInv, Parents

\* A new best block: what it conflicts with leaves the mempool, with everything
\* that spends from it.
LEMMA MoveStep ==
    ASSUME TypeInv, PoolInv, NEW txs \in SUBSET Tx, DaemonMoves(txs)
    PROVE  PoolInv'
<1> DEFINE unconfirmed == (pool \cup confirmed) \ txs
           stale == {t \in unconfirmed : \E u \in txs : Conflict(t, u)}
           gone == WithDescendants(stale, unconfirmed)
<1>1. /\ stale \subseteq gone
      /\ \A t \in unconfirmed : Parents(t) \cap gone # {} => t \in gone
  BY Descendants
<1>2. /\ confirmed' = txs
      /\ pool' = unconfirmed \ gone
      /\ \A t \in txs : Parents(t) \subseteq txs
      /\ Consistent(txs)
  BY DEF DaemonMoves, Consistent
<1>3. \A t \in unconfirmed \ gone : \A u \in txs : ~Conflict(t, u) /\ ~Conflict(u, t)
  BY <1>1 DEF Conflict
<1>4. \A t \in pool \cup confirmed : Parents(t) \subseteq unconfirmed \cup txs
  BY DEF PoolInv
<1>5. \A t \in unconfirmed \ gone : Parents(t) \subseteq (unconfirmed \ gone) \cup txs
  BY <1>1, <1>4
<1>6. unconfirmed \subseteq pool \cup confirmed
  OBVIOUS
<1> HIDE DEF unconfirmed, stale, gone
<1>7. Consistent((unconfirmed \ gone) \cup txs)
  BY <1>2, <1>3, <1>6 DEF PoolInv, Consistent
<1> QED
  BY <1>2, <1>5, <1>7 DEF PoolInv, Consistent, Conflict, Parents

LEMMA EvictStep ==
    ASSUME PoolInv, NEW t \in Tx, DaemonEvicts(t)
    PROVE  PoolInv'
<1>1. \A u \in pool : Parents(u) \cap WithDescendants({t}, pool) # {}
                          => u \in WithDescendants({t}, pool)
  BY Descendants
<1>2. pool' = pool \ WithDescendants({t}, pool) /\ confirmed' = confirmed
  BY DEF DaemonEvicts
<1>3. Consistent(pool \cup confirmed)'
  BY <1>2 DEF PoolInv, Consistent, Conflict
<1>4. \A u \in pool' : Parents(u) \subseteq pool' \cup confirmed
  BY <1>1, <1>2 DEF PoolInv
<1> QED
  BY <1>2, <1>3, <1>4 DEF PoolInv, Parents

LEMMA PoolStep == TypeInv /\ PoolInv /\ [Next]_vars => PoolInv'
<1> SUFFICES ASSUME TypeInv, PoolInv, [Next]_vars
             PROVE  PoolInv'
  OBVIOUS
<1>1. ASSUME UNCHANGED daemon
      PROVE  PoolInv'
  BY <1>1 DEF daemon, PoolInv, Consistent, Conflict, Parents
<1>2. CASE MainLoop
  BY <1>1, <1>2 DEF MainLoop, IndexBlocks, ListDaemon, SnapshotView, Evict, Fetch,
                    CheckTip, AddFetched, Fail
<1>3. ASSUME NEW t \in Tx, DaemonAccepts(t)
      PROVE  PoolInv'
  BY <1>3, AcceptStep DEF DaemonAccepts
<1>4. ASSUME NEW t \in Tx, DaemonEvicts(t)
      PROVE  PoolInv'
  BY <1>4, EvictStep
<1>5. ASSUME NEW t \in Tx, Broadcast(t)
      PROVE  PoolInv'
  BY <1>1, <1>5, AcceptStep DEF Broadcast, daemon
<1>6. ASSUME NEW t \in Tx, AddByTxid(t) \/ ReadTx(t) \/ ReadPrevouts(t)
      PROVE  PoolInv'
  BY <1>1, <1>6 DEF AddByTxid, ReadTx, ReadPrevouts, Fail
<1>7. ASSUME NEW txs \in SUBSET Tx, DaemonMoves(txs)
      PROVE  PoolInv'
  BY <1>7, MoveStep
<1>8. CASE Restart
  BY <1>1, <1>8 DEF Restart
<1>9. CASE UNCHANGED vars
  BY <1>1, <1>9 DEF vars
<1> QED
  BY <1>2, <1>3, <1>4, <1>5, <1>6, <1>7, <1>8, <1>9 DEF Next

LEMMA TipStep == TypeInv /\ TipInv /\ [Next]_vars => TipInv'
<1> SUFFICES ASSUME TypeInv, TipInv, [Next]_vars
             PROVE  TipInv'
  OBVIOUS
<1> USE DEF TipInv
<1>1. ASSUME UNCHANGED <<confirmed, bestblock, tip, chain>>
      PROVE  TipInv'
  BY <1>1
<1>2. CASE IndexBlocks
  BY <1>2 DEF IndexBlocks, daemon, TypeInv
<1>3. CASE MainLoop /\ ~IndexBlocks
  BY <1>1, <1>3 DEF MainLoop, ListDaemon, SnapshotView, Evict, Fetch, CheckTip,
                    AddFetched, Fail, daemon
<1>4. ASSUME NEW t \in Tx, \/ DaemonAccepts(t) \/ DaemonEvicts(t) \/ Broadcast(t)
                           \/ AddByTxid(t) \/ ReadTx(t) \/ ReadPrevouts(t)
      PROVE  TipInv'
  BY <1>1, <1>4 DEF DaemonAccepts, DaemonEvicts, Broadcast, AddByTxid, ReadTx,
                    ReadPrevouts, Fail, daemon
<1>5. ASSUME NEW txs \in SUBSET Tx, DaemonMoves(txs)
      PROVE  TipInv'
  BY <1>5 DEF DaemonMoves, TypeInv
<1>6. CASE Restart \/ UNCHANGED vars
  BY <1>1, <1>6 DEF Restart, vars, daemon
<1> QED
  BY <1>2, <1>3, <1>4, <1>5, <1>6 DEF Next

LEMMA ParentsStep ==
    /\ TypeInv /\ LocalsInv /\ EntriesInv /\ PoolInv /\ TipInv /\ ParentsInv
    /\ [Next]_vars
    => ParentsInv'
<1> SUFFICES ASSUME TypeInv, LocalsInv, EntriesInv, PoolInv, TipInv, ParentsInv,
                    [Next]_vars
             PROVE  ParentsInv'
  OBVIOUS
<1> USE DEF ParentsInv, Parents, daemon, view, locals, threads
<1>0. ASSUME NEW why \in {"add", "remove", "lookup"}, Fail(why)
      PROVE  ParentsInv'
  BY <1>0 DEF Fail
<1>1. CASE IndexBlocks
  BY <1>1 DEF IndexBlocks, LocalsInv
<1>2. CASE ListDaemon
  BY <1>2 DEF ListDaemon, PoolInv, TipInv, LocalsInv
<1>3. CASE SnapshotView
  BY <1>3 DEF SnapshotView
<1>4. CASE Evict
  <2>1. CASE ~CanRemove(Evicted)
    BY <1>0, <1>4, <2>1 DEF Evict
  <2>2. CASE CanRemove(Evicted)
    <3>1. txstore' = txstore \ Evicted /\ chain' = chain
      BY <1>4, <2>2 DEF Evict, RemoveTxs
    <3>2. CASE Missing = {}
      BY <1>4, <2>2, <3>2 DEF Evict, EndUpdate
    <3>3. CASE Missing # {}
      <4>1. newTxids' = Missing /\ bitcoindTxids' = {} /\ pc' = "fetch"
        BY <1>4, <2>2, <3>3 DEF Evict
      <4>2. ASSUME bestblock = tip, NEW t \in Missing
            PROVE  Parents(t) \subseteq Missing \cup txstore' \cup chain
        <5>1. Parents(t) \subseteq bitcoindTxids \cup chain
          BY <4>2 DEF Missing
        <5>2. bitcoindTxids \subseteq Missing \cup txstore'
          BY <3>1 DEF Missing, Evicted, EntriesInv
        <5> QED
          BY <5>1, <5>2
      <4>3. bestblock' = bestblock /\ tip' = tip
        BY <1>4, <2>2 DEF Evict
      <4> QED
        BY <3>1, <4>1, <4>2, <4>3
    <3> QED
      BY <3>2, <3>3
  <2> QED
    BY <2>1, <2>2
<1>5. ASSUME NEW t \in Tx, Fetch(t)
      PROVE  ParentsInv'
  BY <1>5 DEF Fetch
<1>6. CASE CheckTip
  BY <1>6 DEF CheckTip, TipUnchanged, EndUpdate
<1>7. CASE AddFetched
  BY <1>0, <1>7 DEF AddFetched, AddTxs, EndUpdate
<1>8. ASSUME NEW t \in Tx, \/ DaemonAccepts(t) \/ DaemonEvicts(t) \/ Broadcast(t)
                           \/ ReadTx(t)
      PROVE  ParentsInv'
  BY <1>8 DEF DaemonAccepts, DaemonEvicts, Broadcast, ReadTx
<1>9. ASSUME NEW t \in Tx, AddByTxid(t)
      PROVE  ParentsInv'
  BY <1>9 DEF AddByTxid, AddTxs
<1>10. ASSUME NEW t \in Tx, ReadPrevouts(t)
       PROVE  ParentsInv'
  BY <1>0, <1>10 DEF ReadPrevouts
<1>11. ASSUME NEW txs \in SUBSET Tx, DaemonMoves(txs)
       PROVE  ParentsInv'
  <2>1. bestblock' # tip'
    BY <1>11 DEF DaemonMoves, TipInv, TypeInv
  <2> QED
    BY <1>11, <2>1 DEF DaemonMoves
<1>12. CASE Restart \/ UNCHANGED vars
  BY <1>12 DEF Restart, vars
<1> QED
  BY <1>1, <1>2, <1>3, <1>4, <1>5, <1>6, <1>7, <1>8, <1>9, <1>10, <1>11, <1>12
     DEF Next, MainLoop

\* The outputs spent by what the main loop is about to add are added with it, or
\* are in the view or in txstore.
LEMMA SnapshotFound ==
    ASSUME TypeInv, LocalsInv, ParentsInv, pc = "add"
    PROVE  CanAdd(Snapshot)
<1> DEFINE gone == WithDescendants(newTxids \ fetchedTxs, fetchedTxs)
<1>1. /\ newTxids \ fetchedTxs \subseteq gone
      /\ \A t \in fetchedTxs : Parents(t) \cap gone # {} => t \in gone
  BY Descendants
<1>2. Snapshot = fetchedTxs \ gone
  BY DEF Snapshot
<1> HIDE DEF gone
<1>3. ASSUME NEW t \in Snapshot
      PROVE  Parents(t) \subseteq Snapshot \cup txstore \cup chain
  <2>1. Parents(t) \subseteq newTxids \cup txstore \cup chain
    BY <1>2 DEF ParentsInv, LocalsInv
  <2>2. Parents(t) \cap gone = {}
    BY <1>1, <1>2
  <2> QED
    BY <1>1, <1>2, <2>1, <2>2
<1>4. Snapshot \subseteq Tx
  BY <1>2 DEF TypeInv
<1>5. ASSUME NEW o \in Spent(Snapshot) \ Created(Snapshot), o \in Created(Tx)
      PROVE  o \in Created(txstore \cup chain)
  <2>1. PICK t \in Snapshot : o \in Prevouts[t]
    BY DEF Spent
  <2>2. PICK p \in Tx : o \in Outputs[p]
    BY <1>5 DEF Created
  <2>3. p \in Snapshot \cup txstore \cup chain
    BY <1>3, <2>1, <2>2 DEF Parents
  <2>4. p \notin Snapshot
    BY <2>2 DEF Created
  <2> QED
    BY <2>2, <2>3, <2>4 DEF Created
<1> QED
  BY <1>5 DEF CanAdd, Found

LEMMA NeverFailsStep ==
    /\ TypeInv /\ LocalsInv /\ ParentsInv /\ UpdateNeverFails /\ [Next]_vars
    => UpdateNeverFails'
<1> SUFFICES ASSUME TypeInv, LocalsInv, ParentsInv, UpdateNeverFails, [Next]_vars
             PROVE  UpdateNeverFails'
  OBVIOUS
<1> USE DEF UpdateNeverFails
<1>1. CASE AddFetched
  <2>1. CanAdd(Snapshot)
    BY <1>1, SnapshotFound DEF AddFetched
  <2> QED
    BY <1>1, <2>1 DEF AddFetched
<1>2. CASE MainLoop /\ ~AddFetched
  BY <1>2 DEF MainLoop, IndexBlocks, ListDaemon, SnapshotView, Evict, Fetch, CheckTip,
              Fail
<1>3. ASSUME NEW t \in Tx, \/ DaemonAccepts(t) \/ DaemonEvicts(t) \/ Broadcast(t)
                           \/ AddByTxid(t) \/ ReadTx(t) \/ ReadPrevouts(t)
      PROVE  UpdateNeverFails'
  BY <1>3 DEF DaemonAccepts, DaemonEvicts, Broadcast, AddByTxid, ReadTx, ReadPrevouts,
              Fail
<1>4. CASE (\E txs \in SUBSET Tx : DaemonMoves(txs)) \/ Restart \/ UNCHANGED vars
  BY <1>4 DEF DaemonMoves, Restart, vars
<1> QED
  BY <1>1, <1>2, <1>3, <1>4 DEF Next

\* The main loop never ends because an output that it must look up is missing:
\* listing, fetching, the check of the tip and the pruning of descendants keep
\* what is added closed, whatever the daemon does in between.
THEOREM UpdatesSucceed == Spec => []UpdateNeverFails
<1>1. Init => TypeInv /\ LocalsInv /\ EntriesInv
  BY InitInv
<1>2. Init => PoolInv /\ TipInv /\ ParentsInv /\ UpdateNeverFails
  BY DEF Init, PoolInv, TipInv, ParentsInv, UpdateNeverFails, Consistent
<1> QED
  BY <1>1, <1>2, TypeStep, LocalsStep, EntriesStep, PoolStep, TipStep, ParentsStep,
     NeverFailsStep, PTL DEF Spec

(***************************************************************************)
(* The maps of the view agree.                                             *)
(***************************************************************************)
\* The transactions the main loop lists and adds do not conflict; until one is
\* added that replaces another of the view, each output has one spender there.
EdgesInv ==
    /\ Consistent(bitcoindTxids)
    /\ Consistent(newTxids)
    /\ failed # "no" => txstore = {} /\ DOMAIN edges = {}
    /\ ~replaced => /\ failed # "remove"
                    /\ DOMAIN edges = Spent(txstore)
                    /\ \A t \in txstore : \A o \in Prevouts[t] : edges[o] = t

\* With one spender for each output, remove finds every edge.
LEMMA EdgesRemovable ==
    ASSUME TypeInv, EntriesInv, EdgesInv, ~replaced
    PROVE  CanRemove(Evicted)
<1>1. Evicted \subseteq txstore
  BY DEF Evicted, EntriesInv
<1>2. \A t \in txstore : \A o \in Prevouts[t] : edges[o] = t
  BY DEF EdgesInv
<1>3. Spent(Evicted) \subseteq DOMAIN edges
  BY <1>1 DEF EdgesInv, Spent
<1>4. ASSUME NEW t \in Evicted, NEW u \in Evicted, Conflict(t, u)
      PROVE  FALSE
  <2>1. PICK o \in Prevouts[t] : o \in Prevouts[u]
    BY <1>4 DEF Conflict
  <2>2. edges[o] = t /\ edges[o] = u
    BY <1>1, <1>2, <2>1
  <2> QED
    BY <1>4, <2>2 DEF Conflict
<1> QED
  BY <1>3, <1>4 DEF CanRemove

LEMMA EdgesRemoved ==
    ASSUME EdgesInv, ~replaced, NEW txs \in SUBSET txstore, RemoveTxs(txs)
    PROVE  /\ DOMAIN edges' = Spent(txstore')
           /\ \A t \in txstore' : \A o \in Prevouts[t] : edges'[o] = t
<1>1. /\ DOMAIN edges = Spent(txstore)
      /\ \A t \in txstore : \A o \in Prevouts[t] : edges[o] = t
  BY DEF EdgesInv
<1>2. /\ txstore' = txstore \ txs
      /\ edges' = [o \in DOMAIN edges \ Spent(txs) |-> edges[o]]
  BY DEF RemoveTxs
<1>3. \A t \in txstore' : Prevouts[t] \cap Spent(txs) = {}
  BY <1>1, <1>2 DEF Spent
<1>4. Spent(txstore') = Spent(txstore) \ Spent(txs)
  BY <1>2, <1>3 DEF Spent
<1>5. \A t \in txstore' : Prevouts[t] \subseteq DOMAIN edges \ Spent(txs)
  BY <1>1, <1>2, <1>3 DEF Spent
<1> QED
  BY <1>1, <1>2, <1>4, <1>5

LEMMA EdgesAdded ==
    ASSUME EdgesInv, NEW txs, Consistent(txs), AddTxs(txs), ~replaced'
    PROVE  /\ ~replaced
           /\ DOMAIN edges' = Spent(txstore')
           /\ \A t \in txstore' : \A o \in Prevouts[t] : edges'[o] = t
<1>1. /\ ~replaced
      /\ \A o \in Spent(txs) \cap DOMAIN edges : edges[o] \in txs
  BY DEF AddTxs
<1>2. /\ DOMAIN edges = Spent(txstore)
      /\ \A t \in txstore : \A o \in Prevouts[t] : edges[o] = t
  BY <1>1 DEF EdgesInv
<1>3. txstore' = txstore \cup txs
  BY DEF AddTxs
<1>4. DOMAIN edges' = Spent(txstore')
  BY <1>2, <1>3 DEF AddTxs, Spent
<1>5. ASSUME NEW t \in txs, NEW o \in Prevouts[t]
      PROVE  edges'[o] = t
  <2>1. o \in Spent(txs)
    BY DEF Spent
  <2>2. edges'[o] = CHOOSE u \in txs : o \in Prevouts[u]
    BY <2>1 DEF AddTxs
  <2>3. \A u \in txs : o \in Prevouts[u] => u = t
    BY DEF Consistent, Conflict
  <2> QED
    BY <2>2, <2>3
<1>6. ASSUME NEW t \in txstore \ txs, NEW o \in Prevouts[t]
      PROVE  edges'[o] = t
  <2>1. o \in DOMAIN edges /\ edges[o] = t
    BY <1>2 DEF Spent
  <2>2. o \notin Spent(txs)
    BY <1>1, <2>1
  <2> QED
    BY <2>1, <2>2 DEF AddTxs
<1> QED
  BY <1>1, <1>3, <1>4, <1>5, <1>6

LEMMA EdgesStep ==
    TypeInv /\ LocalsInv /\ EntriesInv /\ PoolInv /\ EdgesInv /\ [Next]_vars => EdgesInv'
<1> SUFFICES ASSUME TypeInv, LocalsInv, EntriesInv, PoolInv, EdgesInv, [Next]_vars
             PROVE  EdgesInv'
  OBVIOUS
<1> USE DEF daemon, view, locals, threads, Running
<1>0. ASSUME NEW why \in {"add", "remove", "lookup"}, Fail(why), replaced \/ why # "remove"
      PROVE  EdgesInv'
  <2>1. DOMAIN edges' = {} /\ txstore' = {}
    BY <1>0, EmptyEdges DEF Fail
  <2> QED
    BY <1>0, <2>1 DEF EdgesInv, Fail, Consistent, Conflict, Spent
<1>1. ASSUME UNCHANGED <<bitcoindTxids, newTxids, view, failed, replaced>>
      PROVE  EdgesInv'
  BY <1>1 DEF EdgesInv, Consistent, Conflict, Spent
<1>2. CASE ListDaemon
  BY <1>2 DEF ListDaemon, EdgesInv, PoolInv, Consistent, Conflict, Spent
<1>3. CASE Evict
  <2>1. CASE ~CanRemove(Evicted)
    BY <1>0, <1>3, <2>1, EdgesRemovable DEF Evict, TypeInv
  <2>2. CASE CanRemove(Evicted)
    <3>1. RemoveTxs(Evicted) /\ replaced' = replaced /\ failed = "no" /\ failed' = "no"
      BY <1>3, <2>2 DEF Evict
    <3>2. Evicted \in SUBSET txstore
      BY DEF Evicted, EntriesInv
    <3>3. bitcoindTxids' = {} /\ newTxids' \subseteq bitcoindTxids
      BY <1>3, <2>2 DEF Evict, EndUpdate, Missing
    <3>4. Consistent(bitcoindTxids') /\ Consistent(newTxids')
      BY <3>3 DEF EdgesInv, Consistent
    <3>5. ~replaced => /\ DOMAIN edges' = Spent(txstore')
                       /\ \A t \in txstore' : \A o \in Prevouts[t] : edges'[o] = t
      BY <3>1, <3>2, EdgesRemoved
    <3> QED
      BY <3>1, <3>4, <3>5 DEF EdgesInv, Consistent, Conflict, Spent
  <2> QED
    BY <2>1, <2>2
<1>4. CASE AddFetched
  <2>1. CASE ~CanAdd(Snapshot)
    BY <1>0, <1>4, <2>1 DEF AddFetched
  <2>2. CASE CanAdd(Snapshot)
    <3>1. /\ AddTxs(Snapshot) /\ failed = "no" /\ failed' = "no"
          /\ bitcoindTxids' = {} /\ newTxids' = {}
      BY <1>4, <2>2 DEF AddFetched, EndUpdate
    <3>2. Consistent(Snapshot)
      BY DEF Snapshot, LocalsInv, EdgesInv, Consistent
    <3>3. ~replaced' => /\ ~replaced
                        /\ DOMAIN edges' = Spent(txstore')
                        /\ \A t \in txstore' : \A o \in Prevouts[t] : edges'[o] = t
      BY <3>1, <3>2, EdgesAdded
    <3> QED
      BY <3>1, <3>3 DEF EdgesInv, Consistent, Conflict, Spent
  <2> QED
    BY <2>1, <2>2
<1>5. ASSUME NEW t \in Tx, AddByTxid(t)
      PROVE  EdgesInv'
  <2>1. CASE AddTxs({t})
    <3>1. Consistent({t})
      BY DEF Consistent, Conflict
    <3>2. ~replaced' => /\ ~replaced
                        /\ DOMAIN edges' = Spent(txstore')
                        /\ \A u \in txstore' : \A o \in Prevouts[u] : edges'[o] = u
      BY <2>1, <3>1, EdgesAdded
    <3> QED
      BY <1>5, <3>2 DEF AddByTxid, EdgesInv, Consistent, Conflict, Spent
  <2>2. CASE ~AddTxs({t})
    BY <1>1, <1>5, <2>2 DEF AddByTxid
  <2> QED
    BY <2>1, <2>2
<1>6. CASE IndexBlocks \/ SnapshotView
  BY <1>1, <1>6 DEF IndexBlocks, SnapshotView
<1>7. ASSUME NEW t \in Tx, Fetch(t)
      PROVE  EdgesInv'
  BY <1>1, <1>7 DEF Fetch
<1>8. CASE CheckTip
  BY <1>8 DEF CheckTip, EndUpdate, EdgesInv, Consistent, Conflict, Spent
<1>9. ASSUME NEW t \in Tx, \/ DaemonAccepts(t) \/ DaemonEvicts(t) \/ Broadcast(t)
                           \/ ReadTx(t)
      PROVE  EdgesInv'
  BY <1>1, <1>9 DEF DaemonAccepts, DaemonEvicts, Broadcast, ReadTx
<1>10. ASSUME NEW t \in Tx, ReadPrevouts(t)
       PROVE  EdgesInv'
  BY <1>0, <1>1, <1>10 DEF ReadPrevouts
<1>11. ASSUME NEW txs \in SUBSET Tx, DaemonMoves(txs)
       PROVE  EdgesInv'
  BY <1>1, <1>11 DEF DaemonMoves
<1>12. CASE Restart
  BY <1>12 DEF Restart, EdgesInv, Consistent, Conflict, Spent, LocalsInv
<1>13. CASE UNCHANGED vars
  BY <1>1, <1>13 DEF vars
<1> QED
  BY <1>2, <1>3, <1>4, <1>5, <1>6, <1>7, <1>8, <1>9, <1>10, <1>11, <1>12, <1>13
     DEF Next, MainLoop

\* Until a replacement is added next to what it replaces, every map of the view
\* describes the transactions in txstore and nothing else, and no removal fails.
THEOREM MapsAgree == Spec => []ViewAgrees
<1>1. Init => TypeInv /\ LocalsInv /\ EntriesInv
  BY InitInv
<1>2. Init => PoolInv /\ EdgesInv
  BY EmptyEdges DEF Init, PoolInv, EdgesInv, Consistent, Spent
<1>3. EntriesInv /\ EdgesInv => ViewAgrees
  BY DEF EntriesInv, EdgesInv, ViewAgrees
<1> QED
  BY <1>1, <1>2, <1>3, TypeStep, LocalsStep, EntriesStep, PoolStep, EdgesStep, PTL
     DEF Spec

(***************************************************************************)
(* An update that succeeds follows the daemon's mempool.                   *)
(*                                                                         *)
(* What did not move was listed if it is in the mempool and not listed if  *)
(* it is not; the former is in the view or fetched, the latter is evicted, *)
(* and nobody adds it.  Of the former nothing is left out with an ancestor *)
(* that was not fetched: while the best block is the tip, the ancestors of *)
(* what stayed in the mempool stayed there too, for they are not confirmed.*)
(***************************************************************************)
Stayed == pool \ moved

MovedInv ==
    /\ pc \in {"index", "list"} => moved = {}
    /\ pc \in {"snapshot", "evict"} =>
          Stayed \subseteq bitcoindTxids /\ bitcoindTxids \subseteq pool \cup moved
    /\ pc = "evict" => txstore \subseteq indexedTxids \cup pool \cup moved
    /\ pc \in {"fetch", "check", "add"} =>
          /\ Stayed \subseteq newTxids \cup txstore
          /\ Stayed \cap newTxids \subseteq fetchedTxs \cup toFetch
          /\ txstore \cup fetchedTxs \subseteq pool \cup moved
    /\ pc \in {"check", "add"} => toFetch = {}

\* The parents of what stayed stayed, until the best block moves; what is to be
\* added then has all of it.
StayedInv ==
    /\ pool \cap confirmed = {}
    /\ bestblock = tip =>
         \A t \in Stayed : Parents(t) \cap (bitcoindTxids \cup newTxids) \subseteq Stayed
    /\ pc = "add" => Stayed \cap newTxids \subseteq Snapshot

\* What stays has stayed before.
LEMMA MovesOnly ==
    ASSUME PoolMoves, pc \notin {"index", "list"}
    PROVE  /\ (pool' \ moved') \subseteq Stayed
           /\ moved \subseteq moved'
           /\ pool \cup moved \subseteq pool' \cup moved'
BY DEF PoolMoves, Stayed

\* The steps of the daemon, whatever they do to its mempool.
LEMMA MovedDaemon ==
    ASSUME MovedInv, PoolMoves, UNCHANGED <<view, pc, locals>>
    PROVE  MovedInv'
<1> USE DEF MovedInv, Stayed, view, locals
<1>1. CASE pc \in {"index", "list"}
  BY <1>1 DEF PoolMoves
<1>2. CASE pc \notin {"index", "list"}
  BY <1>2, MovesOnly
<1> QED
  BY <1>1, <1>2

LEMMA MovedStep ==
    TypeInv /\ LocalsInv /\ EntriesInv /\ MovedInv /\ [Next]_vars => MovedInv'
<1> SUFFICES ASSUME TypeInv, LocalsInv, EntriesInv, MovedInv, [Next]_vars
             PROVE  MovedInv'
  OBVIOUS
<1> USE DEF daemon, view, locals, threads
<1>0. ASSUME NEW why \in {"add", "remove", "lookup"}, Fail(why)
      PROVE  MovedInv'
  BY <1>0 DEF Fail, MovedInv, Stayed
<1>1. ASSUME UNCHANGED <<pool, txstore, pc, locals, moved>>
      PROVE  MovedInv'
  BY <1>1 DEF MovedInv, Stayed
<1>2. CASE IndexBlocks
  BY <1>2 DEF IndexBlocks, MovedInv, Stayed
<1>3. CASE ListDaemon
  BY <1>3 DEF ListDaemon, MovedInv, Stayed
<1>4. CASE SnapshotView
  BY <1>4 DEF SnapshotView, MovedInv, Stayed
<1>5. CASE Evict
  <2>1. CASE ~CanRemove(Evicted)
    BY <1>0, <1>5, <2>1 DEF Evict
  <2>2. CASE CanRemove(Evicted)
    <3>1. pc = "evict" /\ txstore' = txstore \ Evicted /\ pool' = pool
      BY <1>5, <2>2 DEF Evict, RemoveTxs
    <3>2. CASE Missing = {}
      BY <1>5, <2>2, <3>2 DEF Evict, EndUpdate, MovedInv, Stayed
    <3>3. CASE Missing # {}
      <4>1. /\ newTxids' = Missing /\ toFetch' = Missing /\ fetchedTxs' = fetchedTxs
            /\ pc' = "fetch" /\ moved' = moved
        BY <1>5, <2>2, <3>3 DEF Evict
      <4>2. Stayed \subseteq Missing \cup txstore'
        BY <3>1 DEF Missing, Evicted, MovedInv, EntriesInv
      <4>3. txstore' \subseteq pool \cup moved
        BY <3>1 DEF Evicted, MovedInv
      <4>4. fetchedTxs = {}
        BY <3>1 DEF LocalsInv
      <4> QED
        BY <3>1, <4>1, <4>2, <4>3, <4>4 DEF MovedInv, Stayed
    <3> QED
      BY <3>2, <3>3
  <2> QED
    BY <2>1, <2>2
<1>6. ASSUME NEW t \in Tx, Fetch(t)
      PROVE  MovedInv'
  BY <1>6 DEF Fetch, MovedInv, Stayed
<1>7. CASE CheckTip
  BY <1>7 DEF CheckTip, EndUpdate, MovedInv, Stayed
<1>8. CASE AddFetched
  BY <1>0, <1>8 DEF AddFetched, EndUpdate, MovedInv, Stayed
<1>9. ASSUME NEW t \in Tx, DaemonAccepts(t) \/ DaemonEvicts(t) \/ Broadcast(t)
      PROVE  MovedInv'
  BY <1>9, MovedDaemon DEF DaemonAccepts, DaemonEvicts, Broadcast
<1>10. ASSUME NEW txs \in SUBSET Tx, DaemonMoves(txs)
       PROVE  MovedInv'
  BY <1>10, MovedDaemon DEF DaemonMoves
<1>11. ASSUME NEW t \in Tx, AddByTxid(t)
       PROVE  MovedInv'
  <2>1. CASE t \in pool /\ AddTxs({t})
    <3>1. txstore' = txstore \cup {t} /\ UNCHANGED <<pool, pc, locals, moved>>
      BY <1>11, <2>1 DEF AddByTxid, AddTxs
    <3> QED
      BY <2>1, <3>1 DEF MovedInv, Stayed
  <2>2. CASE ~(t \in pool /\ AddTxs({t}))
    BY <1>1, <1>11, <2>2 DEF AddByTxid
  <2> QED
    BY <2>1, <2>2
<1>12. ASSUME NEW t \in Tx, ReadTx(t) \/ ReadPrevouts(t)
       PROVE  MovedInv'
  BY <1>0, <1>1, <1>12 DEF ReadTx, ReadPrevouts
<1>13. CASE Restart \/ UNCHANGED vars
  BY <1>1, <1>13 DEF Restart, vars
<1> QED
  BY <1>2, <1>3, <1>4, <1>5, <1>6, <1>7, <1>8, <1>9, <1>10, <1>11, <1>12, <1>13
     DEF Next, MainLoop

\* No transaction is both in the mempool and on the chain.
LEMMA DisjointStep ==
    TypeInv /\ StayedInv /\ [Next]_vars => pool' \cap confirmed' = {}
<1> SUFFICES ASSUME TypeInv, pool \cap confirmed = {}, [Next]_vars
             PROVE  pool' \cap confirmed' = {}
  BY DEF StayedInv
<1>1. CASE UNCHANGED daemon
  BY <1>1 DEF daemon
<1>2. CASE MainLoop
  BY <1>1, <1>2 DEF MainLoop, IndexBlocks, ListDaemon, SnapshotView, Evict, Fetch,
                    CheckTip, AddFetched, Fail
<1>3. ASSUME NEW t \in Tx, DaemonAccepts(t) \/ DaemonEvicts(t) \/ Broadcast(t)
      PROVE  pool' \cap confirmed' = {}
  BY <1>3 DEF DaemonAccepts, DaemonEvicts, Broadcast, Accepts, Accept
<1>4. ASSUME NEW t \in Tx, AddByTxid(t) \/ ReadTx(t) \/ ReadPrevouts(t)
      PROVE  pool' \cap confirmed' = {}
  BY <1>1, <1>4 DEF AddByTxid, ReadTx, ReadPrevouts, Fail
<1>5. ASSUME NEW txs \in SUBSET Tx, DaemonMoves(txs)
      PROVE  pool' \cap confirmed' = {}
  BY <1>5 DEF DaemonMoves
<1>6. CASE Restart \/ UNCHANGED vars
  BY <1>1, <1>6 DEF Restart, vars
<1> QED
  BY <1>2, <1>3, <1>4, <1>5, <1>6 DEF Next

\* A parent of what stays in the mempool can only leave it for the chain.
LEMMA StayedDaemon ==
    ASSUME LocalsInv, StayedInv, PoolInv', pool' \cap confirmed' = {}, PoolMoves,
           \/ UNCHANGED <<confirmed, bestblock>>
           \/ bestblock' # tip,
           UNCHANGED <<tip, pc, locals>>
    PROVE  StayedInv'
<1> USE DEF locals
<1>1. CASE pc \in {"index", "list"}
  BY <1>1 DEF StayedInv, LocalsInv, Stayed
<1>2. CASE pc \notin {"index", "list"}
  <2>1. /\ (pool' \ moved') \subseteq Stayed
        /\ moved \subseteq moved'
    BY <1>2, MovesOnly
  <2>2. Snapshot' = Snapshot
    BY DEF Snapshot, WithDescendants, HasDescendants, Parents
  <2>3. ASSUME bestblock' = tip, NEW t \in pool' \ moved',
               NEW p \in Parents(t) \cap (bitcoindTxids \cup newTxids)
        PROVE  p \in pool' \ moved'
    <3>1. bestblock = tip /\ confirmed' = confirmed
      BY <2>3
    <3>2. p \in pool \ moved
      BY <2>1, <2>3, <3>1 DEF StayedInv, Stayed
    <3>3. p \notin confirmed
      BY <3>2 DEF StayedInv
    <3>4. p \in pool' \cup confirmed'
      BY <2>3 DEF PoolInv, Parents
    <3> QED
      BY <1>2, <3>1, <3>2, <3>3, <3>4 DEF PoolMoves
  <2> QED
    BY <2>1, <2>2, <2>3 DEF StayedInv, Stayed, Parents
<1> QED
  BY <1>1, <1>2

\* When all was asked for and the tip is still the best block, nothing that stayed
\* is a descendant of what could not be fetched.
LEMMA StayedKept ==
    ASSUME LocalsInv, MovedInv, StayedInv, bestblock = tip, pc = "check"
    PROVE  Stayed \cap newTxids \subseteq Snapshot
<1> DEFINE others == newTxids \ Stayed
           lost == newTxids \ fetchedTxs
<1>1. Stayed \cap newTxids \subseteq fetchedTxs
  BY DEF MovedInv
<1>2. \A t \in fetchedTxs : Parents(t) \cap others # {} => t \in others
  BY DEF StayedInv, LocalsInv
<1>3. HasDescendants(others, lost, fetchedTxs)
  BY <1>1, <1>2 DEF HasDescendants
<1>4. others \in SUBSET (lost \cup fetchedTxs)
  BY DEF LocalsInv
<1>5. WithDescendants(lost, fetchedTxs) \subseteq others
  BY <1>3, <1>4 DEF WithDescendants
<1> QED
  BY <1>1, <1>5 DEF Snapshot

LEMMA StayedStep ==
    /\ TypeInv /\ LocalsInv /\ PoolInv /\ TipInv /\ MovedInv /\ StayedInv
    /\ [Next]_vars
    => StayedInv'
<1> SUFFICES ASSUME TypeInv, LocalsInv, PoolInv, TipInv, MovedInv, StayedInv, [Next]_vars
             PROVE  StayedInv'
  OBVIOUS
<1> USE DEF daemon, view, locals, threads
<1>0. PoolInv' /\ pool' \cap confirmed' = {}
  BY PoolStep, DisjointStep
<1>1. ASSUME UNCHANGED <<pool, confirmed, moved, bestblock, tip, pc, locals>>
      PROVE  StayedInv'
  BY <1>1 DEF StayedInv, Stayed, Snapshot, WithDescendants, HasDescendants, Parents
<1>2. ASSUME pc' \in {"index", "list"}, bitcoindTxids' = {}, newTxids' = {}
      PROVE  StayedInv'
  BY <1>0, <1>2 DEF StayedInv
<1>3. CASE IndexBlocks
  BY <1>2, <1>3 DEF IndexBlocks, LocalsInv
<1>4. CASE ListDaemon
  <2>1. /\ pc' = "snapshot" /\ bitcoindTxids' = pool /\ newTxids' = {}
        /\ pool' = pool /\ moved' = {}
    BY <1>4 DEF ListDaemon, LocalsInv, MovedInv
  <2> QED
    BY <1>0, <2>1 DEF StayedInv, Stayed
<1>5. CASE SnapshotView
  BY <1>5 DEF SnapshotView, StayedInv, Stayed, Parents
<1>6. CASE Evict
  <2>1. CASE pc' = "index"
    BY <1>2, <1>6, <2>1 DEF Evict, Fail, EndUpdate, LocalsInv
  <2>2. CASE pc' # "index"
    <3>1. /\ pc' = "fetch" /\ newTxids' = Missing /\ bitcoindTxids' = {}
          /\ UNCHANGED <<pool, confirmed, moved, bestblock, tip>>
      BY <1>6, <2>2 DEF Evict, Fail, EndUpdate
    <3> QED
      BY <3>1 DEF StayedInv, Stayed, Missing, Parents
  <2> QED
    BY <2>1, <2>2
<1>7. ASSUME NEW t \in Tx, Fetch(t)
      PROVE  StayedInv'
  BY <1>7 DEF Fetch, StayedInv, Stayed, Parents
<1>8. CASE CheckTip
  <2>1. CASE TipUnchanged
    <3>1. /\ pc = "check" /\ pc' = "add" /\ bestblock = tip
          /\ UNCHANGED <<pool, confirmed, moved, bestblock, tip, locals>>
      BY <1>8, <2>1 DEF CheckTip, TipUnchanged
    <3>2. Stayed \cap newTxids \subseteq Snapshot
      BY <3>1, StayedKept
    <3> QED
      BY <3>1, <3>2 DEF StayedInv, Stayed, Snapshot, WithDescendants, HasDescendants,
                        Parents
  <2>2. CASE ~TipUnchanged
    BY <1>2, <1>8, <2>2 DEF CheckTip, EndUpdate, LocalsInv
  <2> QED
    BY <2>1, <2>2
<1>9. CASE AddFetched
  BY <1>2, <1>9 DEF AddFetched, Fail, EndUpdate
<1>10. ASSUME NEW t \in Tx, DaemonAccepts(t) \/ DaemonEvicts(t) \/ Broadcast(t)
       PROVE  StayedInv'
  BY <1>0, <1>10, StayedDaemon DEF DaemonAccepts, DaemonEvicts, Broadcast
<1>11. ASSUME NEW txs \in SUBSET Tx, DaemonMoves(txs)
       PROVE  StayedInv'
  <2>1. bestblock' # tip
    BY <1>11 DEF DaemonMoves, TipInv, TypeInv
  <2> QED
    BY <1>0, <1>11, <2>1, StayedDaemon DEF DaemonMoves
<1>12. ASSUME NEW t \in Tx, AddByTxid(t) \/ ReadTx(t)
       PROVE  StayedInv'
  BY <1>1, <1>12 DEF AddByTxid, ReadTx
<1>13. ASSUME NEW t \in Tx, ReadPrevouts(t)
       PROVE  StayedInv'
  BY <1>1, <1>2, <1>13 DEF ReadPrevouts, Fail
<1>14. CASE Restart \/ UNCHANGED vars
  BY <1>1, <1>14 DEF Restart, vars
<1> QED
  BY <1>3, <1>4, <1>5, <1>6, <1>7, <1>8, <1>9, <1>10, <1>11, <1>12, <1>13, <1>14
     DEF Next, MainLoop

LEMMA FollowsStep ==
    ASSUME LocalsInv, EntriesInv, MovedInv, StayedInv, [Next]_vars, UpdateSucceeds
    PROVE  txstore' \ moved = pool \ moved
<1> USE DEF daemon, view, locals, threads, UpdateSucceeds
<1>1. CASE Evict
  <2>1. Missing = {} /\ pc = "evict" /\ txstore' = txstore \ Evicted
    BY <1>1 DEF Evict, Fail, RemoveTxs
  <2>2. Stayed \subseteq bitcoindTxids /\ bitcoindTxids \subseteq pool \cup moved
    BY <2>1 DEF MovedInv
  <2>3. Stayed \subseteq txstore'
    BY <2>1, <2>2 DEF Missing, Evicted, EntriesInv
  <2>4. txstore' \subseteq pool \cup moved
    BY <2>1, <2>2 DEF Evicted, MovedInv
  <2> QED
    BY <2>3, <2>4 DEF Stayed
<1>2. CASE AddFetched
  <2>1. pc = "add" /\ txstore' = txstore \cup Snapshot
    BY <1>2 DEF AddFetched, Fail, AddTxs
  <2>2. Stayed \subseteq txstore'
    BY <2>1 DEF MovedInv, StayedInv
  <2>3. txstore' \subseteq pool \cup moved
    BY <2>1 DEF Snapshot, MovedInv
  <2> QED
    BY <2>2, <2>3 DEF Stayed
<1>3. ASSUME pc' = pc \/ pc \notin {"evict", "add"} \/ failed' # "no"
      PROVE  FALSE
  BY <1>3
<1>4. CASE MainLoop /\ ~Evict /\ ~AddFetched
  BY <1>3, <1>4 DEF MainLoop, IndexBlocks, ListDaemon, SnapshotView, Fetch, CheckTip
<1>5. CASE \E t \in Tx : \/ DaemonAccepts(t) \/ DaemonEvicts(t) \/ Broadcast(t)
                         \/ AddByTxid(t) \/ ReadTx(t) \/ ReadPrevouts(t)
  BY <1>3, <1>5 DEF DaemonAccepts, DaemonEvicts, Broadcast, AddByTxid, ReadTx,
                    ReadPrevouts, Fail
<1>6. CASE (\E txs \in SUBSET Tx : DaemonMoves(txs)) \/ Restart \/ UNCHANGED vars
  BY <1>3, <1>6 DEF DaemonMoves, Restart, vars
<1> QED
  BY <1>1, <1>2, <1>4, <1>5, <1>6 DEF Next

\* After every successful update the view has what stayed in the daemon's mempool
\* since it was listed, and nothing that stayed out of it.
THEOREM UpdateFollowsPool == Spec => FollowsPool
<1>1. Init => TypeInv /\ LocalsInv /\ EntriesInv
  BY InitInv
<1>2. Init => PoolInv /\ TipInv /\ MovedInv /\ StayedInv
  BY DEF Init, PoolInv, TipInv, MovedInv, StayedInv, Consistent
<1>3. LocalsInv /\ EntriesInv /\ MovedInv /\ StayedInv /\ [Next]_vars
      => [UpdateSucceeds => txstore' \ moved = pool \ moved]_vars
  BY FollowsStep
<1> QED
  BY <1>1, <1>2, <1>3, TypeStep, LocalsStep, EntriesStep, PoolStep, TipStep, MovedStep,
     StayedStep, PTL DEF Spec, FollowsPool
=============================================================================
