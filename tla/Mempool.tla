------------------------------- MODULE Mempool -------------------------------
(***************************************************************************)
(* The local view of the daemon's mempool                                  *)
(* (liquid-electrs/electrs/src/new_index/mempool.rs), as three kinds of    *)
(* threads use it:                                                         *)
(*                                                                         *)
(*   - the main loop (bin/electrs.rs), which indexes new blocks and then   *)
(*     brings the view up to date in Mempool::update.  It reads the        *)
(*     daemon several times, and holds the lock only to take a snapshot,   *)
(*     to remove, and to add;                                              *)
(*   - RPC threads that broadcast a transaction and add it to the view     *)
(*     (Query::broadcast_raw), with the write lock held;                   *)
(*   - REST threads that read a transaction and then, under a new lock,  *)
(*     the outputs it spends (prepare_txs).                                *)
(*                                                                         *)
(* The daemon accepts, replaces and evicts transactions and moves its best *)
(* block at any moment.  Its chain is given by the transactions of this    *)
(* instance that it confirms; the indexer by the transactions in txstore,  *)
(* which keeps those of stale blocks.                                      *)
(*                                                                         *)
(* Left out: fees, recent transactions, backlog statistics, asset history. *)
(***************************************************************************)
EXTENDS Integers, FiniteSets

CONSTANTS
    Tx,           \* transaction ids
    Txo,          \* transaction outputs (outpoints)
    Outputs,      \* Outputs[t]: the outputs t creates
    Prevouts,     \* Prevouts[t]: the outputs t spends
    MaxTip,       \* bound on the daemon's best blocks
    RpcThreads,   \* bound on broadcasts under way
    RestThreads   \* bound on reads under way

ASSUME MempoolAssumption ==
    /\ IsFiniteSet(Tx)
    /\ Outputs \in [Tx -> SUBSET Txo]
    /\ Prevouts \in [Tx -> SUBSET Txo]
    /\ \A t, u \in Tx : t # u => Outputs[t] \cap Outputs[u] = {}
    /\ {MaxTip, RpcThreads, RestThreads} \subseteq Nat

VARIABLES
    pool,           \* the daemon's mempool
    confirmed,      \* transactions on the daemon's best chain
    bestblock,      \* the daemon's best block, numbered as it adopts them
    tip,            \* run_server: the tip the indexer last synced to
    chain,          \* transactions in the indexer's txstore
    txstore,        \* Mempool.txstore
    edges,          \* Mempool.edges: output -> spending transaction
    entries,        \* Mempool.history: how often the rows of t are in it
    pc,             \* the step the main loop is at
    bitcoindTxids,  \* update(): the daemon's list of mempool txids
    indexedTxids,   \* update(): the local txids, after that list was taken
    newTxids,       \* update(): the txids to fetch and add
    toFetch,        \* update(): those not yet asked for
    fetchedTxs,     \* update(): the transactions fetched
    serving,        \* the servers were started
    sent,           \* RPC threads between broadcast_raw and add_by_txid
    reading,        \* the transactions REST threads have read
    failed,         \* why the process stops: "no", "add", "remove", "lookup"
    replaced,       \* history variable: an edge of a local tx was overwritten
    moved           \* history variable: what entered or left the daemon's
                    \* mempool since update() listed it

daemon == <<pool, confirmed, bestblock>>
view == <<txstore, edges, entries>>
locals == <<bitcoindTxids, indexedTxids, newTxids, toFetch, fetchedTxs>>
threads == <<serving, sent, reading>>
vars == <<daemon, tip, chain, view, pc, locals, threads, failed, replaced, moved>>

Spent(txs) == UNION {Prevouts[t] : t \in txs}

Created(txs) == UNION {Outputs[t] : t \in txs}

Parents(t) == {p \in Tx : Outputs[p] \cap Prevouts[t] # {}}

Conflict(t, u) == t # u /\ Prevouts[t] \cap Prevouts[u] # {}

HasDescendants(s, txs, among) ==
    /\ txs \subseteq s
    /\ \A t \in among : Parents(t) \cap s # {} => t \in s

\* txs, and every transaction of `among` that spends from them, at any depth:
\* what is in every set that holds txs and, with a transaction, its children.
WithDescendants(txs, among) ==
    {t \in txs \cup among :
        \A s \in SUBSET (txs \cup among) : HasDescendants(s, txs, among) => t \in s}

TypeOK ==
    /\ pool \in SUBSET Tx
    /\ confirmed \in SUBSET Tx
    /\ bestblock \in 0..MaxTip
    /\ tip \in 0..MaxTip
    /\ chain \in SUBSET Tx
    /\ txstore \in SUBSET Tx
    /\ DOMAIN edges \in SUBSET Txo
    /\ \A o \in DOMAIN edges : edges[o] \in Tx
    /\ entries \in [Tx -> 0..2]
    /\ pc \in {"index", "list", "snapshot", "evict", "fetch", "check", "add"}
    /\ bitcoindTxids \in SUBSET Tx
    /\ indexedTxids \in SUBSET Tx
    /\ newTxids \in SUBSET Tx
    /\ toFetch \in SUBSET Tx
    /\ fetchedTxs \in SUBSET Tx
    /\ serving \in BOOLEAN
    /\ sent \in SUBSET Tx
    /\ reading \in SUBSET Tx
    /\ failed \in {"no", "add", "remove", "lookup"}
    /\ replaced \in BOOLEAN
    /\ moved \in SUBSET Tx

Init ==
    /\ pool = {}
    /\ confirmed = {}
    /\ bestblock = 0
    /\ tip = 0
    /\ chain = {}
    /\ txstore = {}
    /\ edges = << >>
    /\ entries = [t \in Tx |-> 0]
    /\ pc = "index"
    /\ bitcoindTxids = {}
    /\ indexedTxids = {}
    /\ newTxids = {}
    /\ toFetch = {}
    /\ fetchedTxs = {}
    /\ serving = FALSE
    /\ sent = {}
    /\ reading = {}
    /\ failed = "no"
    /\ replaced = FALSE
    /\ moved = {}

Running == failed = "no"

\* An error of update() ends run_server, and a panic in any thread aborts the
\* process (panic = 'abort'): its memory is gone, txstore is on disk.
Fail(why) ==
    /\ failed' = why
    /\ txstore' = {}
    /\ edges' = << >>
    /\ entries' = [t \in Tx |-> 0]
    /\ pc' = "index"
    /\ bitcoindTxids' = {}
    /\ indexedTxids' = {}
    /\ newTxids' = {}
    /\ toFetch' = {}
    /\ fetchedTxs' = {}
    /\ serving' = FALSE
    /\ sent' = {}
    /\ reading' = {}
    /\ moved' = {}
    /\ UNCHANGED <<daemon, tip, chain, replaced>>

(***************************************************************************)
(* The view: Mempool::add, lookup_txos and remove, called with the lock.   *)
(***************************************************************************)
\* lookup_txos: in the view, else in txstore, which also holds the outputs
\* that no transaction of this instance creates.
Found(outs) == outs \cap Created(Tx) \subseteq Created(txstore \cup chain)

CanAdd(txs) == Found(Spent(txs) \ Created(txs))

AddTxs(txs) ==
    /\ txstore' = txstore \cup txs
    /\ entries' = [t \in Tx |-> entries[t] + IF t \in txs THEN 1 ELSE 0]
    /\ edges' = [o \in DOMAIN edges \cup Spent(txs) |->
                   IF o \in Spent(txs) THEN CHOOSE t \in txs : o \in Prevouts[t]
                                       ELSE edges[o]]
    /\ replaced' = (replaced \/ \E o \in Spent(txs) \cap DOMAIN edges :
                                    edges[o] \notin txs)

\* remove asserts that it finds the edge of every input: it does unless an edge
\* is missing or two of the transactions share an input.
CanRemove(txs) ==
    /\ Spent(txs) \subseteq DOMAIN edges
    /\ \A t, u \in txs : ~Conflict(t, u)

\* Mutant: the edges of a removed transaction stay.
RemoveTxsButEdges(txs) ==
    /\ txstore' = txstore \ txs
    /\ entries' = [t \in Tx |-> IF t \in txs THEN 0 ELSE entries[t]]
    /\ UNCHANGED edges

RemoveTxs(txs) ==
    /\ txstore' = txstore \ txs
    /\ entries' = [t \in Tx |-> IF t \in txs THEN 0 ELSE entries[t]]
    /\ edges' = [o \in DOMAIN edges \ Spent(txs) |-> edges[o]]

(***************************************************************************)
(* The main loop.                                                          *)
(***************************************************************************)
\* indexer.update, when the daemon's best block is not the synced tip.
IndexBlocks ==
    /\ Running
    /\ pc = "index"
    /\ tip' = bestblock
    /\ chain' = IF bestblock = tip THEN chain ELSE chain \cup confirmed
    /\ pc' = "list"
    /\ UNCHANGED <<daemon, view, locals, threads, failed, replaced, moved>>

ListDaemon ==
    /\ Running
    /\ pc = "list"
    /\ bitcoindTxids' = pool
    /\ pc' = "snapshot"
    /\ UNCHANGED <<daemon, tip, chain, view, indexedTxids, newTxids, toFetch,
                   fetchedTxs, threads, failed, replaced, moved>>

SnapshotView ==
    /\ Running
    /\ pc = "snapshot"
    /\ indexedTxids' = txstore
    /\ pc' = "evict"
    /\ UNCHANGED <<daemon, tip, chain, view, bitcoindTxids, newTxids, toFetch,
                   fetchedTxs, threads, failed, replaced, moved>>

\* Mutant: only what the daemon confirmed is removed.
EvictedWhenConfirmed == (indexedTxids \ bitcoindTxids) \cap chain

Evicted == indexedTxids \ bitcoindTxids

Missing == bitcoindTxids \ indexedTxids

\* The update is over, Ok(true) or Ok(false): back to the main loop.
EndUpdate(synced) ==
    /\ pc' = "index"
    /\ serving' = (serving \/ synced)
    /\ bitcoindTxids' = {}
    /\ indexedTxids' = {}
    /\ newTxids' = {}
    /\ toFetch' = {}
    /\ fetchedTxs' = {}
    /\ moved' = {}
    /\ UNCHANGED <<sent, reading>>

Evict ==
    /\ Running
    /\ pc = "evict"
    /\ IF ~CanRemove(Evicted)
         THEN Fail("remove")
         ELSE /\ RemoveTxs(Evicted)
              /\ IF Missing = {}
                   THEN EndUpdate(TRUE)
                   ELSE /\ pc' = "fetch"
                        /\ newTxids' = Missing
                        /\ toFetch' = Missing
                        /\ bitcoindTxids' = {}
                        /\ indexedTxids' = {}
                        /\ UNCHANGED <<fetchedTxs, threads, moved>>
              /\ UNCHANGED <<daemon, tip, chain, failed, replaced>>

\* gettransactions_available asks for each transaction on its own, from a pool
\* of threads, and skips those the daemon no longer has in its mempool.  (With
\* -txindex it would also return one that was confirmed since: the tip moved.)
Fetch(t) ==
    /\ Running
    /\ pc = "fetch"
    /\ t \in toFetch
    /\ toFetch' = toFetch \ {t}
    /\ fetchedTxs' = fetchedTxs \cup ({t} \cap pool)
    /\ pc' = IF toFetch' = {} THEN "check" ELSE "fetch"
    /\ UNCHANGED <<daemon, tip, chain, view, bitcoindTxids, indexedTxids, newTxids,
                   threads, failed, replaced, moved>>

\* Mutant: the update goes on when the tip moved while it fetched.
TipIgnored == TRUE

TipUnchanged == bestblock = tip

CheckTip ==
    /\ Running
    /\ pc = "check"
    /\ IF TipUnchanged
         THEN pc' = "add" /\ UNCHANGED <<locals, threads, moved>>
         ELSE EndUpdate(FALSE)
    /\ UNCHANGED <<daemon, tip, chain, view, failed, replaced>>

\* Mutant: what spends from a transaction that was not fetched is added too.
FetchedAsIs == fetchedTxs

\* The fetched transactions, without the descendants of those that were listed
\* and could not be fetched.
Snapshot ==
    fetchedTxs \ WithDescendants(newTxids \ fetchedTxs, fetchedTxs)

AddFetched ==
    /\ Running
    /\ pc = "add"
    /\ IF ~CanAdd(Snapshot)
         THEN Fail("add")
         ELSE /\ AddTxs(Snapshot)
              /\ EndUpdate(TRUE)
              /\ UNCHANGED <<daemon, tip, chain, failed>>

MainLoop ==
    \/ IndexBlocks
    \/ ListDaemon
    \/ SnapshotView
    \/ Evict
    \/ \E t \in Tx : Fetch(t)
    \/ CheckTip
    \/ AddFetched

(***************************************************************************)
(* The daemon.                                                             *)
(***************************************************************************)
\* While update() works on its list, what enters or leaves the mempool moves.
PoolMoves ==
    moved' = IF pc \in {"index", "list"} THEN {}
             ELSE moved \cup (pool \ pool') \cup (pool' \ pool)

\* t is valid on top of the daemon's chain and mempool, where it replaces what
\* it conflicts with.
Replaces(t) == WithDescendants({u \in pool : Conflict(t, u)}, pool)

Accepts(t) ==
    /\ t \notin confirmed
    /\ \A u \in confirmed : ~Conflict(t, u)
    /\ Parents(t) \subseteq confirmed \cup (pool \ Replaces(t))

Accept(t) == pool' = (pool \ Replaces(t)) \cup {t}

DaemonAccepts(t) ==
    /\ t \notin pool
    /\ Accepts(t)
    /\ Accept(t)
    /\ PoolMoves
    /\ UNCHANGED <<confirmed, bestblock, tip, chain, view, pc, locals, threads,
                   failed, replaced>>

\* Expiry or a full mempool: a transaction goes with its descendants.
DaemonEvicts(t) ==
    /\ t \in pool
    /\ pool' = pool \ WithDescendants({t}, pool)
    /\ PoolMoves
    /\ UNCHANGED <<confirmed, bestblock, tip, chain, view, pc, locals, threads,
                   failed, replaced>>

\* A new best block, on the chain or on another branch.  Transactions that are
\* no longer confirmed go back to the mempool, unless the new chain conflicts
\* with them or with an ancestor.  A best block is never adopted twice.
DaemonMoves(txs) ==
    /\ bestblock < MaxTip
    /\ \A t \in txs : Parents(t) \subseteq txs
    /\ \A t, u \in txs : ~Conflict(t, u)
    /\ bestblock' = bestblock + 1
    /\ confirmed' = txs
    /\ LET unconfirmed == (pool \cup confirmed) \ txs
           stale == {t \in unconfirmed : \E u \in txs : Conflict(t, u)}
       IN  pool' = unconfirmed \ WithDescendants(stale, unconfirmed)
    /\ PoolMoves
    /\ UNCHANGED <<tip, chain, view, pc, locals, threads, failed, replaced>>

(***************************************************************************)
(* RPC and REST threads.                                                   *)
(***************************************************************************)
\* The daemon's answer to sendrawtransaction: accepted, or there already.
Broadcast(t) ==
    /\ Running
    /\ serving
    /\ Cardinality(sent) < RpcThreads
    /\ IF t \in pool THEN UNCHANGED pool ELSE Accepts(t) /\ Accept(t)
    /\ PoolMoves
    /\ sent' = sent \cup {t}
    /\ UNCHANGED <<confirmed, bestblock, tip, chain, view, pc, locals, serving,
                   reading, failed, replaced>>

\* Mutant: add_by_txid adds a transaction that the view already holds.
WantedAlways(t) == TRUE

Wanted(t) == t \notin txstore

\* add_by_txid, whose errors broadcast_raw ignores.
AddByTxid(t) ==
    /\ Running
    /\ t \in sent
    /\ sent' = sent \ {t}
    /\ IF Wanted(t) /\ t \in pool /\ CanAdd({t})
         THEN AddTxs({t})
         ELSE UNCHANGED <<view, replaced>>
    /\ UNCHANGED <<daemon, tip, chain, pc, locals, serving, reading, failed, moved>>

\* Query::lookup_txn, Mempool::history: a request reads a transaction ...  (One
\* that spends none of this instance's outputs is answered and changes nothing.)
ReadTx(t) ==
    /\ Running
    /\ serving
    /\ t \in txstore \ reading
    /\ Parents(t) # {}
    /\ Cardinality(reading) < RestThreads
    /\ reading' = reading \cup {t}
    /\ UNCHANGED <<daemon, tip, chain, view, pc, locals, serving, sent, failed,
                   replaced, moved>>

\* ... and then the outputs it spends, which it expects to find.
ReadPrevouts(t) ==
    /\ Running
    /\ t \in reading
    /\ IF ~Found(Prevouts[t])
         THEN Fail("lookup")
         ELSE /\ reading' = reading \ {t}
              /\ UNCHANGED <<daemon, tip, chain, view, pc, locals, serving, sent,
                             failed, replaced, moved>>

\* The service manager starts the process again.
Restart ==
    /\ ~Running
    /\ failed' = "no"
    /\ replaced' = FALSE
    /\ UNCHANGED <<daemon, tip, chain, view, pc, locals, threads, moved>>

Next ==
    \/ MainLoop
    \/ \E t \in Tx : \/ DaemonAccepts(t) \/ DaemonEvicts(t)
                     \/ Broadcast(t) \/ AddByTxid(t)
                     \/ ReadTx(t) \/ ReadPrevouts(t)
    \/ \E txs \in SUBSET Tx : DaemonMoves(txs)
    \/ Restart

Spec == Init /\ [][Next]_vars

\* The main loop runs every 5 seconds and its calls return; the service manager
\* restarts what stopped.  Nothing is assumed of the daemon or of the clients.
FairSpec == Spec /\ WF_vars(MainLoop) /\ WF_vars(Restart)

(***************************************************************************)
(* Properties.                                                             *)
(***************************************************************************)
\* The main loop never ends on the error of Mempool::update: the outputs spent
\* by what it adds are in the view or in txstore, whatever was replaced or
\* confirmed while it fetched (mempool.rs:585-631).
UpdateNeverFails == failed # "add"

\* The maps of the view describe the same transactions, and remove finds what it
\* asserts it finds, until a replacement is added while the transaction it
\* replaces is still in the view.
ViewAgrees == ~replaced =>
    /\ failed # "remove"
    /\ \A t \in Tx : entries[t] > 0 <=> t \in txstore
    /\ DOMAIN edges = Spent(txstore)
    /\ \A t \in txstore : \A o \in Prevouts[t] : edges[o] = t

\* remove finds the edge of every transaction it removes (the assertion at
\* mempool.rs:497-503).
EdgesFound == failed # "remove"

\* The outputs that a transaction read from the mempool spends are found (the
\* expect at query.rs:143, and the comment at query.rs:140).
PrevoutsLoaded == failed # "lookup"

\* When an update ends in success (Ok(true)), the view has every transaction that was in the
\* daemon's mempool all the time since it was listed, and none that was not in it
\* at any time since, whatever was broadcast, fetched in vain or left out with its
\* ancestors meanwhile.
UpdateSucceeds == pc \in {"evict", "add"} /\ pc' = "index" /\ failed' = "no"

FollowsPool == [][UpdateSucceeds => txstore' \ moved = pool \ moved]_vars

\* When the daemon's mempool and chain settle and nothing is broadcast any more,
\* the view becomes and stays that mempool, whatever happened before.
SettlesOnPool ==
    <>[][pool' = pool]_vars /\ <>[](sent = {}) => <>[](txstore = pool)
=============================================================================
