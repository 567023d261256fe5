------------------------------- MODULE Indexer -------------------------------
(***************************************************************************)
(* The electrs indexer (liquid-electrs/electrs/src/new_index/schema.rs):   *)
(* Store::open and Indexer::update, one action per step that another       *)
(* thread, the disk or a crash can tell apart.                             *)
(*                                                                         *)
(* The store is two RocksDB databases.  txstore holds the transactions of  *)
(* every block ever added and the row "t", the last synced tip; history    *)
(* holds the rows of the blocks on the best chain.  A write batch is       *)
(* atomic.  Until the first update of a process ends, batches bypass the   *)
(* write-ahead log (DBFlush::Disable), so a crash loses the batches that   *)
(* RocksDB has not flushed on its own, in each database independently.     *)
(*                                                                         *)
(* HeaderList is the sequence `headers`; header_by_height(h) is            *)
(* headers[h + 1].  The daemon may move its best block at any moment, and  *)
(* serves the headers and blocks of every branch it knows.                 *)
(*                                                                         *)
(* Left out: the cache database, the light mode, compaction, metrics.      *)
(***************************************************************************)
EXTENDS BlockTree

CONSTANTS
    BatchSize,  \* --block-batch-size, also the size of the chunks of an undo
    BlkFile,    \* BlkFile[b]: the number of the blk*.dat file that holds b
    JsonrpcImport  \* --jsonrpc-import: never read the blk*.dat files

ASSUME IndexerAssumption ==
    /\ BatchSize \in Nat \ {0}
    /\ BlkFile \in [Block -> Nat]
    /\ JsonrpcImport \in BOOLEAN

VARIABLES
    bestblock,    \* the daemon's best block (getbestblockhash)
    txstore,      \* txstore_db: [done |-> blocks with a "D" row, t |-> tip row]
    history,      \* history_db: [done |-> blocks with a "D" row, rows |-> rows]
    txdisk,       \* what a crash now would leave of txstore_db
    histdisk,     \* what a crash now would leave of history_db
    added,        \* Store.added_blockhashes
    indexed,      \* Store.indexed_blockhashes
    headers,      \* Store.indexed_headers
    walDisabled,  \* Indexer.flush = DBFlush::Disable
    blkFiles,     \* Indexer.from = FetchFrom::BlkFiles
    pc,           \* the step the indexer is at
    tip,          \* update(): the daemon's tip this update works towards
    newHeaders,   \* update(): headers to append at the end
    undoing,      \* update(): popped blocks whose rows are not yet deleted
    pending,      \* update(): blocks still to be added or indexed
    batch,        \* update(): the fetched batch, after add and before index
    orphans       \* history variable, see StartUpdate

dbs == <<txstore, history, txdisk, histdisk>>
store == <<added, indexed, headers>>
update == <<tip, newHeaders, undoing, pending, batch>>
vars == <<bestblock, dbs, store, walDisabled, blkFiles, pc, update, orphans>>

Steps == {"down", "opened", "idle", "undo", "plan", "add", "index",
          "flush_txstore", "flush_history", "put_tip", "append", "panicked"}

EmptyTxstore == [done |-> {}, t |-> NoBlock]
EmptyHistory == [done |-> {}, rows |-> {}]

Row == [code : {"C", "H", "S"}, ref : Tx \cup Txo, by : Tx, height : Nat]

TypeOK ==
    /\ bestblock \in Block
    /\ txstore \in [done : SUBSET Block, t : Block \cup {NoBlock}]
    /\ txdisk \in [done : SUBSET Block, t : Block \cup {NoBlock}]
    /\ history \in [done : SUBSET Block, rows : SUBSET Row]
    /\ histdisk \in [done : SUBSET Block, rows : SUBSET Row]
    /\ added \in SUBSET Block
    /\ indexed \in SUBSET Block
    /\ headers \in Seq(Block)
    /\ walDisabled \in BOOLEAN
    /\ blkFiles \in BOOLEAN
    /\ pc \in Steps
    /\ tip \in Block \cup {NoBlock}
    /\ newHeaders \in Seq(Block)
    /\ undoing \in SUBSET Block
    /\ pending \in SUBSET Block
    /\ batch \in SUBSET Block
    /\ orphans \in SUBSET Block

Up == pc \notin {"down", "panicked"}

NoLocals ==
    /\ tip' = NoBlock
    /\ newHeaders' = <<>>
    /\ undoing' = {}
    /\ pending' = {}
    /\ batch' = {}

Init ==
    /\ bestblock \in Block
    /\ txstore = EmptyTxstore
    /\ txdisk = EmptyTxstore
    /\ history = EmptyHistory
    /\ histdisk = EmptyHistory
    /\ added = {}
    /\ indexed = {}
    /\ headers = <<>>
    /\ walDisabled = TRUE
    /\ blkFiles = FALSE
    /\ pc = "down"
    /\ tip = NoBlock
    /\ newHeaders = <<>>
    /\ undoing = {}
    /\ pending = {}
    /\ batch = {}
    /\ orphans = {}

(***************************************************************************)
(* The databases.                                                          *)
(***************************************************************************)
\* DB::write_rows: a put replaces the row that has its key.
WriteRows(rows, new) ==
    {r \in rows : \A s \in new : ~SameKey(r, s)} \cup new

\* Mutant: the edges of undone spends are left behind.
DeleteRowsButEdges(rows, old) ==
    {r \in rows : r.code # "S" => \A s \in old : ~SameKey(r, s)}

\* DB::delete_rows: a delete removes the row that has its key.
DeleteRows(rows, old) ==
    {r \in rows : \A s \in old : ~SameKey(r, s)}

\* DB::write_batch: with the write-ahead log a batch is synced; without it
\* the disk keeps what it had.
SetTxstore(new) ==
    /\ txstore' = new
    /\ txdisk' = IF walDisabled THEN txdisk ELSE new

SetHistory(new) ==
    /\ history' = new
    /\ histdisk' = IF walDisabled THEN histdisk ELSE new

\* lookup_txos finds the O row of every prevout of the blocks.
PrevoutsFound(bs) ==
    \A b \in bs : PrevoutsIn(b) \subseteq UNION {OutputsIn(c) : c \in txstore.done}

\* _index neither unwraps a missing prevout nor meets a block not added.
CanIndex(bs) == PrevoutsFound(bs) /\ bs \subseteq added

Panic ==
    /\ pc' = "panicked"
    /\ UNCHANGED <<bestblock, dbs, store, walDisabled, blkFiles, update, orphans>>

(***************************************************************************)
(* Store::open and Indexer::open.                                          *)
(***************************************************************************)
IndexedHeights(b, done) == {i \in 1..Len(ChainOf[b]) : ChainOf[b][i] \in done}

\* The first indexed block at or below t, as a position on the chain of t.
IsWalkBack(i) ==
    /\ i \in IndexedHeights(txdisk.t, histdisk.done)
    /\ \A j \in IndexedHeights(txdisk.t, histdisk.done) : j <= i

\* Both loops look the headers up in the "B" rows of txstore.
HeadersFound == \E i \in 1..Len(ChainOf[txdisk.t]) :
    /\ IsWalkBack(i)
    /\ Blocks(ChainOf[txdisk.t]) \subseteq txdisk.done

Open ==
    /\ pc = "down"
    /\ IF txdisk.t # NoBlock /\ ~HeadersFound
         THEN Panic
         ELSE /\ pc' = "opened"
              /\ added' = txdisk.done
              /\ indexed' = histdisk.done
              /\ IF txdisk.t = NoBlock
                   THEN headers' = <<>>
                   ELSE \E i \in 1..Len(ChainOf[txdisk.t]) :
                          /\ IsWalkBack(i)
                          /\ headers' = SubSeq(ChainOf[txdisk.t], 1, i)
              /\ walDisabled' = TRUE
              /\ blkFiles' = (~JsonrpcImport /\ txdisk.t = NoBlock)
              /\ UNCHANGED <<bestblock, dbs, update, orphans>>

(***************************************************************************)
(* Indexer::update.                                                        *)
(***************************************************************************)
\* The part of the daemon's chain that get_new_headers need not fetch: its
\* walk back from the tip stops at the first block of the HeaderList.
IsForkLen(n) ==
    /\ n \in 0..Len(ChainOf[bestblock])
    /\ n > 0 => n <= Len(headers) /\ headers[n] = ChainOf[bestblock][n]
    /\ \A m \in (n + 1)..Len(ChainOf[bestblock]) :
         ChainOf[bestblock][m] \notin Blocks(headers)

\* Mutant: only a tip above the synced one starts an update.
TipIsHigher == tip # NoBlock /\ Height(bestblock) > Height(tip)

\* The main loop's comparison of getbestblockhash() with the synced tip.
TipChanged == bestblock # tip

\* The first update runs as soon as the store is open; the main loop calls
\* update again when the daemon's best block is not the one it synced.  (While
\* the mempool is first loaded update is called without that comparison; with
\* the same best block it changes nothing.)
\* Headers above the fork are popped at once, whether or not new ones exist
\* (preprocess handles a tip that shortens the chain).
\*
\* `orphans` records the blocks that are indexed now but are neither in the
\* HeaderList nor on the chain this update follows: nothing will undo them.
StartUpdate ==
    /\ \/ pc = "opened"
       \/ pc = "idle" /\ TipChanged
    /\ \E n \in 0..Len(ChainOf[bestblock]) :
        /\ IsForkLen(n)
        /\ tip' = bestblock
        /\ newHeaders' = SubSeq(ChainOf[bestblock], n + 1, Len(ChainOf[bestblock]))
        /\ headers' = SubSeq(headers, 1, n)
        /\ undoing' = {headers[i] : i \in (n + 1)..Len(headers)}
        /\ pc' = IF n < Len(headers) THEN "undo" ELSE "plan"
    /\ orphans' = orphans \cup
         (indexed \ (Blocks(headers) \cup Blocks(ChainOf[bestblock])))
    /\ UNCHANGED <<bestblock, dbs, added, indexed, walDisabled, blkFiles,
                   pending, batch>>

\* Mutant: without reorged_headers.reverse(), the oldest blocks first.
UndoChunkOldestFirst ==
    {b \in undoing : Cardinality({c \in undoing : Height(c) < Height(b)}) < BatchSize}

\* The popped headers are fetched in chunks, the blocks nearest the old tip
\* first (reorged_headers.reverse()).
UndoChunk ==
    {b \in undoing : Cardinality({c \in undoing : Height(c) > Height(b)}) < BatchSize}

\* undo_index: one atomic batch per chunk.
UndoIndex ==
    /\ pc = "undo"
    /\ IF ~CanIndex(UndoChunk)
         THEN Panic
         ELSE /\ SetHistory([done |-> history.done \ UndoChunk,
                             rows |-> DeleteRows(history.rows, RowsOfAll(UndoChunk))])
              /\ indexed' = indexed \ UndoChunk
              /\ undoing' = undoing \ UndoChunk
              /\ pc' = IF undoing' = {} THEN "plan" ELSE "undo"
              /\ UNCHANGED <<bestblock, txstore, txdisk, added, headers, walDisabled,
                             blkFiles, tip, newHeaders, pending, batch, orphans>>

\* Mutant: the first update of a process does not flush the databases.
AfterBatchesNoFlush == "put_tip"

\* Where the batch loop ends: flush what was written without the log.
AfterBatches == IF walDisabled THEN "flush_txstore" ELSE "put_tip"

\* Mutant: blocks already in txstore are taken to be indexed too.
ToProcessNotAdded == {b \in Blocks(newHeaders) : b \notin added}

\* headers_to_process
ToProcess == {b \in Blocks(newHeaders) : b \notin added \/ b \notin indexed}

Plan ==
    /\ pc = "plan"
    /\ pending' = ToProcess
    /\ pc' = IF pending' = {} THEN AfterBatches ELSE "add"
    /\ UNCHANGED <<bestblock, dbs, store, walDisabled, blkFiles, tip, newHeaders,
                   undoing, batch, orphans>>

\* Mutant: the daemon is asked for the highest blocks first.
NextBatchHighestFirst ==
    {b \in pending : Cardinality({c \in pending : Height(c) > Height(b)}) < BatchSize}

\* The next batch of the fetcher: a number of blocks in height order from
\* the daemon, or the blocks of the next blk*.dat file that are wanted.
NextBatch ==
    IF blkFiles
      THEN {b \in pending : \A c \in pending : BlkFile[b] <= BlkFile[c]}
      ELSE {b \in pending :
              Cardinality({c \in pending : Height(c) < Height(b)}) < BatchSize}

\* add: T, O, B rows and the "D" row of each block not yet added, one batch.
Add ==
    /\ pc = "add"
    /\ batch' = NextBatch
    /\ SetTxstore([txstore EXCEPT !.done = @ \cup NextBatch])
    /\ added' = added \cup NextBatch
    /\ pc' = "index"
    /\ UNCHANGED <<bestblock, history, histdisk, indexed, headers, walDisabled,
                   blkFiles, tip, newHeaders, undoing, pending, orphans>>

\* index: the history rows and the "D" row of each block not yet indexed.
Index ==
    /\ pc = "index"
    /\ LET toIndex == batch \ indexed IN
       IF ~CanIndex(toIndex)
         THEN Panic
         ELSE /\ SetHistory([done |-> history.done \cup toIndex,
                             rows |-> WriteRows(history.rows, RowsOfAll(toIndex))])
              /\ indexed' = indexed \cup toIndex
              /\ pending' = pending \ batch
              /\ batch' = {}
              /\ pc' = IF pending' = {} THEN AfterBatches ELSE "add"
              /\ UNCHANGED <<bestblock, txstore, txdisk, added, headers, walDisabled,
                             blkFiles, tip, newHeaders, undoing, orphans>>

\* The end of the first update of a process: DB::flush of each database, then
\* the write-ahead log is used from there on.
FlushTxstore ==
    /\ pc = "flush_txstore"
    /\ txdisk' = txstore
    /\ pc' = "flush_history"
    /\ UNCHANGED <<bestblock, txstore, history, histdisk, store, walDisabled,
                   blkFiles, update, orphans>>

FlushHistory ==
    /\ pc = "flush_history"
    /\ histdisk' = history
    /\ walDisabled' = FALSE
    /\ pc' = "put_tip"
    /\ UNCHANGED <<bestblock, txstore, history, txdisk, store, blkFiles,
                   update, orphans>>

\* put_sync of "t": this row is logged and synced whatever the flush mode.
PutTip ==
    /\ pc = "put_tip"
    /\ txstore' = [txstore EXCEPT !.t = tip]
    /\ txdisk' = [txdisk EXCEPT !.t = tip]
    /\ pc' = "append"
    /\ UNCHANGED <<bestblock, history, histdisk, store, walDisabled, blkFiles,
                   update, orphans>>

\* headers.append and assert_eq!(tip, headers.tip()).
AppendHeaders ==
    /\ pc = "append"
    /\ LET appended == headers \o newHeaders IN
       IF appended = <<>> \/ appended[Len(appended)] # tip
         THEN Panic
         ELSE /\ headers' = appended
              /\ newHeaders' = <<>>
              /\ blkFiles' = FALSE
              /\ pc' = "idle"
              /\ UNCHANGED <<bestblock, dbs, added, indexed, walDisabled, tip,
                             undoing, pending, batch, orphans>>

(***************************************************************************)
(* The environment.                                                        *)
(***************************************************************************)
\* The daemon extends its chain, reorganises, or is told to invalidate blocks.
DaemonMoves(b) ==
    /\ b # bestblock
    /\ bestblock' = b
    /\ UNCHANGED <<dbs, store, walDisabled, blkFiles, pc, update, orphans>>

\* RocksDB writes a full memtable to disk on its own.  The tables of one
\* database are written in order, so the disk holds a prefix of the batches.
MemtableFlush ==
    /\ Up
    /\ walDisabled
    /\ \/ txdisk' = txstore /\ UNCHANGED histdisk
       \/ histdisk' = history /\ UNCHANGED txdisk
    /\ UNCHANGED <<bestblock, txstore, history, store, walDisabled, blkFiles, pc,
                   update, orphans>>

\* The process is killed, or exits on an error of the daemon connection or on
\* a panic (panic = 'abort'); the service manager starts it again.
Crash ==
    /\ pc # "down"
    /\ pc' = "down"
    /\ txstore' = txdisk
    /\ history' = histdisk
    /\ added' = {}
    /\ indexed' = {}
    /\ headers' = <<>>
    /\ walDisabled' = TRUE
    /\ blkFiles' = FALSE
    /\ NoLocals
    /\ UNCHANGED <<bestblock, txdisk, histdisk, orphans>>

IndexerStep ==
    \/ Open
    \/ StartUpdate
    \/ UndoIndex
    \/ Plan
    \/ Add
    \/ Index
    \/ FlushTxstore
    \/ FlushHistory
    \/ PutTip
    \/ AppendHeaders

Next ==
    \/ IndexerStep
    \/ \E b \in Block : DaemonMoves(b)
    \/ MemtableFlush
    \/ Crash

Spec == Init /\ [][Next]_vars

\* The indexer is one thread whose calls return: getbestblockhash and the
\* fetchers wait for the daemon, and the main loop wakes up every 5 seconds.
FairSpec == Spec /\ WF_vars(IndexerStep)

(***************************************************************************)
(* Properties.                                                             *)
(***************************************************************************)
\* The rows a reader can see: every reader drops a row whose height is not
\* in the HeaderList (ChainQuery).
VisibleRows == {r \in history.rows : r.height < Len(headers)}

\* Readers see the rows of exactly the blocks in the HeaderList, at every step
\* of an update and after every restart (the comment at schema.rs:317-320).
ServesItsChain == Up => VisibleRows = RowsOfAll(Blocks(headers))

\* ... as long as no block was orphaned, which takes a crash between index()
\* and put_sync("t") and a reorganisation before the next update.
ServesItsChainUnlessOrphans == orphans = {} => ServesItsChain

\* What readers are promised, as a specification of its own, which the indexer
\* implements: each of its steps drops blocks from the end of what is served or
\* extends it, and the rows served change with it in the same step.  The rows
\* are compared only while no block is orphaned.
ServedRows == IF orphans = {} THEN VisibleRows ELSE RowsOfAll(Blocks(headers))
Served == INSTANCE VisibleIndex WITH chain <- headers, rows <- ServedRows
ServesVisibleIndex == Served!Spec

\* The previous outputs of the blocks to index are in txstore, for which the
\* first indexing phase must have added their blocks (doc/schema.md:11-13).
PrevoutsAddedFirst == pc = "index" => PrevoutsFound(batch \ indexed)

\* The indexer's expects, unwraps and assertions hold: the tip row always
\* leads back to an indexed block whose headers are stored, the previous
\* outputs of every block to index or undo are in txstore, and an update ends
\* at the tip it set out for.
NoPanic == pc # "panicked"

\* Every history row, in memory and on disk, belongs to a block that is marked
\* done there: no step and no crash leaves rows that no undo would delete.
RowsOwned == \A db \in {history, histdisk} :
    \A r \in db.rows : \E b \in db.done : r \in RowsOf(b)

\* When an update has ended, the HeaderList is the chain of the tip it worked
\* for, and all of it is added and indexed, in memory and on disk.
SyncedWhenIdle == pc = "idle" =>
    /\ headers = ChainOf[tip]
    /\ txdisk.t = tip
    /\ Blocks(headers) \subseteq txdisk.done \cap histdisk.done \cap added \cap indexed

\* A crash forgets nothing that is served: the chain of the tip row, walked back
\* to its first indexed block (Open), leads at least to where the HeaderList is,
\* and the rows that it finds on disk up to there are those that are served.
CrashForgetsNothing == Up /\ headers # <<>> =>
    /\ txdisk.t # NoBlock /\ HeadersFound
    /\ headers = SubSeq(ChainOf[txdisk.t], 1, Len(headers))
    /\ Blocks(headers) \subseteq histdisk.done
    /\ orphans = {} =>
          {r \in histdisk.rows : r.height < Len(headers)} = RowsOfAll(Blocks(headers))

\* "t" is only ever set to a block whose whole chain survives a crash, in both
\* databases (schema.rs:449).
TipRowIsDurable ==
    [][txdisk'.t # txdisk.t =>
         Blocks(ChainOf[txdisk'.t]) \subseteq txdisk.done \cap histdisk.done]_vars

\* If the daemon settles on a block and the process stays up, the HeaderList
\* becomes and remains the chain of that block, whatever reorganisation or
\* restart came before.
CatchesUp ==
    <>[][bestblock' = bestblock]_vars /\ <>[](pc # "down")
       => <>[](headers = ChainOf[bestblock])
=============================================================================
