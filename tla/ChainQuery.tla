----------------------------- MODULE ChainQuery -----------------------------
(***************************************************************************)
(* The threads that answer questions about confirmed transactions          *)
(* (ChainQuery, schema.rs), for one script, next to an index that moves:   *)
(* utxo and stats with their caches, and the lookups that read a row       *)
(* before they lock the headers.                                           *)
(*                                                                         *)
(* The index is VisibleIndex, which Indexer implements while no block is   *)
(* orphaned.  A reader that holds the headers lock sees its rows; one that *)
(* reads a row without the lock may also meet the row of a block that was  *)
(* just popped, or is about to be appended, and then finds with the lock   *)
(* what it finds if the row was read before the pop or after the append.   *)
(*                                                                         *)
(* The readers that lock the headers first and once (history,              *)
(* history_txids, lookup_spends, lookup_confirmations) see one state of    *)
(* VisibleIndex, and are left out.                                         *)
(***************************************************************************)
EXTENDS BlockTree

CONSTANTS
    Reader,             \* the threads that answer requests
    OfScript,           \* the outputs that pay to the script asked about
    MinHistoryItems,    \* MIN_HISTORY_ITEMS_TO_CACHE
    UtxosLimit          \* --utxos-limit

ASSUME QueryAssumption ==
    /\ OfScript \subseteq Txo
    /\ MinHistoryItems \in Nat
    /\ UtxosLimit \in Nat

ASSUME FiniteAssumption ==
    \A b \in Block : IsFiniteSet(RowsOfAll(Blocks(ChainOf[b])))

VARIABLES
    chain,      \* Store.indexed_headers
    rows,       \* the rows of history_db at heights of the HeaderList
    question,   \* what the readers ask: it never changes, see below
    cache,      \* cache_db: the row of the script for this question
    pc,         \* the step a reader is at
    entry,      \* the cache row a reader has read
    row,        \* the history row a reader has read
    known,      \* how many blocks the reader takes as read: start_height
    acc,        \* the UtxoMap or the ScriptStats under way
    last,       \* the block of the answer, NoBlock if there is none to note
    aborted,    \* a panic stopped the process
    raced,      \* history variable: see Raced
    spoiled     \* history variable: the cache row was written by a raced reader

index == <<chain, rows>>
request == <<pc, entry, row, known, acc, last>>
vars == <<index, question, cache, request, aborted, raced, spoiled>>

Index == INSTANCE VisibleIndex

\* The "U" row and the "A" row of the script, and its "S" and "C" rows, are
\* never touched by one request, so every behaviour has requests of one kind.
Questions == {"utxo", "stats", "lookup"}

NoEntry == [block |-> NoBlock, value |-> <<>>]
NoRow == [code |-> "none", ref |-> NoBlock, by |-> NoBlock, height |-> 0]

StatField == {"tx_count", "funded_txo_count", "spent_txo_count"}
Row == [code : {"C", "S"}, ref : Tx \cup Txo, by : Tx, height : Nat]

\* A UtxoMap gives the outputs their blocks, and a cached one their heights.
IsValue(v, S) ==
    IF question = "stats"
      THEN v \in [StatField -> Nat]
      ELSE v \in [DOMAIN v -> S] /\ DOMAIN v \subseteq OfScript

IsEntry(e) ==
    \/ e = NoEntry
    \/ /\ e = [block |-> e.block, value |-> e.value]
       /\ e.block \in Block
       /\ IsValue(e.value, Nat)

TypeOK ==
    /\ chain \in Seq(Block)
    /\ question \in Questions
    /\ IsEntry(cache)
    /\ pc \in [Reader -> {"idle", "find", "delta", "name", "reply"}]
    /\ \A r \in Reader :
        /\ IsEntry(entry[r])
        /\ row[r] \in Row \cup {NoRow}
        /\ pc[r] \in {"delta", "reply"} => IsValue(acc[r], Block)
    /\ known \in [Reader -> Nat]
    /\ last \in [Reader -> Block \cup {NoBlock}]
    /\ aborted \in BOOLEAN
    /\ raced \in [Reader -> BOOLEAN]
    /\ spoiled \in BOOLEAN

(***************************************************************************)
(* What the history rows of the script add up to.                          *)
(***************************************************************************)
\* history_iter_scan(b'H', script, from), with the rows of chain c
ScriptRows(c, from) ==
    {w \in RowsOfAll(Blocks(c)) : w.code = "H" /\ w.ref \in OfScript /\ w.height >= from}

Funding(ws) == {w \in ws : w.ref \in Outputs[w.by]}
Spending(ws) == {w \in ws : w.ref \in Prevouts[w.by]}
Refs(ws) == {w.ref : w \in ws}

\* Rows come by height, and in a block the outputs funded come before the
\* outputs spent, so an output that is funded and spent here is removed.
AddToUtxos(utxos, ws, c) ==
    [o \in (DOMAIN utxos \cup Refs(Funding(ws))) \ Refs(Spending(ws)) |->
        IF o \in Refs(Funding(ws))
          THEN LET w == CHOOSE w \in Funding(ws) : w.ref = o IN c[w.height + 1]
          ELSE utxos[o]]

\* A transaction has rows at one height, and is counted once.
Count(f, ws) ==
    CASE f = "tx_count" -> Cardinality({<<w.by, w.height>> : w \in ws})
      [] f = "funded_txo_count" -> Cardinality(Funding(ws))
      [] f = "spent_txo_count" -> Cardinality(Spending(ws))

AddToStats(stats, ws) == [f \in StatField |-> stats[f] + Count(f, ws)]

Nothing == IF question = "utxo" THEN <<>> ELSE [f \in StatField |-> 0]

Add(value, ws, c) ==
    IF question = "utxo" THEN AddToUtxos(value, ws, c) ELSE AddToStats(value, ws)

\* The set is largest when the outputs funded in a block have been added and
\* those spent in it not yet removed.
TooPopular(utxos, ws) == \E w \in ws :
    Cardinality((DOMAIN utxos \cup Refs(Funding({v \in ws : v.height <= w.height})))
                  \ Refs(Spending({v \in ws : v.height < w.height}))) > UtxosLimit

LastBlock(ws, c) ==
    LET w == CHOOSE w \in ws : \A v \in ws : v.height <= w.height
    IN c[w.height + 1]

\* Mutant: the blocks are kept as they are.
StoredAsIs(value) == value

\* make_utxo_cache
Stored(value) ==
    IF question = "utxo" THEN [o \in DOMAIN value |-> Height(value[o])] ELSE value

(***************************************************************************)
(* utxo() and stats().                                                     *)
(***************************************************************************)
At(r, step) == ~aborted /\ pc[r] = step

NoLocals(r) ==
    /\ entry' = [entry EXCEPT ![r] = NoEntry]
    /\ row' = [row EXCEPT ![r] = NoRow]
    /\ known' = [known EXCEPT ![r] = 0]
    /\ acc' = [acc EXCEPT ![r] = <<>>]
    /\ last' = [last EXCEPT ![r] = NoBlock]
    /\ raced' = [raced EXCEPT ![r] = FALSE]

\* cache_db.get
ReadCache(r) ==
    /\ question # "lookup"
    /\ At(r, "idle")
    /\ pc' = [pc EXCEPT ![r] = "find"]
    /\ entry' = [entry EXCEPT ![r] = cache]
    /\ raced' = [raced EXCEPT ![r] = spoiled]
    /\ UNCHANGED <<index, question, cache, row, known, acc, last, aborted, spoiled>>

\* Mutant: the block of an entry is not looked up.
IsCurrentAlways(e) == e.block # NoBlock

\* Mutant: an entry is good if the chain is as high as its block was.
IsCurrentByHeight(e) == e.block # NoBlock /\ Height(e.block) < Len(chain)

\* Mutant: heights count from one.
HeaderByHeightFromOne(height) ==
    IF height \in 1..Len(chain) THEN chain[height] ELSE NoBlock

\* HeaderList::header_by_height: None above the tip
HeaderByHeight(height) ==
    IF height < Len(chain) THEN chain[height + 1] ELSE NoBlock

\* height_by_hash
IsCurrent(e) == e.block \in Blocks(chain)

\* An entry whose block is not on the chain is dropped.
FindHeight(r) ==
    /\ At(r, "find")
    /\ pc' = [pc EXCEPT ![r] = "delta"]
    /\ IF IsCurrent(entry[r])
         THEN /\ known' = [known EXCEPT ![r] = Height(entry[r].block) + 1]
              /\ acc' = [acc EXCEPT ![r] =
                           IF question = "utxo" THEN <<>> ELSE entry[r].value]
              /\ UNCHANGED raced
         ELSE /\ known' = [known EXCEPT ![r] = 0]
              /\ acc' = [acc EXCEPT ![r] = Nothing]
              /\ raced' = [raced EXCEPT ![r] = FALSE]
    /\ UNCHANGED <<index, question, cache, entry, row, last, aborted, spoiled>>

\* from_utxo_cache has still to find the blocks of these outputs.
ToRebuild(r) ==
    IF question = "utxo" /\ known[r] > 0
      THEN DOMAIN entry[r].value \ DOMAIN acc[r]
      ELSE {}

\* blockid_by_height(...).expect(...), which locks the headers for each output
Rebuild(r, o) ==
    /\ At(r, "delta")
    /\ o \in ToRebuild(r)
    /\ LET block == HeaderByHeight(entry[r].value[o]) IN
       IF block # NoBlock
         THEN /\ acc' = [acc EXCEPT ![r] =
                           [p \in DOMAIN acc[r] \cup {o} |->
                              IF p = o THEN block ELSE acc[r][p]]]
              /\ UNCHANGED aborted
         ELSE /\ aborted' = TRUE
              /\ UNCHANGED acc
    /\ UNCHANGED <<index, question, cache, pc, entry, row, known, last, raced, spoiled>>

\* Mutant: the rows of the block the entry is valid for are read again.
NewRowsFromBlock(r) == ScriptRows(chain, IF known[r] > 0 THEN known[r] - 1 ELSE 0)

NewRows(r) == ScriptRows(chain, known[r])

ToSave(hadCache, ws, new) ==
    /\ ws # {}
    /\ IF question = "utxo"
         THEN hadCache \/ Cardinality(ws) > MinHistoryItems
         ELSE new["funded_txo_count"] + new["spent_txo_count"] > MinHistoryItems

\* utxo_delta and stats_delta, under one lock; what is to be saved is decided
\* from what they return.
Delta(r) ==
    /\ At(r, "delta")
    /\ ToRebuild(r) = {}
    /\ IF question = "utxo" /\ TooPopular(acc[r], NewRows(r))
         THEN /\ pc' = [pc EXCEPT ![r] = "idle"]
              /\ NoLocals(r)
         ELSE /\ pc' = [pc EXCEPT ![r] = "reply"]
              /\ LET new == Add(acc[r], NewRows(r), chain) IN
                 /\ acc' = [acc EXCEPT ![r] = new]
                 /\ last' = [last EXCEPT ![r] =
                      IF ToSave(known[r] > 0, NewRows(r), new)
                        THEN LastBlock(NewRows(r), chain) ELSE NoBlock]
              /\ UNCHANGED <<entry, row, known, raced>>
    /\ UNCHANGED <<index, question, cache, aborted, spoiled>>

\* cache_db.write_rows, synced
SaveAndReply(r) ==
    /\ At(r, "reply")
    /\ question # "lookup"
    /\ IF last[r] # NoBlock
         THEN /\ cache' = [block |-> last[r], value |-> Stored(acc[r])]
              /\ spoiled' = raced[r]
         ELSE UNCHANGED <<cache, spoiled>>
    /\ pc' = [pc EXCEPT ![r] = "idle"]
    /\ NoLocals(r)
    /\ UNCHANGED <<index, question, aborted>>

(***************************************************************************)
(* lookup_spend ("S" rows) and tx_confirming_block ("C" rows).             *)
(***************************************************************************)
\* history_db.get
ReadRow(r, w) ==
    /\ question = "lookup"
    /\ At(r, "idle")
    /\ w \in rows
    /\ w.code \in {"S", "C"}
    /\ pc' = [pc EXCEPT ![r] = "name"]
    /\ row' = [row EXCEPT ![r] = w]
    /\ known' = [known EXCEPT ![r] = w.height + 1]
    /\ raced' = [raced EXCEPT ![r] = FALSE]
    /\ UNCHANGED <<index, question, cache, entry, acc, last, aborted, spoiled>>

\* header_by_height
NameBlock(r) ==
    /\ At(r, "name")
    /\ pc' = [pc EXCEPT ![r] = "reply"]
    /\ last' = [last EXCEPT ![r] = HeaderByHeight(row[r].height)]
    /\ UNCHANGED <<index, question, cache, entry, row, known, acc, aborted, raced, spoiled>>

Reply(r) ==
    /\ At(r, "reply")
    /\ question = "lookup"
    /\ pc' = [pc EXCEPT ![r] = "idle"]
    /\ NoLocals(r)
    /\ UNCHANGED <<index, question, cache, aborted, spoiled>>

(***************************************************************************)
(* The index and the process.                                              *)
(***************************************************************************)
\* The blocks a reader takes as read are not all there any more: they were
\* rewound between the step that found their number and the next lock.
Raced(r) == pc[r] \in {"delta", "name"} /\ known[r] > Len(chain')

\* Every chain starts at one genesis block, which no update pops.
IndexRewinds ==
    /\ ~aborted
    /\ Index!Rewind
    /\ Len(chain') > 0
    /\ raced' = [r \in Reader |-> raced[r] \/ Raced(r)]
    /\ UNCHANGED <<question, cache, request, aborted, spoiled>>

IndexExtends ==
    /\ ~aborted
    /\ Index!Extend
    /\ UNCHANGED <<question, cache, request, aborted, raced, spoiled>>

\* The process stops, by a panic or otherwise, and is started again; requests
\* are only taken when the first update has ended.
Restart ==
    /\ \E b \in Block : Index!Serve(ChainOf[b])
    /\ pc' = [r \in Reader |-> "idle"]
    /\ entry' = [r \in Reader |-> NoEntry]
    /\ row' = [r \in Reader |-> NoRow]
    /\ known' = [r \in Reader |-> 0]
    /\ acc' = [r \in Reader |-> <<>>]
    /\ last' = [r \in Reader |-> NoBlock]
    /\ raced' = [r \in Reader |-> FALSE]
    /\ aborted' = FALSE
    /\ UNCHANGED <<question, cache, spoiled>>

Init ==
    /\ \E b \in Block : chain = ChainOf[b]
    /\ rows = RowsOfAll(Blocks(chain))
    /\ question \in Questions
    /\ cache = NoEntry
    /\ pc = [r \in Reader |-> "idle"]
    /\ entry = [r \in Reader |-> NoEntry]
    /\ row = [r \in Reader |-> NoRow]
    /\ known = [r \in Reader |-> 0]
    /\ acc = [r \in Reader |-> <<>>]
    /\ last = [r \in Reader |-> NoBlock]
    /\ aborted = FALSE
    /\ raced = [r \in Reader |-> FALSE]
    /\ spoiled = FALSE

ReaderStep(r) ==
    \/ ReadCache(r)
    \/ FindHeight(r)
    \/ \E o \in OfScript : Rebuild(r, o)
    \/ Delta(r)
    \/ SaveAndReply(r)
    \/ \E w \in rows : ReadRow(r, w)
    \/ NameBlock(r)
    \/ Reply(r)

Next ==
    \/ \E r \in Reader : ReaderStep(r)
    \/ IndexRewinds
    \/ IndexExtends
    \/ Restart

Spec == Init /\ [][Next]_vars

(***************************************************************************)
(* Properties.                                                             *)
(***************************************************************************)
\* The utxo set or the statistics of the script on chain c, from its genesis.
ValueOf(c) == Add(Nothing, ScriptRows(c, 0), c)

IsExact(e) ==
    e.block # NoBlock => e.value = Stored(ValueOf(ChainOf[e.block]))

\* A cached value is that of the chain up to the block it is kept next to
\* (doc/schema.md:85), whatever reorganisations it outlives, unless the request
\* that wrote it was raced: it found the height of an entry's block, and that
\* block was popped before the rows above it were read, or it started from what
\* such a request wrote.
CacheExactUnlessRaced == ~spoiled => IsExact(cache)

\* An answer is the value of the chain its delta was read from, with the blocks
\* of that chain, unless the request was raced.
AnswersExactUnlessRaced ==
    [][\A r \in Reader :
         pc[r] = "delta" /\ pc'[r] = "reply" /\ ~raced[r]
           => acc'[r] = ValueOf(chain)]_vars

\* The block named for a spend or a confirmation holds the transaction, unless
\* it was popped between the reading of the row and the lock.
NamesItsBlockUnlessRaced == \A r \in Reader :
    question = "lookup" /\ pc[r] = "reply" /\ last[r] # NoBlock /\ ~raced[r]
      => row[r].by \in TxsIn[last[r]]

\* "missing blockheader for valid utxo cache entry" (schema.rs:1911) is never
\* met by requests that are not raced.
AbortsOnlyIfRaced == aborted => \E r \in Reader : raced[r]

\* The cached data is kept next to the blockhash the cache is up-to-date for
\* (doc/schema.md:85).
CacheExact == IsExact(cache)
=============================================================================
