------------------------------- MODULE Coins --------------------------------
(***************************************************************************)
(* The layers of coins views: the database CCoinsViewDB, the cache         *)
(* pcoinsTip over it, and the cache ConnectTip and DisconnectTip build over *)
(* pcoinsTip for one block (coins.cpp, coins.h, txdb.cpp, main.cpp).        *)
(*                                                                         *)
(* An entry of a cache has two flags that save writes: without DIRTY it is *)
(* not written at all, with FRESH its deletion is not written.  Entries    *)
(* come into a cache by being read, in both caches at once, and every      *)
(* layer can be emptied on its own.  A wrong flag loses a deletion (an     *)
(* output can be spent twice) or keeps an output that is gone, long after  *)
(* the step that set it.                                                   *)
(*                                                                         *)
(* CCoins is abstract: a value of Coins, Pruned being the one without an   *)
(* unspent output.  A modifier (CCoinsModifier) and its destructor are one *)
(* step: no view is used between them (hasModifier is asserted).  All      *)
(* steps hold cs_main, so that pcoinsTip is never written to disk while a  *)
(* block's view stands on it.                                              *)
(***************************************************************************)
EXTENDS FiniteSets

CONSTANTS TxId,       \* transaction ids
          Coins,      \* values of CCoins
          Pruned,     \* CCoins::IsPruned
          Block,      \* block hashes
          Genesis,    \* the block the node starts from
          NoBlock,    \* the null hash
          NoEntry,    \* no entry in a cache
          Unknown     \* the coins of a block that was never connected

ASSUME CoinsAssumption ==
    /\ Pruned \in Coins
    /\ Genesis \in Block
    /\ NoBlock \notin Block
    /\ NoEntry \notin [coins : Coins, dirty : BOOLEAN, fresh : BOOLEAN]
    /\ Unknown \notin [TxId -> Coins]

VARIABLES db,        \* records of the database; Pruned where there is none
          dbBest,    \* its best block record
          tip,       \* pcoinsTip->cacheCoins
          tipBest,   \* pcoinsTip->hashBlock, NoBlock until it is asked for
          open,      \* whether a block is connected or disconnected
          view,      \* the cacheCoins of its view
          viewBest,  \* the hashBlock of its view
          utxo       \* the coins of each block, as its view left them

vars == <<db, dbBest, tip, tipBest, open, view, viewBest, utxo>>

CoinsMap == [TxId -> Coins]

\* CCoinsCacheEntry.
Entry == [coins : Coins, dirty : BOOLEAN, fresh : BOOLEAN]

Cache == [TxId -> Entry \cup {NoEntry}]

Empty == [t \in TxId |-> NoEntry]

TypeOK ==
    /\ db \in CoinsMap
    /\ dbBest \in Block
    /\ tip \in Cache
    /\ tipBest \in Block \cup {NoBlock}
    /\ open \in BOOLEAN
    /\ view \in Cache
    /\ viewBest \in Block \cup {NoBlock}
    /\ utxo \in [Block -> CoinsMap \cup {Unknown}]
    /\ ~open => view = Empty /\ viewBest = NoBlock

Init ==
    /\ db = [t \in TxId |-> Pruned]
    /\ dbBest = Genesis
    /\ tip = Empty
    /\ tipBest = NoBlock
    /\ open = FALSE
    /\ view = Empty
    /\ viewBest = NoBlock
    /\ utxo = [b \in Block |-> IF b = Genesis THEN db ELSE Unknown]

-----------------------------------------------------------------------------
(* Reading: what GetCoins answers, layer by layer.                         *)

\* What a reader of a cache over a parent with the given coins sees.
Visible(cache, parent) ==
    [t \in TxId |-> IF cache[t] = NoEntry THEN parent[t] ELSE cache[t].coins]

TipCoins == Visible(tip, db)
ViewCoins == Visible(view, TipCoins)

\* CCoinsViewCache::FetchCoins: an entry that is missing is taken over from
\* the parent, if the parent has one (`has'), with the coins c found there.
FetchCoins(cache, t, has, c) ==
    IF cache[t] # NoEntry \/ ~has
    THEN cache
    ELSE [cache EXCEPT ![t] =
            [coins |-> c, dirty |-> FALSE, fresh |-> c = Pruned]]

\* The database has no pruned records (BatchWriteCoins erases them).
TipFetched(t) == FetchCoins(tip, t, db[t] # Pruned, db[t])

\* GetCoins of pcoinsTip, once it has fetched: whether it has an entry (a
\* pruned one counts), and the coins of it.
TipHas(t) == TipFetched(t)[t] # NoEntry
TipGet(t) == IF TipHas(t) THEN TipFetched(t)[t].coins ELSE Pruned

\* CCoinsViewCache::GetBestBlock of pcoinsTip, which remembers the answer.
TipGetBestBlock == IF tipBest = NoBlock THEN dbBest ELSE tipBest

-----------------------------------------------------------------------------
(* Writing.                                                                *)

\* CCoinsViewCache::ModifyCoins, the change to c, and ~CCoinsModifier.
ModifyCoins(cache, t, has, parent, c) ==
    LET fresh == IF cache[t] # NoEntry THEN cache[t].fresh
                 ELSE ~has \/ parent = Pruned
    IN  [cache EXCEPT ![t] =
           IF fresh /\ c = Pruned THEN NoEntry
           ELSE [coins |-> c, dirty |-> TRUE, fresh |-> fresh]]

MutantMergedErases(p, e) ==
    IF e = NoEntry \/ ~e.dirty THEN p
    ELSE IF e.coins = Pruned THEN NoEntry
    ELSE [coins |-> e.coins, dirty |-> TRUE,
          fresh |-> IF p = NoEntry THEN TRUE ELSE p.fresh]

\* The entry of the parent p after the child's entry e was written to it: a
\* deletion the grandparent need not learn of leaves nothing, and an entry
\* the parent did not have is FRESH there.
Merged(p, e) ==
    IF e = NoEntry \/ ~e.dirty THEN p
    ELSE IF e.coins = Pruned /\ (p = NoEntry \/ p.fresh) THEN NoEntry
    ELSE [coins |-> e.coins, dirty |-> TRUE,
          fresh |-> IF p = NoEntry THEN TRUE ELSE p.fresh]

\* CCoinsViewCache::BatchWrite.
BatchWrite(parent, child) == [t \in TxId |-> Merged(parent[t], child[t])]

MutantDbBatchWriteKeeps(child) ==
    [t \in TxId |-> IF child[t] # NoEntry /\ child[t].dirty /\ child[t].coins # Pruned
                    THEN child[t].coins ELSE db[t]]

\* CCoinsViewDB::BatchWrite.
DbBatchWrite(child) ==
    [t \in TxId |-> IF child[t] # NoEntry /\ child[t].dirty
                    THEN child[t].coins ELSE db[t]]

-----------------------------------------------------------------------------
(* The steps.                                                              *)

\* ConnectBlock and DisconnectBlock begin by comparing the view's best block
\* with the one they expect: both caches remember it from then on.
OpenView ==
    /\ ~open
    /\ open' = TRUE
    /\ tipBest' = TipGetBestBlock
    /\ viewBest' = TipGetBestBlock
    /\ UNCHANGED <<db, dbBest, tip, view, utxo>>

\* A read of pcoinsTip, by the memory pool, an RPC, ... or under a view.
ReadTip(t) ==
    /\ tip' = TipFetched(t)
    /\ UNCHANGED <<db, dbBest, tipBest, open, view, viewBest, utxo>>

ReadView(t) ==
    /\ open
    /\ tip' = IF view[t] = NoEntry THEN TipFetched(t) ELSE tip
    /\ view' = FetchCoins(view, t, TipHas(t), TipGet(t))
    /\ UNCHANGED <<db, dbBest, tipBest, open, viewBest, utxo>>

ModifyView(t, c) ==
    /\ open
    /\ tip' = IF view[t] = NoEntry THEN TipFetched(t) ELSE tip
    /\ view' = ModifyCoins(view, t, TipHas(t), TipGet(t), c)
    /\ UNCHANGED <<db, dbBest, tipBest, open, viewBest, utxo>>

MutantFlushViewForgetsBest(b) ==
    /\ open
    /\ b # viewBest
    /\ utxo[b] \in {Unknown, ViewCoins}
    /\ utxo' = [utxo EXCEPT ![b] = ViewCoins]
    /\ tip' = BatchWrite(tip, view)
    /\ tipBest' = viewBest
    /\ open' = FALSE
    /\ view' = Empty
    /\ viewBest' = NoBlock
    /\ UNCHANGED <<db, dbBest>>

MutantFlushViewLeaves(b) ==
    /\ open
    /\ b # viewBest
    /\ utxo[b] \in {Unknown, ViewCoins}
    /\ utxo' = [utxo EXCEPT ![b] = ViewCoins]
    /\ tip' = BatchWrite(tip, view)
    /\ tipBest' = b
    /\ open' = FALSE
    /\ viewBest' = NoBlock
    /\ UNCHANGED <<db, dbBest, view>>

\* The block was connected (or disconnected): SetBestBlock to it (or to its
\* predecessor) and Flush.  The coins after a block depend on the block
\* alone: utxo records them.
FlushView(b) ==
    /\ open
    /\ b # viewBest
    /\ utxo[b] \in {Unknown, ViewCoins}
    /\ utxo' = [utxo EXCEPT ![b] = ViewCoins]
    /\ tip' = BatchWrite(tip, view)
    /\ tipBest' = b
    /\ open' = FALSE
    /\ view' = Empty
    /\ viewBest' = NoBlock
    /\ UNCHANGED <<db, dbBest>>

\* The block failed, or was only tested: the view is destroyed.
DiscardView ==
    /\ open
    /\ open' = FALSE
    /\ view' = Empty
    /\ viewBest' = NoBlock
    /\ UNCHANGED <<db, dbBest, tip, tipBest, utxo>>

MutantFlushTipUnderView ==
    /\ db' = DbBatchWrite(tip)
    /\ dbBest' = TipGetBestBlock
    /\ tip' = Empty
    /\ UNCHANGED <<tipBest, open, view, viewBest, utxo>>

\* pcoinsTip->Flush() of FlushStateToDisk.
FlushTip ==
    /\ ~open
    /\ db' = DbBatchWrite(tip)
    /\ dbBest' = TipGetBestBlock
    /\ tip' = Empty
    /\ UNCHANGED <<tipBest, open, view, viewBest, utxo>>

\* The same when the database refuses the batch: WriteBatch throws, after
\* the entries were moved out of the cache into the batch.  hashBlock stays.
FlushTipFails ==
    /\ ~open
    /\ tip' = Empty
    /\ UNCHANGED <<db, dbBest, tipBest, open, view, viewBest, utxo>>

\* The process ends, orderly or not, and starts again.
Restart ==
    /\ tip' = Empty
    /\ tipBest' = NoBlock
    /\ open' = FALSE
    /\ view' = Empty
    /\ viewBest' = NoBlock
    /\ UNCHANGED <<db, dbBest, utxo>>

Next ==
    \/ OpenView
    \/ \E t \in TxId : ReadTip(t) \/ ReadView(t)
    \/ \E t \in TxId, c \in Coins : ModifyView(t, c)
    \/ \E b \in Block : FlushView(b)
    \/ DiscardView
    \/ FlushTip
    \/ Restart

Spec == Init /\ [][Next]_vars

\* With a disk that can refuse a write.
FaultySpec == Init /\ [][Next \/ FlushTipFails]_vars

-----------------------------------------------------------------------------
(* Properties.                                                             *)

\* The assertion of CCoinsViewCache::BatchWrite ("if the grandparent did
\* have it, we would have pulled it in at first GetCoins") cannot fail: coins
\* the view would push up into a gap of pcoinsTip are FRESH.
FreshAssertHolds ==
    \A t \in TxId :
        view[t] # NoEntry /\ tip[t] = NoEntry
            => ~view[t].dirty \/ view[t].coins = Pruned \/ view[t].fresh

\* coins.h on GetBestBlock: "the block hash whose state this CCoinsView
\* currently represents".  The database holds exactly the coins of the block
\* it names, whatever was read, connected, undone, discarded or lost before
\* it was last written.
DiskRepresentsBest == db = utxo[dbBest]

\* The same of pcoinsTip, through its cache.
TipRepresentsBest == TipCoins = utxo[TipGetBestBlock]

\* What is written is read: after ModifyCoins the view shows the new coins of
\* that transaction, and the old ones of every other, whichever of the layers
\* held them and whatever the destructor cleaned up.
WriteIsRead ==
    [][\A t \in TxId, c \in Coins :
          ModifyView(t, c) => ViewCoins' = [ViewCoins EXCEPT ![t] = c]]_vars

\* The promise: three maps without caches (module CoinView).
Promise == INSTANCE CoinView WITH
    coins <- TipCoins, best <- TipGetBestBlock,
    working <- open, work <- ViewCoins,
    diskCoins <- db, diskBest <- dbBest

\* Every step of the caches is a step of the maps they stand for, or none:
\* no read, flush or clean-up changes what a reader of any layer sees.
ImplementsPromise == Promise!Spec
=============================================================================
