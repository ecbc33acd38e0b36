# DIGIWAGE in TLA+

DIGIWAGE is a proof-of-stake currency of the PIVX family: a C++ node with a
peer-to-peer network, a chain of blocks, a memory pool and a wallet, and above
them a layer of *masternodes* that vote on whom a block pays, lock transactions
before they are in a block, and vote on a budget. These modules model the
parts of both layers where several threads, several nodes or a restart meet the
same state. Paths below are relative to the repository; `src/src` is
its source directory.

## 1. Inventory

### 1.1 Modelled

**Spork manager** (`spork.cpp`, `spork.h`, `sporkdb.cpp`). Network parameters,
signed by the holders of a key.
*State:* `mapSporksActive` (the spork in force for each id), `mapSporks` (all
stored, by hash), the spork database.
*Operations:* `ProcessSpork` (message handler), "getsporks", `UpdateSpork` (RPC of a
node with the key), `LoadSporksFromDB` at start.
*Interaction:* sporks are announced by inventory, fetched, and pushed to a node
that asks for them in the first stage of its synchronisation; most other parts
ask `IsSporkActive`.
*Hard:* the freshness test and the store are two critical sections and the
database write is in neither; clocks differ; delivery in any order; restarts; two
signature formats during a fork.
*Correct when:* a spork is never replaced by an older one, the database
brings back what was in force, the network agrees.

**SwiftTX** (`swifttx.cpp`, `swifttx.h`; the locked-input tests and
`ReprocessBlocks` of `main.cpp`). Transaction locks by votes of masternodes.
*State:* `mapTxLockReq`, `mapTxLockReqRejected`, `mapTxLockVote`, `mapTxLocks`,
`mapLockedInputs`, `mapRejectedBlocks`; it changes memory pool and chain.
*Operations:* "ix", "txlvote", `DoConsensusVote`, `CheckForConflictingLocks`,
`CleanTransactionLocksList`, sending from RPC or wallet.
*Hard:* votes and requests in any order; a request refused by the pool goes on
living in another map; no lock protects the maps; locks expire while messages
about them still come.
*Correct when:* signatures counted are of that many masternodes, no output is
spent twice, a locked input stays with its transaction, conflicting transactions
stay out, locks go away.

**Masternode synchronisation** (`masternode-sync.cpp`, `masternode-sync.h`; its
driver, `ThreadCheckObfuScationPool` in `obfuscation.cpp`). Stages: sporks, list,
winners, budget, finished or failed.
*State:* stage, attempts, times of last items, items seen, times of start and
failure, `lastProcess`, `fBlockchainSynced`; request flags of each peer.
*Operations:* `Process` (every five seconds), `IsBlockchainSynced` (any thread),
`AddedMasternodeList/Winner/BudgetItem`, `Reset`, `ClearFulfilledRequest`.
*Interaction:* payments, budget, masternode manager and pings do nothing before it
says so.
*Hard:* no lock orders the threads, so a reset happens between two steps of
`Process`; `TRY_LOCK` fails silently; timeouts, retries, peers that do not answer.
*Correct when:* data is asked for in order and only with a recent chain, the node
finishes with data, failures and sleep lead to another try.

**Masternode payments** (`masternode-payments.cpp`, `masternode-payments.h`; the
call in `ProcessNewBlock`, the dump in `PrepareShutdown`).
*State:* `mapMasternodePayeeVotes`, `mapMasternodeBlocks` (a tally for each block),
`mapMasternodesLastVote`, `nLastBlockHeight`, the file `mnpayments.dat`.
*Operations:* "mnw", `ProcessBlock` (own vote), `AddWinningMasternode`,
`CleanPaymentList`, `DumpMasternodePayments`, `Read`, `FillBlockPayee`,
`IsTransactionValid`.
*Hard:* a vote is stored under locks and counted after they are released, while
another thread adds votes, cleans up, or shuts down; chain moves in both
directions; file and memory.
*Correct when:* the tally is the number of votes, an enforced payee has
its signatures.

**Masternode entries, manager and active masternode** (`masternode.cpp`,
`masternodeman.cpp`, `activemasternode.cpp`; `RelayMNB`, `AlreadyHave`, the masternode
thread). Who is a masternode, in the eyes of each node.
*State:* the entry of a masternode (time of its broadcast, last ping, state), broadcasts and pings
seen, list entries asked for; on the masternode itself its status and vin; `mncache.dat`.
*Operations:* "mnb", "mnp", "dseg", `startmasternode`, `Check`, `CheckAndRemove`,
`ManageStatus`, `SendMasternodePing`, load and dump.
*Hard:* messages late, lost, reordered or in circles; five time limits; `TRY_LOCK(cs_main)`
fails in the middle of a handler; nodes stop or sleep; the collateral is spent meanwhile.
*Correct when:* entries never go back, silent masternodes leave the lists, a spent collateral is
never enabled again, and the newest broadcast gets through.

**Coins** (`coins.cpp`, `coins.h`, `txdb.cpp`; their use in `ConnectBlock`, `DisconnectTip`,
`FlushStateToDisk`). The unspent outputs.
*State:* the database, the cache `pcoinsTip`, the cache of the block being worked on, each with a best block;
flags DIRTY and FRESH.
*Operations:* `AccessCoins`, `HaveCoins`, `ModifyCoins`, `BatchWrite`, `Flush`, a discarded view, a restart.
*Hard:* a flag set in one layer decides much later, in another, whether a deletion is written.
*Correct when:* the layers cannot be told from maps without caches, and each holds the
coins of the block it names.

**Check queue** (`checkqueue.h`). Script checks of a block on worker threads.
*State:* queue, counts of threads and of checks left, the result so far, the threads.
*Operations:* `Loop` (worker and master), `Add`, `Wait`, `CCheckQueueControl`.
*Hard:* two condition variables, spurious wake-ups, workers interrupted while they wait.
*Correct when:* `Wait` answers for its own block, returns, and leaves nothing behind.

**Chain activation** (`main.cpp`, `chain.h`). Which chain is active.
*State:* block index with flags and sequence numbers, `setBlockIndexCandidates`, active chain, best
block of the coins, dirty entries, what is on disk.
*Operations:* `AcceptBlockHeader`, `AcceptBlock`, `ActivateBestChain` step by step,
`InvalidateBlock`, `ReconsiderBlock`, `ReprocessBlocks`, `FlushStateToDisk`, `LoadBlockIndexDB`.
*Hard:* `cs_main` is released between steps, blocks fail half-way, candidates are pruned and must
return, index and coins are written one after the other.
*Correct when:* the best valid chain the node has is active in the end, and the node
can start from what is on disk at any moment.

### 1.2 Not modelled yet, or not at all

| Part | State and operations | Hard behaviour | Plan |
|---|---|---|---|
| Budget (`masternode-budget.cpp`) | proposals, finalized budgets, votes, orphans, incremental sync | votes before their proposal, partial sync, superblocks | next |
| Memory pool (`txmempool.cpp`) | transactions, parents; `remove`, `removeForReorg`, `removeConflicts` | order of removal | next, with the chain |
| Ranks (`masternodeman.cpp`, `masternode.cpp`) | scores, payment queue, `mapCacheBlockHashes` | cached hash of a block that was reorganised away | later |
| Stake modifier (`kernel.cpp`) | pure selection | boundaries of time intervals | later, in part |
| Scheduler (`scheduler.cpp`) | task queue | stop and drain | later |
| Address manager (`addrman.cpp`) | new and tried tables, reference counts | collisions | later |
| Network time (`timedata.cpp`) | median of offsets | 200 samples, even counts | later |
| Wallet | coins, conflicts, depth | reorganisation | part of it later |
| Miner, connections, RPC, start-up, Tor, GUI | | search, sockets, presentation | only where they change modelled state |
| Zerocoin, scripts, keys | | arithmetic on large numbers and byte strings | no: out of TLC's reach; a signature is a fact in the models |
| Obfuscation (mixing) | | disabled in this program | no |
| LevelDB, secp256k1, univalue | | third-party | no |

`PROJECT.json` lists the parts with their files, and under "hazards" the lines
where the code is hard to test, with the properties that watch them.

## 2. Modules

| Module | What it is |
|---|---|
| `Spork` | the spork manager on every node of a network |
| `SwiftTX` | transaction locks, memory pool and chain of one node |
| `MasternodeSync` | the synchronisation of one node with its peers |
| `MasternodePayments` | payment votes, tally, file and chain of one node |
| `Masternodes` | one masternode in the lists of several nodes |
| `CoinView` | what coins views promise: maps without caches |
| `Coins` | database and caches with their flags; implements `CoinView` |
| `CheckQueue` | the master and the workers of the script checks |
| `ChainState` | block index, candidates, active chain and disk of one node |
| `MC*` | values of the constants for TLC, one module each |
| `*_proofs` | theorems and their proofs, one module each |

A definition whose name extends the name of the one after it (`NotNewerStrict`
before `NotNewer`), or that starts with `Mutant`, is a *mutant*: the change a plausible bug would make. No
specification uses it. `PROJECT.json` says which property notices which mutant.

### 2.1 Spork

One action for each stretch of code that no other thread can interrupt:

| Code | Action |
|---|---|
| `ProcessSpork`, tests under `cs` | `ReceiveSpork` (dropped, or on to the signature) |
| `ProcessSpork`, store under `cs`, `Relay` | `StoreSpork` |
| `ProcessSpork`, `WriteSpork` outside `cs` | `WriteSpork` |
| `UpdateSpork`: sign, `Relay` | `UpdateSporkRelay` |
| `UpdateSpork`: memory and database, under `cs` | `UpdateSporkStore` |
| inventory known already, or answered "notfound" | `IgnoreInv` |
| "getsporks" | `GetSporks` |
| `LoadSporksFromDB` after a stop at any point | `Restart` |

`Tick` is the clock (node *n* reads `now + Skew[n]`), `AdvanceEra` the height of the
signature fork. Messages are a set: any order; those to or from a node that
restarts are lost, and `lost` remembers what they were about. Signatures are always
good: a bad one is dropped before any state changes.

### 2.2 SwiftTX

"ix" is `IxBegin` (lookup, `CreateNewLock`) and `IxAccept` or `IxReject`; "txlvote" is
`VoteBegin` and `VoteDrop` or `VoteCount` (`ProcessConsensusVote` with
`CheckForConflictingLocks`, `CompleteLock` and `ReprocessBlocks`). Between
the two steps the other threads run: `LocalSend`, `Submit`, `AcceptBlock`,
`Expire` (an hour passes), `CleanLock` (the clean-up of one lock). A transaction is
the set of outputs it spends; a block holds one watched transaction or none; `mapTxLockReq` tells an
absent entry, a transaction, and the *empty* transaction `operator[]` makes.
Block and inputs "deep enough" is a choice made when the lock is created. Blocks are
checked with SPORK_3 active.

`ReprocessBlocks` takes off the last `nReprocess + 1` blocks (`DisconnectBlocks` takes one more than
it is told, 16 for the 15 of the code) and leaves what is below. It first
reconsiders branches that were refused because of a lock not long ago and are no shorter than the chain
(`mapRejectedBlocks` has the branches that were taken out; a block refused when it arrives is
not stored, so its entry has no effect). The chain then ends on the longest candidate that
passes `CheckBlock`, or before the first block that does not. Transactions of the blocks taken off
return to the memory pool when they are fit, unblocked and in no conflict; those of a branch that was tried
and given up may. It is one step here, although `cs_main` is released
between its parts (`ChainState` has them as steps of their own, in `LockSpec`); which of
several equal branches is tried last is left open.

### 2.3 MasternodeSync

The masternode thread is a program counter, the other threads (`Caller`) have one each, and no
lock orders them.

| Code | Action |
|---|---|
| five seconds pass | `Tick` |
| `Process` up to `IsBlockchainSynced` | `ProcessReturn`, `ProcessBegin`; `ProcessRestart` and `ProcessRestarted` (the two halves of its `Reset`) |
| `IsBlockchainSynced` in `Process` | `CheckStale` and `CheckReset` when it resets, `CheckTest` |
| the loop under `cs_vNodes` | `ProcessLoop` (`AskSporks`, `AskPeer`, `MoveOn`, `NoBudget`, `NobodyToAsk`), or `LoopBusy` when `TRY_LOCK` fails |
| `GetNextAsset`: the switch, the assignments | `GetNextAsset`, `WriteNextAsset` |
| a failed stage, after the test of SPORK_8 | `WriteFailed` |
| `IsBlockchainSynced` in another thread | `PollStale`, `PollReset`, `PollCleared` (its `Reset` and what follows), `PollFinds` |
| "mnsync reset" | `RpcReset`, `RpcResetEnds` |
| an item arrives | `AddedItem` |

`Sleep` is a suspended computer; the chain (`CatchUp`), masternodes (`LoseMasternodes`, `FindMasternode`),
SPORK_8 (`SwitchSpork`) and connections (`Connect`, `Disconnect`) come and go. `Reset` is two steps: the chain's flag,
`lastProcess` and the data (lines 85-102), then the stage (103-105). So a reset may come between
any test of `Process` and the assignment after it, and others see a stage whose data is gone.
`ClearFulfilledRequest` may find `cs_vNodes` busy at any time. Two history variables:
`overwritten` (`Process` went on to a later stage during the last reset, so that the reset is lost) and
`waived` (stages given up because SPORK_8 was off). Times are ticks since the event in the variable,
capped where no test tells larger ones apart (`Quiet`, `Patience`, `Retry`).

One step where the code has several lines: each half of `Reset`; the test of `lastProcess` and the
first line of the reset it leads to; finding the chain recent and writing so; asking one peer and counting the
attempt (a reset in between leaves an attempt counted in a stage where nobody looks at it); the end of `Process`'s own
reset and the entry to the spork stage, as other threads write only `INITIAL`.

### 2.4 MasternodePayments

`MnwAccept` and `MnwBadSignature` are the "mnw" handler up to the signature,
`ProcessBlock` the vote of this node's own masternode; both threads then go through
`StoreWinner` (under the locks) and `CountWinner` (after them). `ConnectBlock`,
`DisconnectBlock`, `CleanPaymentList`, `Crash`. `DumpVotes` and `DumpBlocksAndRestart` are the two
halves of the file, written without a lock and before the threads stop (`init.cpp:213`): every other action
may come between them. Two history variables: `disturbed` (votes or tallies changed during this shutdown, or a vote was
stored and not counted when it began) and `torn` (a disturbed shutdown has written the file). `GetPayee`, `Enforced`,
`IsTransactionValid` and `FilledAmount` are the two uses of the tally. Ranks are
constants by height: `TopRanked`, `LowRanked`, and neither, for the -1 of
`GetMasternodeRank`.

### 2.5 Masternodes

| Code | Action |
|---|---|
| inventory known, or no longer held by the sender | `IgnoreMnb`, `IgnoreMnp` |
| "mnb", `CheckAndUpdate` fails | `RefuseMnb` |
| "mnb" of an enabled entry, or our own | `KnownMnb` (update, relay) |
| "mnb", `CheckInputsAndAdd` to its end, or with `cs_main` busy | `AddMnb` |
| "mnp" | `TakeMnp`, `RefuseMnp` (`AskForMN`) |
| "dseg" | `ProcessDseg` |
| `startmasternode`: `UpdateMasternodeList`, relay | `StartMasternode` |
| `CheckAndRemove` in the thread | `ThreadChecks`, `ThreadChecksBusy` |
| `ManageStatus` | `ManageActivates`, `ManageWaits`, `SendMasternodePing`, `StopPinging` |
| shutdown with `DumpMasternodes`, or a suspended computer | `Outage` |
| `CMasternodeDB::Read`, list asked for again | `Start`; after a sleep `Resume` |

`locked` is the outcome of `TRY_LOCK(cs_main)`. A broadcast or a ping is its time of signature. Time goes in
ticks; what is on its way is delivered within the tick or lost, and by the end of a tick every
running node has been round its loop once with `cs_main` free (`todo`). `sent` has the broadcasts so
far (one in a tick). `Hot` and `Cold` are
the masternode and the wallet of its owner.

### 2.6 Coins and CoinView

`CoinView` has three maps: on disk, at the tip, and the working copy of one block. `Coins` has
`db`, `tip` and `view`: a cache maps a transaction to an entry `[coins, dirty, fresh]` or
`NoEntry`. `OpenView`, `ReadTip`, `ReadView` (which fill both caches), `ModifyView` (a
`CCoinsModifier` and its destructor), `FlushView` (`SetBestBlock`, `Flush`, `BatchWrite`), `DiscardView`,
`FlushTip`, `FlushTipFails`, `Restart`. `utxo` is a history variable: the coins of each block
when it was connected. The refinement mapping reads each cache through to the layer below.

### 2.7 CheckQueue

A thread is `waiting`, `woken`, about to enter `Loop`'s critical section, executing a batch, or
outside. `Loop` is one critical section: it accounts for the finished batch and then returns
(`LoopReturns`), waits (`LoopWaits`) or takes a batch (`LoopTakes`). `Add` and `MakeControl` are the
master's; `StartWorker` and `InterruptWorker` happen at any time, `SpuriousWake` too.

### 2.8 ChainState

`job` is the work of the thread that holds `cs_main`; `want` says that some thread is in
`ActivateBestChain`. `FindDropsFailed`, `FindBranch` and `FindNothing` are `FindMostWorkChain`, one
iteration each; `StepDisconnect`, `StepConnect`, `StepConnectFails` one block of
`ActivateBestChainStep`. `AcceptBlockHeader`, `AcceptBlock` and `AcceptBlockRefuses` are a block that arrives: header
only, with its data, or with data that `ContextualCheckBlock` refuses, when the header stays, marked failed. `FlushIndex` and `FlushCoins` are the two writes of
`FlushStateToDisk`, between which `Restart` may come; `FlushFails` is a full disk, which ends in
`ShutdownFlush`; `FlushIndexFails` (in `IndexFaultSpec`) is a write of the index that fails after the set of dirty
entries was emptied. `InvalidateBlock`, `InvalidateDisconnects` and `InvalidateEnds` are one RPC, as are
`ReprocessBlocks`, `ReprocessDisconnects` and `ReprocessEnds` (in `LockSpec`). `ReconsiderBlock` is the RPC for any block of the index: it clears the flags of all
ancestors and makes only descendants candidates. The history variable `forgotten` has the ancestors that became valid that way and
are no candidates; a restart, or the end of an `invalidateblock`, puts them back. The coins are their best block:
`Coins` shows that this is enough.

## 3. Runs

| Run | Result | Question |
|---|---|---|
| `spork` | holds | Do memory and database agree between messages (`MemoryMatchesDB`), do sporks never get older (`NeverOlder`), do the nodes agree in the end (`Convergence`)? |
| `swifttx` | holds | One vote of each masternode in a lock (`DistinctVoters`), `NoDoubleSpend`, `FirstLockWins`, and no rival of a completed lock in the blocks processed again (`RejectedLockClearsChain`), for two conflicting transactions. |
| `swifttx_clean` | holds | `LocksGetCleaned`, although requests and votes keep coming back. |
| `swifttx_cancel` | violated | Do two approved conflicting locks cancel out (`ConflictingLocksCancel`)? |
| `mnsync` | holds | `ChainSyncedFirst`, `FinishedWithData` with resets between any two steps, except while one is under way and after one that was lost. |
| `mnsync_live` | holds | `SyncFinishes` or is stranded, `SleepResyncs`, with peers that answer. |
| `mnsync_timeout` | violated | `ListTimesOut` when nobody answers. |
| `mnpayments` | holds | `TallyMatchesVotes`, `EnoughSignatures`, until a disturbed shutdown has written the file. |
| `masternodes` | holds | Do entries never go back (`NeverBackwards`), do silent masternodes go (`SilentGone`), is a spent one never enabled again (`SpentNotEnabled`), is the newest broadcast of a patient owner never shut out (`NewestNotShutOut`)? |
| `coins` | holds | `ImplementsPromise` (the refinement of `CoinView`), `DiskRepresentsBest`, `TipRepresentsBest`, and the assertion in `BatchWrite` (`FreshAssertHolds`). |
| `checkqueue` | holds | Exact answers (`VerdictExact`), nothing left behind (`NoCheckOutlives`), the assertion of the constructor (`QueueUnusedAtStart`), no lost wake-up (`WaitReturns`). |
| `chain` | holds | `CandidatesComplete`, `BestChainActive`, `NoFailedActive`, `StartsAgainUnlessInvalidating`, `ActivationEnds`. |

Where a property holds with a proviso, the proviso is a history variable of the model, and 3.4 names the
configuration that shows what happens beyond it: a lost reset (`overwritten`), a busy `cs_vNodes` (`Stranded`), a
torn file (`torn`), an ancestor that `reconsiderblock` forgets (`forgotten`).

`CandidatesComplete` is `CheckBlockIndex`, as far as it is about the candidates, plus what
it does not say: that between two steps no better branch is missing unless a branch that is
better still is a candidate. The exception was found by the proof, and TLC
confirms it on a tree of seven blocks: while a reorganisation is under way the candidates
are those not worse than the old tip; when it fails half-way the tip is at the fork, and
blocks between the two are not candidates until the old tip, which is, has been
connected again (`main.cpp:2834-2850`). Both `CandidatesComplete` and `BestChainActive` are about blocks
that are better than every forgotten block: a forgotten ancestor that is connected later prunes
worse branches, and has nothing to come back to when it is left again.

`SyncFinishes` gives the retry after a failure as well: a node that ends up synchronised has
been through the list stage since.

`NewestNotShutOut` holds for an owner who leaves `MASTERNODE_MIN_MNB_SECONDS` between two
broadcasts (`Patient`). Without that TLC refutes it with three nodes and three
broadcasts, none of them far apart: a peer takes the newest for too early (`masternode.cpp:589`), keeps it as seen, and
then loses its PRE_ENABLED entry to an older broadcast that comes late and finds `cs_main` busy. It
has no entry then and ignores the newest broadcast as already seen until the clean-up forgets it; the
older one, which was erased from what was seen, may come again before that.

### 3.1 Bounds

* `spork`: a signer and another node (2 nodes), one spork id (ids are independent), two
  values, two sporks signed, three instants, a restart. The signer's clock is one ahead
  and `MaxFuture` is 0, so that sporks are refused as too far ahead; two sporks are what
  order, ties and a stale database need.
* `swifttx`: two transactions that spend the same output;
  one signature completes a lock, so that every vote does so. `MaxBlocks` is 2 and `nReprocess` 0, so that
  the chain is one block longer than what `ReprocessBlocks` takes off and a rival may be buried below it. Nothing
  else is bounded. `swifttx_clean` has no blocks: locks are cleaned up without them.
  Two further instances that hold: `SwiftTXShared.cfg`, where one transaction has an input of its own besides the common one, and
  `SwiftTXVotes.cfg`, one request, three masternodes of
  which one is ranked only for another height, two signatures.
* `mnsync*`: three peers because the spork stage asks three; one item of each asset,
  `Threshold` 1 (2 in `mnsync_timeout`), so that repeated announcements run out; one other thread; one reset, sleep,
  loss of masternodes, loss of a peer or switch of SPORK_8 in `mnsync`, one of the first three in `mnsync_live`, where
  one of the peers is below `ActiveProtocol()`.
* `mnpayments`: two masternodes (one is this node's own), a payee and the empty
  one; the chain is as long as it takes to clean up a vote and take it again (`Limit` 2,
  `MaxTip` 5); two signatures; a restart or crash. Votes are on one height, as tallies of
  different heights meet only in `mapMasternodesLastVote` and the clean-up.
* `masternodes`: the masternode and its owner; two broadcasts, six ticks with `Window` 2,
  `Expiration` 3, `Removal` 4, `MinMnp` 2, so that an entry can expire, be removed and come back; one outage.
  Six ticks are too few for the clean-up of what was seen, after twice `Removal`; the
  theorems cover that, and any number of nodes.
* `coins`: two transactions, two values besides the pruned one, three blocks; nothing else is bounded. The
  flags of one transaction never depend on another; two show that a write spares the other.
* `checkqueue`: two workers and the master, batches of two, up to four checks for a block, any number of
  blocks. With two workers one can be interrupted, or start late, while the other works.
* `chain`: `g - a1` and `g - b1 - b2`, where a1 and b1 have the same work; any one block may be
  invalid, and refused on arrival or when it is connected; two uses of `invalidateblock` or `reconsiderblock`, of any block; one crash or full disk.

The runs of Spork, SwiftTX, Masternodes, Coins and ChainState do not check for deadlock: a
network where nothing is left to send, or a node with no locks to clean and no messages, may
rest, and time, outages and RPCs are bounded.

### 3.2 Fairness

* Spork: messages between running nodes arrive (TCP), handler and RPC threads go on, a
  restarted node asks a peer. Signing, clock, fork and restarts are not fair.
* SwiftTX: the handler finishes its message, an hour passes, the clean-up
  runs (the masternode thread calls it every minute). Requests, votes and blocks are not
  fair.
* MasternodeSync: the masternode thread runs and gets `cs_vNodes` for its loop now and then (strong
  fairness of `ProcessLoop`: it tries every five seconds and the lock is held for
  moments); other threads finish their calls and poll again; the chain catches up, a masternode is found, peers connect.
  `AnsweredSpec` adds that peers answer (strong fairness of an item that arrives while `Process` waits in the
  stage of the list or the winners). Nothing is assumed of `ClearFulfilledRequest`: `cs_vNodes` may be busy whenever it
  tries, and `SyncFinishes` says what happens then. `mnsync_timeout` has no answers.
* CheckQueue: the scheduler runs every thread that can run, and `ConnectBlock` comes to
  `Wait`. No wake-up is promised that nobody sent, and no worker ever has to start.
* ChainState: the thread that holds `cs_main` goes on, and one that waits for it in
  `ActivateBestChain` gets it. New blocks, RPCs, periodic writes and failures are not fair.
* Masternodes and Coins state safety only.

### 3.3 What the violated runs show

1. **Locks that do not cancel** (`swifttx.cpp:368`). The votes of a refused request
   complete against an empty transaction, so that no conflict is seen.
   `swifttx.h:48`: "they will cancel out".
2. **Timeout that is not looked at** (`masternode-sync.cpp:328`). Peers already asked are
   skipped before the test of the timeout; in the budget stage it is the other way
   round.

### 3.4 Further disagreements

Each has a configuration, which TLC refutes when it is run
(`tlc -config <file> <module>`):

| Configuration, module | Property | What happens |
|---|---|---|
| `SporkSigner.cfg`, `MCSpork` | `SignerMemoryMatchesDB` | `spork.cpp:152`: on a node with the key the handler saves its spork after it has released `cs`, over a newer one of `UpdateSpork`. The next start loads the older. |
| `SwiftTXRelease.cfg`, `MCSwiftTX` | `InputsGetReleased` | `swifttx.cpp:451`: the clean-up finds inputs by `mapTxLockReq`; a refused request is not in it, and its inputs stay locked. |
| `MasternodeSyncRace.cfg`, `MCMasternodeSync` | `NoResetLost` | `masternode-sync.cpp:160`: neither `Reset` nor `GetNextAsset` takes a lock. A reset between the switch and the assignment is written over: the node asks for winners, or calls itself synchronised, with `fBlockchainSynced` false and no items (line 283: "sporks synced but blockchain is not, wait until we're almost at a recent block to continue"). |
| `MasternodeSyncBusy.cfg`, `MCMasternodeSync` | `RetriesLater` | `masternode-sync.cpp:244`: the flags of the peers are not cleared when `cs_vNodes` is busy. All peers count as asked for sporks, a stage without a timeout, and the list is not asked for again while these connections last (line 335: "will retry later"). |
| `MasternodePaymentsDump.cfg`, `MCMasternodePayments` | `SignedAfterRestart` | `init.cpp:213`: `mnpayments.dat` is written before the threads stop, votes first, tallies second, without a lock. A vote counted in between is saved in the tally only, is taken and counted again after the restart, and a payee is enforced that fewer masternodes have signed than `masternode-payments.cpp:599` says. |
| `MasternodePaymentsReward.cfg`, `MCMasternodePayments` | `PayingMoreIsValid` | `masternode-payments.cpp:611`: at a reduction of the reward `FillBlockPayee` pays by the height before, `IsTransactionValid` compares exactly with the height itself, where the comment at 592 says "only checks for mnPayment >= required". The node refuses its own block. |
| `CoinsDiskError.cfg`, `MCCoins` | `DiskRepresentsBest` | `txdb.cpp:65`: the entries leave the cache while the batch is filled. When the write fails, the shutdown that follows writes the best block alone, and the database names a block whose coins it does not have (`coins.h:346`: "the block hash whose state this CCoinsView currently represents"). |
| `MasternodesActivation.cfg`, `MCMasternodes` | `RemotelyActivated` | `masternode.cpp:606`: a masternode that dropped itself from its list (after a sleep) still has its vin, takes its new broadcast for one it need not look at, and is not activated until it is restarted. |
| `ChainStateCrash.cfg`, `MCChainState` | `StartsAgain` | `main.cpp:2792`: `invalidateblock` disconnects block by block, each of which may write the index with its failed flags before the coins have left the failed blocks. After a crash in between no candidate is as good as the tip, and the assertion fails at every start. |
| `ChainStateReprocess.cfg`, `MCChainState` | `BestChainActive` | `main.cpp:2616`: `DisconnectBlocks` takes the tip back without putting pruned branches back among the candidates, as `InvalidateBlock` does. If a block is then refused, the node stays on a worse chain than one it has in full, until a block arrives on that branch or it restarts (line 2867: "The result is either failure or an activated best chain"). |
| `ChainStateReconsider.cfg`, `MCChainState` | `BestChainAlwaysActive` | `main.cpp:3014`: `reconsiderblock` clears the flags of ancestors but makes only descendants candidates. After `invalidateblock` of a block and `reconsiderblock` of a descendant of which the node has only the header, the block is valid and better than the tip, and is left aside until a restart or another `invalidateblock` (`rpc/blockchain.cpp:1050`: "This can be used to undo the effects of invalidateblock."). |
| `ChainStateIndexFault.cfg`, `MCChainState` | `StartsAgainUnlessInvalidating` | `main.cpp:2412`: `setDirtyBlockIndex` is emptied while the batch is built. When the write of the index fails, the flush of the shutdown has nothing left to write to it, but writes coins that name a block the index on disk does not have. |
| `ChainStateCheck.cfg`, `MCChainState` | `CheckBlockIndexSucceeds` | `CheckBlockIndex` of one thread (only with `-checkblockindex`) finds another half-way: a block that fails in a reorganisation leaves the tip at the fork, which was pruned from the candidates long ago, until the other thread's next step. |

Without a configuration:

* `main.cpp:3323` wants blocks refused only on "complete consensus"; inputs of a refused
  request are locked without a vote and keep blocks out (`IxReject`, then `Refused`).
* When all votes arrive before an accepted request, nothing locks its inputs until a later vote
  (`swifttx.cpp:85`).
* `CanVote` remembers the last height only; votes for alternating heights give one
  masternode votes for two payees of a block (never two for the same payee).
* A vote is remembered as cast before its signature is checked
  (`MnwBadSignature`), and one of a masternode without a rank is taken (-1 is not
  above 10).
* The spork stage ends with the third peer not asked before and has no timeout.
* A broadcast refused because its ping is too old stays "seen" for twice the removal time
  (`masternodeman.cpp:740`); the exception in `NewestNotShutOut` is this case.
* `CheckAndRemove` reads `*it3` after it has moved past the erased entry
  (`masternodeman.cpp:322`), possibly past the end.
* A PRE_ENABLED entry refuses pings (`masternode.cpp:766`), so that only a new broadcast, or the
  removal and return of the entry, enables it.
* `ReconsiderBlock` of a block removes the flags of its ancestors and descendants, not of its
  ancestors' other descendants, which stay failed below a valid block; `DisconnectBlocks` goes on when `DisconnectTip` fails, and
  disconnects one block more than it is asked to.

## 4. Proofs

Each `*_proofs` module has the shape: `Init` implies the invariant, one lemma or step for each
action, the theorem by propositional temporal logic. Nothing bounds the sets of
nodes, transactions, masternodes, peers, workers, blocks or heights, except that masternodes,
payees, workers and blocks are finite, which cardinalities and the best candidate need. The bounds on
blocks' failures, RPCs and crashes are constants of any value.

| Theorem | Says | Inductive invariant and why |
|---|---|---|
| `Spork_proofs!TypeCorrect` | `TypeOK` | itself |
| `DatabaseFollowsMemory` | `MemoryMatchesDB` | `HandlerInv`: what memory and database are at each point of the handler. The property speaks of the idle handler only, which the step to idle cannot be proved from. |
| `SporksNeverGetOlder` | `NeverOlder` | `HandlerInv`: the spork that passed the test is still newer when it is stored, as nobody else writes on a node without the key |
| `SwiftTX_proofs!TypeCorrect` | `TypeOK` | itself |
| `VotersAreDistinct` | `DistinctVoters` | with `VotesRecorded`: each vote in a lock, and the one in the handler's hands, is in `mapTxLockVote`, although clean-up removes votes from it in the middle of a message |
| `NeverDoubleSpent` | `NoDoubleSpend` | with `BranchesSpendOnce`: nor does a branch that `ReprocessBlocks` may bring back hold two blocks that spend the same output |
| `FirstLockKeepsInput`, `LocksKeepConflictsOut` | `FirstLockWins`, `LocksKeepOut` | action properties, from types |
| `RejectedLockWins` | `RejectedLockClearsChain` | action property: expired locks keep their votes, so only the lock in the handler's hands is completed; `ReprocessBlocks` leaves nothing that spends an input locked for another above the blocks it does not take off (`k + nReprocess >= Len(chain)`), whichever branch it ends on. A rival buried deeper stays |
| `MasternodeSync_proofs!TypeCorrect` | `TypeOK` | itself |
| `ChainComesFirst`, `SynchronisedWithData` | `ChainSyncedFirst`, `FinishedWithData`: while no reset is under way and none was lost | `Stages`: with `LoopNeedsChain` (the thread is in the loop past the sporks only with the chain), `EndsWithData` (it ends a stage only with its items, or waived), `WritesNextStage` (what it is about to write follows what it read). A reset by any of any number of threads breaks each of them unless it is under way or `overwritten` says that `Process` went on |
| `MasternodePayments_proofs!TypeCorrect` | `TypeOK` | itself |
| `TallyIsExact` | `TallyMatchesVotes`: until a disturbed shutdown has written the file | `TallyInv`: `AddedInTime` (no vote under way is for a block so old that clean-up drops its tally before it is counted), `FileExact` (the file agrees with itself), `QuietDump` (an undisturbed shutdown saves what is there), `FinitelyMany`. Threads may run during every shutdown |
| `EnforcedIsSigned` | `EnoughSignatures`, with the same proviso | from `TallyIsExact`'s invariant: votes of one block and payee are of different masternodes |
| `Coins_proofs!TypeCorrect` | `TypeOK` | `IndInv`, below |
| `AssertionHolds`, `DiskConsistent`, `TipConsistent` | `FreshAssertHolds`, `DiskRepresentsBest`, `TipRepresentsBest` | `IndInv`: the flags tell the truth about the layer below (`TipSound`, `ViewSound`), and what the view has and `pcoinsTip` has not is FRESH (`Pulled`). Without `Pulled` the step that empties `pcoinsTip` could not be told from one that loses a deletion |
| `WritesAreRead` | `WriteIsRead` | action property, from `IndInv` |
| `Refinement` | `ImplementsPromise` | from `IndInv`: a batch write gives the parent what a reader of the child saw, reads change nothing anyone sees |
| `Masternodes_proofs!TypeCorrect` | `TypeOK` | `IndInv`, below |
| `SilentRemoved`, `SpentStaysDisabled` | `SilentGone`, `SpentNotEnabled` | `IndInv`: every entry is `Good` (its times are past, its state is true of its ping unless the node pings itself, after the loop of a tick it is neither silent nor enabled and spent), what was seen and sent is of the past (`Past`), an active masternode knows its vin (`Started`) |
| `NeverGoesBack` | `NeverBackwards` | action property; by `Past` no broadcast has a ping older than itself, also one that a list request brings back from an entry (`SigSeen`), so a newer broadcast has a ping not much older than the entry's |
| `NewestCanBeAdded` | `NewestNotShutOut` | `NewestListed`: a node that has seen the newest broadcast lists that very one, or it was too late; with `OnlySent` (nothing is seen or listed that was not sent). Without it the step that removes an entry, by the clean-up or for a broadcast that is not the newest, could leave the newest seen and not listed |
| `CheckQueue_proofs!TypeCorrect` | `TypeOK` | `IndInv`, below |
| `VerdictCorrect`, `ChecksEnd`, `UnusedAtStart` | `VerdictExact`, `NoCheckOutlives`, `QueueUnusedAtStart` | `IndInv`: `nTodo` is the queue plus what threads hold (`TodoExact`), `nTotal` and `nIdle` count threads in `Loop` and in a wait, interrupted ones for ever (`LoopCounted`), a failing check leaves its mark in queue, batch, thread or `fAllOk` until `Wait` returns (`FailureKept`), and nothing is left between two controls (`Quiet`). That `nTodo = 0` lets the master return is safe only by the first, that it answers for this block only by the last two |
| `ChainState_proofs!TypeCorrect` | `TypeOK` | `IndInv`, below |
| `BestChainIsActive`, `CandidatesAreComplete`, `SomeCandidateLeft` | `BestChainActive`, `CandidatesComplete`, the assertion of `PruneBlockIndexCandidates` | `Covered`: a block not worse than the tip is a candidate, or a better candidate exists that has no failed block and breaks no rule (the old tip of a reorganisation); both for blocks better than every forgotten one, which are linked (`ForgottenLinked`). `TargetBest`: the target stays the best candidate while its branch is connected. `CandidatesGood`: no candidate is worse than the tip |
| `ActiveChainClean`, `StartsAgainAfterCrash` | `NoFailedActive`, `StartsAgainUnlessInvalidating` | `DiskAgrees` (disk and memory differ only in dirty entries), `CoinsNear` (the coins are at most one block from the tip, those on disk are never beside the active chain), `ActiveValid`, `NoFailedInChain`, `NoFailedOnDisk`: flags reach the disk only for blocks off the chain of the coins, except in `InvalidateBlock` |

Assumptions of note:

* `WindowAssumption`: `Window + MaxLag <= Limit`. Votes are taken 1.25 times the number
  of masternodes back, the clean-up keeps 1000 blocks at least: up to about 800
  masternodes there is room for the blocks that come during one message. Above, the
  clean-up keeps 1.25 times the number of masternodes as well, and the room is gone.
* `MasternodesAssumption`: `Window < Expiration < Removal` (one, two and two hours and ten minutes in
  the code), the other limits only positive.
* `CoinsAssumption`: the markers for nothing are not values. The disk accepts what is written (`Spec`, not
  `FaultySpec`).
* `ChainAssumption`: blocks are finitely many, have more work than their parent, and different addresses
  in memory (the comparator's last resort). `Spec` is without `ReprocessBlocks` (`LockSpec` has it, and
  `ChainStateReprocess.cfg` shows that `BestChainActive` then fails), without a failing write of the index
  (`IndexFaultSpec`) and without a crash in the middle of `invalidateblock` (`CrashSpec`). `reconsiderblock` takes any block.
* `PaymentsAssumption`: votes are taken for at least one block ahead (20 in the code).

Checked by TLC only: all liveness (`Convergence`, `LocksGetCleaned`, `SyncFinishes`,
`SleepResyncs`, `WaitReturns`, `ActivationEnds`: fairness is out of the prover's
reach). Every invariant and action property of a passing run has a theorem. `LocksKeepOut`, `WriteIsRead`, `CandidatesLeft` and the `TypeOK` of
`SwiftTX` are proved and have no run.

## 5. Left out of the modelled parts

* Spork: denial-of-service scores and bans; what other parts do with a spork.
* SwiftTX: relays, notifications, the limit on relaying votes of unknown requests
  (`mapUnknownVotes`); more than one watched transaction in a block; other threads in the middle of `ReprocessBlocks`; undefined behaviour of
  containers that two threads change at once.
* Sync: the branch for the regression-test network, counts of "ssc" messages (shown by an
  RPC only), `DsegUpdate`'s limit of one list in three hours for a peer.
* Payments: `mapSeenSyncMNW`, which clean-up shortens too; answering "mnget", budget blocks beyond the choice of the own vote,
  scheduling queries, a file damaged in the middle of a write (the code refuses to
  overwrite it from then on), `GetBlockHash` for the first hundred blocks.

* Masternodes: more than one masternode (entries do not depend on each other), the start with
  the collateral in the node's own wallet, clocks that differ, ports, versions and confirmations, the limit
  on who may ask for a whole list, a crash without `DumpMasternodes` (it brings back an older list, as a
  long stop does).
* Coins: outputs inside a `CCoins` and their undo data, statistics, the memory pool's view.
* CheckQueue: the scheduler; the checks themselves.
* ChainState: consensus rules (whether a block keeps them is a fact of the block), block files, checkpoints
  (and the reconsideration of blocks because of them in `AcceptBlock`),
  fork warnings, memory pool and wallet callbacks, blocks whose work differs by more than their height.

## 6. Plan

1. `Budget`: votes before their proposal, incremental sync.
2. `TxMemPool` under `ChainState`: removal of conflicts, return of transactions after a
   reorganisation.
3. Abstract specifications: a spork register that only moves forward, implemented
   by `Spork` on a node without the key; a set of votes whose count is taken at once,
   implemented by `MasternodePayments`; each a PROPERTY for TLC and then a theorem.
4. Small parts: `Scheduler`, `TimeData` (median against its definition), stake modifier
   selection, `AddrMan`.
5. Proofs: the refinements of item 3.
