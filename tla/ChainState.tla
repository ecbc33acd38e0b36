----------------------------- MODULE ChainState -----------------------------
(***************************************************************************)
(* The block index, the set of candidates and the active chain (main.cpp): *)
(* blocks arrive on several branches, ActivateBestChain moves the active   *)
(* chain to the branch with most work in steps that release cs_main in     *)
(* between, blocks turn out invalid on the way, an operator invalidates    *)
(* and reconsiders blocks, a lock conflict makes the node reprocess its    *)
(* last blocks, and the process may die anywhere and start from what was   *)
(* written: the block index first, then the coins.                         *)
(*                                                                         *)
(* `job' is the work some thread does with cs_main held; while it is not   *)
(* Free no other thread gets in, but a crash does.  The coins stand for    *)
(* their best block only: module Coins shows that the layers of coins      *)
(* views always hold the coins of the block they name.                     *)
(*                                                                         *)
(* Left out: the memory pool and wallet callbacks of a new tip, fork       *)
(* warnings, pindexBestHeader, the block files (written before the index), *)
(* and the blocks that are reconsidered because a checkpoint names them.   *)
(***************************************************************************)
EXTENDS Integers, FiniteSets

CONSTANTS Block,           \* the block tree
          Genesis,         \* its root
          Parent,          \* CBlockIndex::pprev of the other blocks
          Work,            \* nChainWork
          Address,         \* the tie-breaker between blocks loaded from disk
          nReprocess,      \* the 15 of ReprocessBlocks(15)
          MaxInvalid,      \* bound: blocks that break a consensus rule
          MaxInvalidations,\* bound: uses of the RPCs on the block index
          MaxRestarts      \* bound: crashes and shutdowns

\* Two entries of mapBlockIndex have different addresses.
ASSUME ChainAssumption ==
    /\ IsFiniteSet(Block) /\ Genesis \in Block
    /\ Parent \in [Block \ {Genesis} -> Block]
    /\ Work \in [Block -> Nat]
    /\ Address \in [Block -> Nat]
    /\ \A a, b \in Block : Address[a] = Address[b] => a = b
    /\ \A b \in Block \ {Genesis} : Work[Parent[b]] < Work[b]
    /\ {nReprocess, MaxInvalid, MaxInvalidations, MaxRestarts} \subseteq Nat

\* A block with its ancestors.
chain[b \in Block] ==
    IF b = Genesis THEN {b} ELSE {b} \cup chain[Parent[b]]

VARIABLES index,       \* the blocks in mapBlockIndex
          data,        \* those with BLOCK_HAVE_DATA
          failedValid, \* BLOCK_FAILED_VALID
          failedChild, \* BLOCK_FAILED_CHILD
          seqId,       \* nSequenceId
          dirty,       \* setDirtyBlockIndex
          cand,        \* setBlockIndexCandidates
          tip,         \* chainActive.Tip()
          coins,       \* the best block of pcoinsTip
          disk,        \* the block index database and the coins database
          job,         \* what is done under cs_main
          want,        \* some thread is in ActivateBestChain
          invalid,     \* the blocks that break a consensus rule
          locked,      \* those with a transaction a complete lock forbids
          rejected,    \* mapRejectedBlocks
          forgotten,   \* history: made valid again, and not put among the candidates
          uses,        \* RPCs used
          restarts     \* restarts so far

entries == <<index, data, failedValid, failedChild, seqId, dirty>>
history == <<forgotten, uses, restarts>>
vars == <<entries, cand, tip, coins, disk, job, want, invalid, locked, rejected, history>>

Free == [op |-> "free", target |-> Genesis, old |-> Genesis, stage |-> "run"]

Job == [op : {"free", "find", "activate", "invalidate", "reprocess", "flush", "abort"},
        target : Block, old : Block, stage : {"run", "index", "coins"}]

Disk == [index : SUBSET Block, data : SUBSET Block,
         failedValid : SUBSET Block, failedChild : SUBSET Block, coins : Block]

TypeOK ==
    /\ index \subseteq Block /\ data \subseteq index
    /\ failedValid \subseteq index /\ failedChild \subseteq index
    /\ seqId \in [Block -> 0 .. Cardinality(Block)]
    /\ dirty \subseteq index
    /\ cand \subseteq data
    /\ tip \in data /\ coins \in data
    /\ disk \in Disk
    /\ job \in Job
    /\ want \in BOOLEAN
    /\ invalid \subseteq Block /\ locked \subseteq Block /\ rejected \subseteq locked
    /\ forgotten \subseteq Block
    /\ uses \in 0 .. MaxInvalidations
    /\ restarts \in 0 .. MaxRestarts

Init ==
    /\ index = {Genesis} /\ data = {Genesis}
    /\ failedValid = {} /\ failedChild = {}
    /\ seqId = [b \in Block |-> 0]
    /\ dirty = {}
    /\ cand = {Genesis}
    /\ tip = Genesis /\ coins = Genesis
    /\ disk = [index |-> {Genesis}, data |-> {Genesis},
               failedValid |-> {}, failedChild |-> {}, coins |-> Genesis]
    /\ job = Free
    /\ want = FALSE
    /\ invalid \in {s \in SUBSET (Block \ {Genesis}) : Cardinality(s) <= MaxInvalid}
    /\ locked = {} /\ rejected = {}
    /\ forgotten = {}
    /\ uses = 0 /\ restarts = 0

-----------------------------------------------------------------------------
(* The block index.                                                        *)

\* BLOCK_FAILED_MASK.
Failed(b) == b \in failedValid \cup failedChild

\* nChainTx # 0: the block and all its ancestors have their data.
LinkedIn(has, b) == chain[b] \subseteq has
Linked(b) == LinkedIn(data, b)

\* CBlockIndexWorkComparator: a sorts before b.
WorseWith(ids, a, b) ==
    \/ Work[a] < Work[b]
    \/ Work[a] = Work[b] /\ ids[a] > ids[b]
    \/ Work[a] = Work[b] /\ ids[a] = ids[b] /\ Address[a] > Address[b]
Worse(a, b) == WorseWith(seqId, a, b)

\* The last element of setBlockIndexCandidates.
Best(s) == CHOOSE b \in s : \A c \in s : ~Worse(b, c)

\* The blocks of b's branch that are not active.
Path(b) == chain[b] \ chain[tip]

\* The block after the tip on the way to b.
NextTo(b) == CHOOSE c \in chain[b] : c # Genesis /\ Parent[c] = tip

\* A block whose header is accepted but whose data is not stored: AcceptBlock
\* refuses the inputs of its coin stake.
AcceptBlockHeader(b) ==
    /\ job = Free
    /\ b \notin index
    /\ Parent[b] \in index /\ ~Failed(Parent[b])
    /\ index' = index \cup {b}
    /\ dirty' = dirty \cup {b}
    /\ UNCHANGED <<data, failedValid, failedChild, seqId, cand, tip, coins, disk,
                   job, want, invalid, locked, rejected, history>>

\* The blocks that ReceivedBlockTransactions links when b gets its data: b
\* and the descendants that wait for it in mapBlocksUnlinked.
NewlyLinked(b) ==
    {c \in data \cup {b} : LinkedIn(data \cup {b}, c) /\ ~Linked(c)}

\* They get the next sequence numbers, parents first.
Highest == CHOOSE n \in {seqId[b] : b \in Block} : \A b \in Block : seqId[b] <= n
Numbered(new) ==
    [c \in Block |->
        IF c \in new
        THEN Highest + Cardinality({d \in new : Work[d] < Work[c] \/ (Work[d] = Work[c] /\ Address[d] <= Address[c])})
        ELSE seqId[c]]

MutantCandidatesOne(b, ids) == IF WorseWith(ids, b, tip) THEN {} ELSE {b}

\* The new blocks that become candidates.
NewCandidates(b, ids) == {c \in NewlyLinked(b) : ~WorseWith(ids, c, tip)}

\* ProcessNewBlock of a new block: AcceptBlock, ReceivedBlockTransactions,
\* and then, without the lock, ActivateBestChain.
AcceptBlock(b) ==
    /\ job = Free
    /\ b \notin data
    /\ Parent[b] \in index /\ ~Failed(Parent[b]) /\ ~Failed(b)
    /\ index' = index \cup {b}
    /\ dirty' = dirty \cup {b}
    /\ data' = data \cup {b}
    /\ seqId' = Numbered(NewlyLinked(b))
    /\ cand' = cand \cup NewCandidates(b, seqId')
    /\ want' = TRUE
    /\ UNCHANGED <<failedValid, failedChild, tip, coins, disk, job, invalid, locked, rejected,
                   history>>

\* AcceptBlock of a block that ContextualCheckBlock refuses: the header is
\* kept, with the flag.  Which rules an invalid block breaks is left open, so
\* that it is refused here or when it is connected.
AcceptBlockRefuses(b) ==
    /\ job = Free
    /\ b \in invalid \ data
    /\ Parent[b] \in index /\ ~Failed(Parent[b]) /\ ~Failed(b)
    /\ index' = index \cup {b}
    /\ dirty' = dirty \cup {b}
    /\ failedValid' = failedValid \cup {b}
    /\ UNCHANGED <<data, failedChild, seqId, cand, tip, coins, disk, job, want, invalid, locked,
                   rejected, history>>

-----------------------------------------------------------------------------
(* ActivateBestChain.                                                      *)

\* FindMostWorkChain, one iteration: the best candidate descends from a
\* failed block.  The part of its branch from there on is dropped; its new
\* flags do not make the entries dirty.
FindDropsFailed ==
    /\ want
    /\ job.op \in {"free", "find"}
    /\ cand # {}
    /\ LET new == Best(cand)
           bad == {b \in Path(new) : Failed(b)}
       IN  /\ bad # {}
           /\ LET top == CHOOSE b \in bad : \A c \in bad : Work[c] <= Work[b]
                  above == {b \in Path(new) : Work[b] > Work[top]}
              IN  /\ failedChild' = failedChild \cup above
                  /\ cand' = cand \ (above \cup {top})
    /\ job' = [Free EXCEPT !.op = "find"]
    /\ UNCHANGED <<index, data, failedValid, seqId, dirty, tip, coins, disk, want, invalid,
                   locked, rejected, history>>

\* FindMostWorkChain finds nothing better: ActivateBestChain is done.
FindNothing ==
    /\ want
    /\ job.op \in {"free", "find"}
    /\ cand # {} => Best(cand) = tip
    /\ job' = Free
    /\ want' = FALSE
    /\ UNCHANGED <<entries, cand, tip, coins, disk, invalid, locked, rejected, history>>

\* It finds a branch: ActivateBestChainStep begins.
FindBranch ==
    /\ want
    /\ job.op \in {"free", "find"}
    /\ cand # {} /\ Best(cand) # tip
    /\ \A b \in Path(Best(cand)) : ~Failed(b)
    /\ job' = [op |-> "activate", target |-> Best(cand), old |-> tip, stage |-> "run"]
    /\ UNCHANGED <<entries, cand, tip, coins, disk, want, invalid, locked, rejected, history>>

\* PruneBlockIndexCandidates, with b as the new tip.
Pruned(s, b) == {c \in s : ~Worse(c, b)}

\* UpdateTip to the best block of the coins, and what follows it.  After a
\* ConnectTip the candidates are pruned.  ActivateBestChainStep returns, and
\* the lock is released, at its target or when the chain is better than
\* before; ActivateBestChain goes on until the tip is its target.
UpdateTip ==
    /\ tip' = coins'
    /\ cand' = IF job.op = "activate" /\ tip \in chain[tip'] THEN Pruned(cand, tip') ELSE cand
    /\ IF job.op = "activate" /\ (tip' = job.target \/ Work[tip'] > Work[job.old])
       THEN job' = Free /\ want' = (tip' # job.target)
       ELSE job' = [job EXCEPT !.stage = "run"] /\ UNCHANGED want

\* DisconnectTip: the view is flushed into pcoinsTip, then the state must be
\* written to disk before the tip moves.
DisconnectTip ==
    /\ coins' = Parent[tip]
    /\ job' = [job EXCEPT !.stage = "index"]
    /\ UNCHANGED <<index, data, failedValid, seqId, tip, disk, want, invalid, locked, rejected,
                   history>>

StepDisconnect ==
    /\ job.op = "activate" /\ job.stage = "run"
    /\ tip \notin chain[job.target]
    /\ DisconnectTip
    /\ UNCHANGED <<failedChild, dirty, cand>>

\* ConnectTip of a valid block.  The state is written if the caches are full.
StepConnect ==
    /\ job.op = "activate" /\ job.stage = "run"
    /\ tip \in chain[job.target]
    /\ LET b == NextTo(job.target)
       IN  /\ b \notin invalid \cup locked
           /\ coins' = b
    /\ \/ UpdateTip
       \/ /\ job' = [job EXCEPT !.stage = "index"]
          /\ UNCHANGED <<tip, cand, want>>
    /\ UNCHANGED <<entries, disk, invalid, locked, rejected, history>>

MutantStepConnectForgets ==
    /\ job.op = "activate" /\ job.stage = "run"
    /\ tip \in chain[job.target]
    /\ NextTo(job.target) \in invalid \cup locked
    /\ job' = Free
    /\ UNCHANGED <<entries, cand, tip, coins, disk, want, invalid, locked, rejected, history>>

\* ConnectTip of a block that breaks a rule: InvalidBlockFound.  The lock is
\* released with the chain as far as it got.
StepConnectFails ==
    /\ job.op = "activate" /\ job.stage = "run"
    /\ tip \in chain[job.target]
    /\ LET b == NextTo(job.target)
       IN  /\ b \in invalid \cup locked
           /\ failedValid' = failedValid \cup {b}
           /\ dirty' = dirty \cup {b}
           /\ cand' = cand \ {b}
           /\ rejected' = rejected \cup ({b} \cap locked)
    /\ job' = Free
    /\ UNCHANGED <<index, data, failedChild, seqId, tip, coins, disk, want, invalid,
                   locked, history>>

-----------------------------------------------------------------------------
(* FlushStateToDisk: "Finally flush the chainstate (which may refer to     *)
(* block index entries)."                                                  *)

\* Periodic, or from an RPC; with nothing to write it changes nothing.
FlushStart ==
    /\ job = Free
    /\ dirty # {} \/ coins # disk.coins
    /\ job' = [Free EXCEPT !.op = "flush", !.stage = "index"]
    /\ UNCHANGED <<entries, cand, tip, coins, disk, want, invalid, locked, rejected, history>>

\* The flags on disk after a write of the dirty entries.
Written(old, new) == (old \ dirty) \cup (new \cap dirty)

MutantFlushCoinsFirst ==
    /\ job.stage = "index"
    /\ disk' = [disk EXCEPT !.coins = coins]
    /\ job' = [job EXCEPT !.stage = "coins"]
    /\ UNCHANGED <<entries, cand, tip, coins, want, invalid, locked, rejected, history>>

\* WriteBatchSync of the block index.
FlushIndex ==
    /\ job.stage = "index"
    /\ disk' = [index |-> disk.index \cup dirty,
                data |-> Written(disk.data, data),
                failedValid |-> Written(disk.failedValid, failedValid),
                failedChild |-> Written(disk.failedChild, failedChild),
                coins |-> disk.coins]
    /\ dirty' = {}
    /\ job' = [job EXCEPT !.stage = "coins"]
    /\ UNCHANGED <<index, data, failedValid, failedChild, seqId, cand, tip, coins, want,
                   invalid, locked, rejected, history>>

\* WriteBatchSync fails: the entries are no longer dirty, AbortNode.
FlushIndexFails ==
    /\ job.stage = "index"
    /\ restarts < MaxRestarts
    /\ dirty' = {}
    /\ job' = [Free EXCEPT !.op = "abort"]
    /\ UNCHANGED <<index, data, failedValid, failedChild, seqId, cand, tip, coins, disk, want,
                   invalid, locked, rejected, history>>

\* pcoinsTip->Flush(), and back to the caller.
FlushCoins ==
    /\ job.stage = "coins"
    /\ disk' = [disk EXCEPT !.coins = coins]
    /\ UNCHANGED coins
    /\ IF job.op \in {"flush", "abort"}
       THEN /\ job' = IF job.op = "flush" THEN Free ELSE [job EXCEPT !.stage = "run"]
            /\ UNCHANGED <<tip, cand, want>>
       ELSE UpdateTip
    /\ UNCHANGED <<entries, invalid, locked, rejected, history>>

\* Shutdown writes the state once more.
ShutdownFlush ==
    /\ job.op = "abort" /\ job.stage = "run"
    /\ job' = [job EXCEPT !.stage = "index"]
    /\ UNCHANGED <<entries, cand, tip, coins, disk, want, invalid, locked, rejected, history>>

\* CheckDiskSpace finds no room: the caller returns, the tip stays where it
\* was, and the node shuts down.
FlushFails ==
    /\ job.stage = "index"
    /\ restarts < MaxRestarts
    /\ job' = [Free EXCEPT !.op = "abort"]
    /\ UNCHANGED <<entries, cand, tip, coins, disk, want, invalid, locked, rejected, history>>

-----------------------------------------------------------------------------
(* The operator.                                                           *)

\* RPC invalidateblock: InvalidateBlock marks the block ...
InvalidateBlock(b) ==
    /\ job = Free
    /\ uses < MaxInvalidations
    /\ b \in index \ {Genesis}
    /\ failedValid' = failedValid \cup {b}
    /\ dirty' = dirty \cup {b}
    /\ cand' = cand \ {b}
    /\ job' = [Free EXCEPT !.op = "invalidate", !.target = b]
    /\ uses' = uses + 1
    /\ UNCHANGED <<index, data, failedChild, seqId, tip, coins, disk, want, invalid, locked,
                   rejected, forgotten, restarts>>

\* ... takes the active chain back to before it ...
InvalidateDisconnects ==
    /\ job.op = "invalidate" /\ job.stage = "run"
    /\ job.target \in chain[tip]
    /\ failedChild' = failedChild \cup {tip}
    /\ dirty' = dirty \cup {tip}
    /\ cand' = cand \ {tip}
    /\ DisconnectTip

MutantInvalidateNothingBack ==
    /\ job.op = "invalidate" /\ job.stage = "run"
    /\ job.target \notin chain[tip]
    /\ cand' = cand
    /\ job' = Free
    /\ want' = TRUE
    /\ forgotten' = {}
    /\ UNCHANGED <<entries, tip, coins, disk, invalid, locked, rejected, uses, restarts>>

MutantInvalidateHeadersBack ==
    /\ job.op = "invalidate" /\ job.stage = "run"
    /\ job.target \notin chain[tip]
    /\ cand' = cand \cup {b \in index : ~Failed(b) /\ ~Worse(b, tip)}
    /\ job' = Free
    /\ want' = TRUE
    /\ forgotten' = {}
    /\ UNCHANGED <<entries, tip, coins, disk, invalid, locked, rejected, uses, restarts>>

MutantInvalidateOnlyTip ==
    /\ job.op = "invalidate" /\ job.stage = "run"
    /\ job.target # tip
    /\ cand' = cand \cup {b \in data : Linked(b) /\ ~Failed(b) /\ ~Worse(b, tip)}
    /\ job' = Free
    /\ want' = TRUE
    /\ forgotten' = {}
    /\ UNCHANGED <<entries, tip, coins, disk, invalid, locked, rejected, uses, restarts>>

\* ... and puts back the candidates that were worse than the old tip.
InvalidateEnds ==
    /\ job.op = "invalidate" /\ job.stage = "run"
    /\ job.target \notin chain[tip]
    /\ cand' = cand \cup {b \in data : Linked(b) /\ ~Failed(b) /\ ~Worse(b, tip)}
    /\ job' = Free
    /\ want' = TRUE
    /\ forgotten' = {}
    /\ UNCHANGED <<entries, tip, coins, disk, invalid, locked, rejected, uses, restarts>>

\* ReconsiderBlock of every block of s: the flags of the block, of all its
\* descendants and of all its ancestors are removed; of the blocks that are no
\* longer failed only the first two are put among the candidates.
Descendants(b) == {c \in index : b \in chain[c]}
Reconsidered(s) ==
    LET below == UNION {Descendants(b) : b \in s}
        above == UNION {chain[b] : b \in s}
    IN  /\ failedValid' = failedValid \ (below \cup above)
        /\ failedChild' = failedChild \ (below \cup above)
        /\ dirty' = dirty \cup {c \in below : Failed(c) \/ c \notin data}
                         \cup {c \in above : Failed(c)}
        /\ cand' = cand \cup {c \in below : Failed(c) /\ Linked(c) /\ Worse(tip, c)}
        /\ forgotten' = forgotten \cup {c \in above \ below : Failed(c) /\ Linked(c)}

\* RPC reconsiderblock.
ReconsiderBlock(b) ==
    /\ job = Free
    /\ uses < MaxInvalidations
    /\ b \in index
    /\ Reconsidered({b})
    /\ want' = TRUE
    /\ uses' = uses + 1
    /\ UNCHANGED <<index, data, seqId, tip, coins, disk, job, invalid, locked, rejected, restarts>>

-----------------------------------------------------------------------------
(* SwiftTX: a lock is completed against a transaction of the active chain. *)

\* The block DisconnectBlocks(nBlocks) ends at: its loop counts to nBlocks
\* inclusive, and stops nowhere above Genesis, which has no undo data.
BackFrom(b, n) ==
    IF Cardinality(chain[b]) <= n + 2 THEN Genesis
    ELSE CHOOSE c \in chain[b] : Cardinality(chain[c]) = Cardinality(chain[b]) - (n + 1)

\* CheckBlock refuses b from now on; ReprocessBlocks reconsiders what it
\* refused before ...
ReprocessBlocks(b) ==
    /\ job = Free
    /\ uses < MaxInvalidations
    /\ b \in chain[tip] \ {Genesis}
    /\ locked' = locked \cup {b}
    /\ Reconsidered(rejected)
    /\ job' = [Free EXCEPT !.op = "reprocess", !.target = BackFrom(tip, nReprocess)]
    /\ uses' = uses + 1
    /\ UNCHANGED <<index, data, seqId, tip, coins, disk, want, invalid, rejected, restarts>>

\* ... DisconnectBlocks takes the chain back ...
ReprocessDisconnects ==
    /\ job.op = "reprocess" /\ job.stage = "run"
    /\ tip # job.target
    /\ DisconnectTip
    /\ UNCHANGED <<failedChild, dirty, cand>>

\* ... and ActivateBestChain connects the blocks again.
ReprocessEnds ==
    /\ job.op = "reprocess" /\ job.stage = "run"
    /\ tip = job.target
    /\ job' = Free
    /\ want' = TRUE
    /\ UNCHANGED <<entries, cand, tip, coins, disk, invalid, locked, rejected, history>>

-----------------------------------------------------------------------------
(* Death and restart.                                                      *)

\* LoadBlockIndexDB: the candidates among what was written, before and after
\* PruneBlockIndexCandidates.
LoadedIds == [b \in Block |-> 0]
Loaded ==
    {b \in disk.data : /\ b \notin disk.failedValid \cup disk.failedChild
                       /\ LinkedIn(disk.data, b)}
LoadedPruned == {b \in Loaded : ~WorseWith(LoadedIds, b, disk.coins)}

\* The process dies, or ends after a last flush, and starts again.
Restart ==
    /\ restarts < MaxRestarts
    /\ restarts' = restarts + 1
    /\ index' = disk.index /\ data' = disk.data
    /\ failedValid' = disk.failedValid /\ failedChild' = disk.failedChild
    /\ seqId' = LoadedIds
    /\ dirty' = {}
    /\ tip' = disk.coins /\ coins' = disk.coins
    /\ cand' = LoadedPruned
    /\ job' = Free
    /\ want' = TRUE
    /\ locked' = {} /\ rejected' = {}
    /\ forgotten' = {}
    /\ UNCHANGED <<disk, invalid, uses>>

-----------------------------------------------------------------------------
Activate ==
    \/ FindDropsFailed
    \/ FindNothing
    \/ FindBranch
    \/ StepDisconnect
    \/ StepConnect
    \/ StepConnectFails

Flush == FlushIndex \/ FlushCoins

Next ==
    \/ \E b \in Block \ {Genesis} :
          AcceptBlockHeader(b) \/ AcceptBlock(b) \/ AcceptBlockRefuses(b)
    \/ Activate
    \/ FlushStart
    \/ Flush
    \/ ShutdownFlush
    \/ \E b \in Block : InvalidateBlock(b) \/ ReconsiderBlock(b)
    \/ InvalidateDisconnects
    \/ InvalidateEnds
    \/ job.op # "invalidate" /\ (FlushFails \/ Restart)

\* The thread that holds cs_main goes on, and one that wants it gets it.
Fairness == WF_vars(Activate) /\ WF_vars(Flush) /\ WF_vars(InvalidateDisconnects)
            /\ WF_vars(InvalidateEnds)

Spec == Init /\ [][Next]_vars /\ Fairness

\* The process may also die while a block is being invalidated.
CrashSpec == Init /\ [][Next \/ FlushFails \/ Restart]_vars

\* The write of the block index may fail.
IndexFaultSpec == Init /\ [][Next \/ FlushIndexFails]_vars

\* Locks may be completed against blocks of the active chain.
LockSpec ==
    Init /\ [][\/ Next
               \/ \E b \in Block : ReprocessBlocks(b)
               \/ ReprocessDisconnects
               \/ ReprocessEnds]_vars

-----------------------------------------------------------------------------
(* Properties.                                                             *)

\* The blocks that sort at least as good as the tip and are no candidates, and
\* the candidates that should not be any.
Missing == {b \in index : Linked(b) /\ ~Worse(b, tip)} \ cand
Stray == cand \ {b \in index : Linked(b) /\ ~Worse(b, tip)}

\* CheckBlockIndex: "If this block sorts at least as good as the current tip
\* and is valid, it must be in setBlockIndexCandidates" and "if this block
\* sorts worse than the current tip, it cannot be".
IndexChecked ==
    /\ Stray = {}
    /\ \A b \in Missing : chain[b] \cap failedValid # {}

\* No block of b's branch is known to be invalid.
Clean(b) == \A c \in chain[b] : ~Failed(c)

\* b is better than all ancestors that a reconsiderblock made valid again
\* without making them candidates.  The other blocks are in doubt: if such an
\* ancestor is connected later, what is worse than it is pruned, and it is no
\* candidate to come back to.
Kept(b) == \A f \in forgotten : Worse(f, b)
Remembered == {b \in data : Kept(b)}

\* Whenever cs_main is free, a branch that is better than the active chain and
\* not known to be invalid is a candidate, or one that is better still is: a
\* reorganisation that fails leaves the old tip among the candidates, and not
\* what was worse than it.  When no thread is in ActivateBestChain, the set has
\* every such block that is as good as the tip, and no other.  Only blocks that
\* are Remembered are meant.
CandidatesComplete ==
    job = Free =>
        /\ \A b \in Remembered :
              Linked(b) /\ Worse(tip, b) /\ Clean(b) =>
                 \E c \in cand : (c = b \/ Worse(b, c)) /\ Clean(c)
        /\ ~want => /\ Stray = {}
                    /\ \A b \in Missing \cap Remembered : ~Clean(b)

\* CheckBlockIndex succeeds for every thread that calls it (ProcessNewBlock
\* does, between two steps of another thread's ActivateBestChain).
CheckBlockIndexSucceeds == job = Free => IndexChecked

\* No branch that ends in a block of s, with all its data and no block known to
\* be invalid, is better than the active chain.
NothingBetter(s) == \A b \in s : Linked(b) /\ Clean(b) => ~Worse(tip, b)

\* ActivateBestChain: "The result is either failure or an activated best
\* chain".  When no thread is in it, no branch is better than the active chain,
\* of those that are Remembered.
BestChainActive == job = Free /\ ~want => NothingBetter(Remembered)

\* The same without the exception: reconsiderblock can "undo the effects of
\* invalidateblock" for every block that it makes valid again.
BestChainAlwaysActive == job = Free /\ ~want => NothingBetter(data)

\* No block of the active chain is known to be invalid while cs_main is free,
\* after restarts either.
NoFailedActive == job = Free => Clean(tip)

\* If the process died now, it could start again: LoadBlockIndexDB finds the
\* block of the coins in the index, and "either the current tip or a successor
\* of it" among the candidates (PruneBlockIndexCandidates asserts it).
StartsAgain ==
    disk.coins \in disk.data /\ LoadedPruned # {}

\* The same except while invalidateblock is at work (see StartsAgain).
StartsAgainUnlessInvalidating == job.op # "invalidate" => StartsAgain

\* ActivateBestChain ends, or the node shuts down.
ActivationEnds == want ~> ~want \/ job.op = "abort"
=============================================================================
