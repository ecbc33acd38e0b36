------------------------------ MODULE SwiftTX ------------------------------
(***************************************************************************)
(* Transaction locks (src/src/swifttx.cpp) on one node: lock requests      *)
(* ("ix"), votes of masternodes ("txlvote"), the locked inputs they lead   *)
(* to, and what the memory pool and the block check do with those inputs.  *)
(*                                                                         *)
(* No lock protects the maps of swifttx.cpp.  Three threads use them: the  *)
(* message handler, RPC or wallet calls, and the clean-up thread.  The two *)
(* handlers of messages are two steps each, so that the other threads run  *)
(* between a message's first and last access.                              *)
(***************************************************************************)
EXTENDS Naturals, Sequences, FiniteSets

CONSTANTS
  Tx,          \* transactions that pass IsIXTXValid and the script test
  Input,       \* transaction outputs that Tx spend
  spends,      \* [Tx -> SUBSET Input], the vin of a transaction
  Unfit,       \* transactions that fail the policy checks of the memory pool
  MN,          \* masternodes
  Self,        \* the masternode this node runs, or None
  Height,      \* block heights that votes may name; 0 stands for "none yet"
  LockHeight,  \* [Tx -> Height], the height CreateNewLock computes
  TopRanked,   \* [Height -> SUBSET MN], GetMasternodeRank <= SIGNATURES_TOTAL
  Required,    \* SWIFTTX_SIGNATURES_REQUIRED
  nReprocess,  \* nBlocks of ReprocessBlocks, 15
  MaxBlocks,   \* bound on the blocks that are watched
  None

ASSUME SwiftTXAssumption ==
  /\ spends \in [Tx -> SUBSET Input]
  /\ Unfit \subseteq Tx
  /\ Self \in MN \cup {None}
  /\ 0 \in Height
  /\ LockHeight \in [Tx -> Height \ {0}]
  /\ TopRanked \in [Height -> SUBSET MN]
  /\ Required \in Nat \ {0}
  /\ nReprocess \in Nat /\ MaxBlocks \in Nat
  /\ None \notin MN \cup Tx

\* A vote in a lock: vinMasternode and nBlockHeight.
Vote == [mn : MN, height : Height]

\* CTransactionLock.  "expired" is GetTime() > nExpiration.
Lock == [height : Height, votes : Seq(Vote), expired : BOOLEAN]

ASSUME NoLockAssumption == None \notin Lock

\* A block, by the transaction of Tx in it; None when it has none.  Blocks with
\* the same one on the same predecessors are not told apart.
Block == Tx \cup {None}

VARIABLES
  mapTxLockReq,         \* "none", "tx", or "empty": a default CTransaction
  mapTxLockReqRejected, \* the transactions in it
  mapTxLockVote,        \* the hashes in it: masternode and transaction
  mapTxLocks,           \* the lock of a transaction, or None
  mapLockedInputs,      \* the transaction an input is locked for, or None
  mapRejectedBlocks,    \* branches taken out of the chain at a block refused
                        \* because of a lock (a block that is refused when it
                        \* arrives is not stored, its entry has no effect)
  mempool,              \* the memory pool
  chain,                \* the last blocks of the active chain, oldest first
  handler               \* the message in progress in the message handler

lockVars == <<mapTxLockReq, mapTxLockReqRejected, mapTxLockVote, mapTxLocks,
              mapLockedInputs>>
vars == <<lockVars, mapRejectedBlocks, mempool, chain, handler>>

----------------------------------------------------------------------------
Idle == [kind |-> "idle"]

Confirmed == {chain[k] : k \in DOMAIN chain} \ {None}

Conflict(t, u) == t # u /\ spends[t] \cap spends[u] # {}

\* An input of t is locked for another transaction (locked is mapLockedInputs).
BlockedBy(locked, t) == \E i \in spends[t] : locked[i] \notin {None, t}

\* CheckBlock, with SPORK_3 active: a transaction of the block spends an output
\* that is locked for another one.
Refused(locked, b) == b # None /\ BlockedBy(locked, b)

\* CountSignatures, with -1 of the code for "no height yet" as 0.  The vote
\* must name the height of the lock.
CountSignatures(l) ==
  IF l.height = 0 THEN 0
  ELSE Cardinality({k \in DOMAIN l.votes : l.votes[k].height = l.height})

Complete(l) == l # None /\ CountSignatures(l) >= Required

\* CConsensusVote::GetHash covers the masternode and the transaction only.
VoteHash(m, t) == <<m, t>>

\* The test at the start of "txlvote".
KnownVoteOfRequest(m, t) ==
  mapTxLockReq[t] # "none" /\ VoteHash(m, t) \in mapTxLockVote
KnownVote(m, t) == VoteHash(m, t) \in mapTxLockVote

\* CreateNewLock: mapTxLocks after it, and the height it returns.  deep tells
\* whether every input of t is at least 5 blocks old.
NewLockRenews(t, deep) ==
  IF ~ deep THEN mapTxLocks
  ELSE [mapTxLocks EXCEPT ![t] =
          IF @ = None
            THEN [height |-> LockHeight[t], votes |-> <<>>, expired |-> FALSE]
            ELSE [@ EXCEPT !.height = LockHeight[t], !.expired = FALSE]]
NewLock(t, deep) ==
  IF ~ deep THEN mapTxLocks
  ELSE [mapTxLocks EXCEPT ![t] =
          IF @ = None
            THEN [height |-> LockHeight[t], votes |-> <<>>, expired |-> FALSE]
            ELSE [@ EXCEPT !.height = LockHeight[t]]]

\* AcceptToMemoryPool: not there yet, fit, unspent, no input locked for another
\* transaction, no conflict in the pool.
AcceptablePoolBlind(t) ==
  /\ t \notin Unfit /\ t \notin mempool \cup Confirmed
  /\ ~ BlockedBy(mapLockedInputs, t)
  /\ \A u \in Confirmed : ~ Conflict(t, u)
Acceptable(t) ==
  /\ t \notin Unfit /\ t \notin mempool \cup Confirmed
  /\ ~ BlockedBy(mapLockedInputs, t)
  /\ \A u \in mempool \cup Confirmed : ~ Conflict(t, u)

\* Locking those inputs ins that are free, for t: the first lock wins.
LockInputsSteal(ins, t) ==
  [i \in Input |-> IF i \in ins THEN t ELSE mapLockedInputs[i]]
LockInputs(ins, t) ==
  [i \in Input |-> IF i \in ins /\ mapLockedInputs[i] = None
                     THEN t ELSE mapLockedInputs[i]]

\* How much of the chain ReprocessBlocks leaves alone: DisconnectBlocks takes
\* off one block more than it is told to.
KeptBlocks == IF Len(chain) > nReprocess THEN Len(chain) - nReprocess - 1 ELSE 0

\* The first n blocks of branch b are still connected or pass CheckBlock.
Passes(b, n, locked) ==
  \A k \in 1..n : \/ k <= KeptBlocks /\ SubSeq(b, 1, k) = SubSeq(chain, 1, k)
                  \/ ~ Refused(locked, b[k])

\* ReprocessBlocks(15).  Branches refused not long ago (recent) are reconsidered
\* when they are no shorter than the chain, the last blocks are disconnected, and
\* ActivateBestChain connects the longest candidate that passes CheckBlock or
\* stops before a block that does not.  DisconnectTip offers the transactions of
\* every block it takes off to the memory pool, those of a branch tried and given
\* up (passing) too.
ReprocessNothing(locked) == UNCHANGED <<chain, mempool, mapRejectedBlocks>>
ReprocessBlocks(locked) ==
  \E recent \in SUBSET mapRejectedBlocks :
    LET candidates == {chain} \cup {b \in recent : Len(b) >= Len(chain)}
        Readmitted(T) == {t \in T \ {None} : t \notin Unfit /\ ~ BlockedBy(locked, t)}
    IN  \E best \in candidates : \E n \in 0..Len(best) :
          LET tried == {b \in candidates : Len(b) > n}
              passed == UNION {{b[k] : k \in {j \in DOMAIN b : Passes(b, j, locked)}} :
                                 b \in tried}
          IN  /\ Passes(best, n, locked)
              /\ n < Len(best) => ~ Passes(best, n + 1, locked)
              /\ \A b \in tried : ~ Passes(b, Len(b), locked)
              /\ chain' = SubSeq(best, 1, n)
              /\ \E passing \in SUBSET Readmitted(passed) :
                   mempool' =
                     {t \in mempool \cup Readmitted(Confirmed) \cup passing :
                        /\ t \notin Confirmed'
                        /\ \A u \in Confirmed' \cup passing : ~ Conflict(t, u)}
              /\ mapRejectedBlocks' = mapRejectedBlocks \cup tried

----------------------------------------------------------------------------
Init ==
  /\ mapTxLockReq = [t \in Tx |-> "none"]
  /\ mapTxLockReqRejected = {}
  /\ mapTxLockVote = {}
  /\ mapTxLocks = [t \in Tx |-> None]
  /\ mapLockedInputs = [i \in Input |-> None]
  /\ mapRejectedBlocks = {}
  /\ mempool = {}
  /\ chain = <<>>
  /\ handler = Idle

\* "ix": a lock request that is new.  The lock is created first.
IxBegin(t, deep) ==
  /\ handler = Idle
  /\ mapTxLockReq[t] = "none" /\ t \notin mapTxLockReqRejected
  /\ mapTxLocks' = NewLock(t, deep)
  /\ handler' = [kind |-> "ix", tx |-> t,
                 height |-> IF deep THEN LockHeight[t] ELSE 0]
  /\ UNCHANGED <<mapTxLockReq, mapTxLockReqRejected, mapTxLockVote,
                 mapLockedInputs, mapRejectedBlocks, mempool, chain>>

\* "ix" accepted to the memory pool: this node's own masternode votes when it
\* is ranked (DoConsensusVote; ranked is false when it does not know itself).
\* Its vote is recorded and relayed, but not added to the lock.
IxAccept(ranked) ==
  LET t == handler.tx
  IN  /\ handler.kind = "ix"
      /\ Acceptable(t)
      /\ ranked => Self # None /\ Self \in TopRanked[handler.height]
      /\ mempool' = mempool \cup {t}
      /\ mapTxLockVote' = IF ranked THEN mapTxLockVote \cup {VoteHash(Self, t)}
                                    ELSE mapTxLockVote
      /\ mapTxLockReq' = [mapTxLockReq EXCEPT ![t] = IF @ = "none" THEN "tx" ELSE @]
      /\ handler' = Idle
      /\ UNCHANGED <<mapTxLockReqRejected, mapTxLocks, mapLockedInputs,
                     mapRejectedBlocks, chain>>

\* CheckForConflictingLocks found that input i of the complete lock of t is
\* locked for another transaction: both locks expire now.
CancelBoth(locks, t, i) ==
  [u \in Tx |-> IF u \in {t, mapLockedInputs[i]} /\ locks[u] # None
                  THEN [locks[u] EXCEPT !.expired = TRUE] ELSE locks[u]]

\* "ix" refused by the memory pool: its inputs are locked all the same.  If
\* the votes are complete already, the last blocks are processed again.
IxReject ==
  LET t == handler.tx
      locked == LockInputs(spends[t], t)
  IN  /\ handler.kind = "ix"
      /\ ~ Acceptable(t)
      /\ mapTxLockReqRejected' = mapTxLockReqRejected \cup {t}
      /\ mapLockedInputs' = locked
      /\ \/ /\ Complete(mapTxLocks[t]) /\ ~ BlockedBy(locked, t)
            /\ ReprocessBlocks(locked)
            /\ mapTxLockReq' = [mapTxLockReq EXCEPT
                                  ![t] = IF @ = "none" THEN "tx" ELSE @]
            /\ UNCHANGED mapTxLocks
         \/ /\ Complete(mapTxLocks[t])
            /\ \E i \in spends[t] : /\ locked[i] # t
                                    /\ mapTxLocks' = CancelBoth(mapTxLocks, t, i)
            /\ UNCHANGED <<mapTxLockReq, mapRejectedBlocks, mempool, chain>>
         \/ /\ ~ Complete(mapTxLocks[t])
            /\ UNCHANGED <<mapTxLockReq, mapTxLocks, mapRejectedBlocks, mempool,
                           chain>>
      /\ handler' = Idle
      /\ UNCHANGED mapTxLockVote

\* "txlvote": a vote is recorded before it is examined.
VoteBegin(t, v) ==
  /\ handler = Idle
  /\ ~ KnownVote(v.mn, t)
  /\ mapTxLockVote' = mapTxLockVote \cup {VoteHash(v.mn, t)}
  /\ handler' = [kind |-> "vote", tx |-> t, vote |-> v]
  /\ UNCHANGED <<mapTxLockReq, mapTxLockReqRejected, mapTxLocks,
                 mapLockedInputs, mapRejectedBlocks, mempool, chain>>

\* The masternode is unknown here, its key is out of date, or it is not among
\* the first for that height: the vote is not counted.
VoteDrop ==
  LET t == handler.tx
  IN  /\ handler.kind = "vote"
      /\ handler' = Idle
      /\ UNCHANGED <<lockVars, mapRejectedBlocks, mempool, chain>>

\* The lock of ProcessConsensusVote, created without a height when there is
\* none, after AddSignature.
AddSignature(t, v) ==
  LET l == mapTxLocks[t]
  IN  IF l = None THEN [height |-> 0, votes |-> <<v>>, expired |-> FALSE]
                  ELSE [l EXCEPT !.votes = Append(@, v)]

\* ProcessConsensusVote.  A complete lock whose request is not in mapTxLockReq
\* gets an empty transaction there: no input is checked or locked for it.
VoteCount ==
  LET t == handler.tx
      v == handler.vote
      locks == [mapTxLocks EXCEPT ![t] = AddSignature(t, v)]
      req == [mapTxLockReq EXCEPT ![t] = IF @ = "none" THEN "empty" ELSE @]
      ins == IF req[t] = "tx" THEN spends[t] ELSE {}
      locked == LockInputs(ins, t)
      conflicts == {i \in ins : mapLockedInputs[i] \notin {None, t}}
  IN  /\ handler.kind = "vote"
      /\ v.mn \in TopRanked[v.height]
      /\ \/ /\ ~ Complete(locks[t])
            /\ mapTxLocks' = locks
            /\ UNCHANGED <<mapTxLockReq, mapLockedInputs, mapRejectedBlocks,
                           mempool, chain>>
         \/ /\ Complete(locks[t])
            /\ mapTxLockReq' = req
            /\ \E i \in conflicts : mapTxLocks' = CancelBoth(locks, t, i)
            /\ UNCHANGED <<mapLockedInputs, mapRejectedBlocks, mempool, chain>>
         \/ /\ Complete(locks[t])
            /\ conflicts = {}
            /\ mapTxLocks' = locks
            /\ mapTxLockReq' = req
            /\ mapLockedInputs' = locked
            /\ IF t \in mapTxLockReqRejected
                 THEN ReprocessBlocks(locked)
                 ELSE UNCHANGED <<mapRejectedBlocks, mempool, chain>>
      /\ handler' = Idle
      /\ UNCHANGED <<mapTxLockReqRejected, mapTxLockVote>>

\* sendrawtransaction or the wallet asks for a lock, before the memory pool
\* sees the transaction (Submit), and whatever it says then.
LocalSend(t, deep) ==
  /\ t \notin Confirmed
  /\ mapTxLockReq' = [mapTxLockReq EXCEPT ![t] = IF @ = "none" THEN "tx" ELSE @]
  /\ mapTxLocks' = NewLock(t, deep)
  /\ UNCHANGED <<mapTxLockReqRejected, mapTxLockVote, mapLockedInputs,
                 mapRejectedBlocks, mempool, chain, handler>>

\* An ordinary transaction, from a peer or from this node.
Submit(t) ==
  /\ Acceptable(t)
  /\ mempool' = mempool \cup {t}
  /\ UNCHANGED <<lockVars, mapRejectedBlocks, chain, handler>>

\* A block arrives on top of the chain.  One that CheckBlock refuses because of
\* a lock is not stored.
AcceptBlock(b) ==
  /\ Len(chain) < MaxBlocks
  /\ ~ Refused(mapLockedInputs, b)
  /\ b \notin Confirmed
  /\ b # None => \A u \in Confirmed : ~ Conflict(b, u)
  /\ chain' = Append(chain, b)
  /\ mempool' = {u \in mempool \ {b} : b # None => ~ Conflict(b, u)}
  /\ UNCHANGED <<lockVars, mapRejectedBlocks, handler>>

\* An hour has passed since the lock was created.
Expire(t) ==
  /\ mapTxLocks[t] # None /\ ~ mapTxLocks[t].expired
  /\ mapTxLocks' = [mapTxLocks EXCEPT ![t].expired = TRUE]
  /\ UNCHANGED <<mapTxLockReq, mapTxLockReqRejected, mapTxLockVote,
                 mapLockedInputs, mapRejectedBlocks, mempool, chain, handler>>

\* CleanTransactionLocksList for one expired lock: everything about its
\* request goes, the inputs of the stored request included, whoever holds
\* them; without a stored request only the lock goes.
CleanLock(t) ==
  LET l == mapTxLocks[t]
      stored == mapTxLockReq[t] # "none"
      ins == IF mapTxLockReq[t] = "tx" THEN spends[t] ELSE {}
  IN  /\ l # None /\ l.expired
      /\ mapLockedInputs' = [i \in Input |->
                               IF i \in ins THEN None ELSE mapLockedInputs[i]]
      /\ mapTxLockReq' = [mapTxLockReq EXCEPT ![t] = "none"]
      /\ mapTxLockReqRejected' =
           IF stored THEN mapTxLockReqRejected \ {t} ELSE mapTxLockReqRejected
      /\ mapTxLockVote' =
           IF stored
             THEN mapTxLockVote \ {VoteHash(l.votes[k].mn, t) : k \in DOMAIN l.votes}
             ELSE mapTxLockVote
      /\ mapTxLocks' = [mapTxLocks EXCEPT ![t] = None]
      /\ UNCHANGED <<mapRejectedBlocks, mempool, chain, handler>>

Handle ==
  \/ \E ranked \in BOOLEAN : IxAccept(ranked)
  \/ IxReject
  \/ VoteDrop
  \/ VoteCount

Next ==
  \/ \E t \in Tx, deep \in BOOLEAN : IxBegin(t, deep) \/ LocalSend(t, deep)
  \/ \E t \in Tx, v \in Vote : VoteBegin(t, v)
  \/ Handle
  \/ \E b \in Block : AcceptBlock(b)
  \/ \E t \in Tx : \/ Submit(t)
                   \/ Expire(t)
                   \/ CleanLock(t)

Spec == Init /\ [][Next]_vars

\* The message handler finishes what it began, time passes, and the clean-up
\* thread runs every minute.
Fairness ==
  /\ WF_vars(Handle)
  /\ \A t \in Tx : WF_vars(Expire(t)) /\ WF_vars(CleanLock(t))

FairSpec == Spec /\ Fairness

----------------------------------------------------------------------------
TypeOK ==
  /\ mapTxLockReq \in [Tx -> {"none", "tx", "empty"}]
  /\ mapTxLockReqRejected \subseteq Tx
  /\ mapTxLockVote \subseteq MN \X Tx
  /\ mapTxLocks \in [Tx -> Lock \cup {None}]
  /\ mapLockedInputs \in [Input -> Tx \cup {None}]
  /\ mapRejectedBlocks \subseteq Seq(Block)
  /\ mempool \subseteq Tx
  /\ chain \in Seq(Block)
  /\ handler \in {Idle} \cup [kind : {"ix"}, tx : Tx, height : Height]
                         \cup [kind : {"vote"}, tx : Tx, vote : Vote]

\* A lock holds at most one vote of a masternode, so that the signatures that
\* CountSignatures counts are those of that many masternodes, although votes
\* are forgotten and come again when locks are cleaned up.
DistinctVoters ==
  \A t \in Tx : mapTxLocks[t] # None =>
    \A j, k \in DOMAIN mapTxLocks[t].votes :
      mapTxLocks[t].votes[j].mn = mapTxLocks[t].votes[k].mn => j = k

\* The inductive form: mapTxLockVote has every vote of a lock, and the vote in
\* progress, which is not in the lock yet.
VotesRecorded ==
  /\ \A t \in Tx : mapTxLocks[t] # None =>
       \A k \in DOMAIN mapTxLocks[t].votes :
         VoteHash(mapTxLocks[t].votes[k].mn, t) \in mapTxLockVote
  /\ handler.kind = "vote" =>
       /\ VoteHash(handler.vote.mn, handler.tx) \in mapTxLockVote
       /\ mapTxLocks[handler.tx] # None =>
            \A k \in DOMAIN mapTxLocks[handler.tx].votes :
              mapTxLocks[handler.tx].votes[k].mn # handler.vote.mn

\* No two transactions of the memory pool and the chain spend the same output,
\* whatever ReprocessBlocks takes out of the chain.
NoDoubleSpend ==
  \A t, u \in mempool \cup Confirmed : ~ Conflict(t, u)

\* The inductive form: nor do two blocks of a branch that ReprocessBlocks may
\* bring back.
BranchesSpendOnce ==
  \A b \in mapRejectedBlocks : \A j, k \in DOMAIN b :
    b[j] # None /\ b[k] # None => ~ Conflict(b[j], b[k])

\* An input stays locked for the transaction that locked it first until the
\* clean-up of an expired lock on that input releases it (mapLockedInputs).
FirstLockWins ==
  [][\A i \in Input :
       mapLockedInputs[i] # None /\ mapLockedInputs'[i] # mapLockedInputs[i] =>
         /\ mapLockedInputs'[i] = None
         /\ \E t \in Tx : /\ i \in spends[t]
                          /\ mapTxLocks[t] # None /\ mapTxLocks[t].expired
                          /\ mapTxLocks'[t] = None]_vars

\* A transaction with an input locked for another one enters neither the
\* memory pool nor the chain.
LocksKeepOut ==
  [][\A t \in (mempool' \cup Confirmed') \ (mempool \cup Confirmed) :
       ~ BlockedBy(mapLockedInputs', t)]_vars

\* "if this tx lock was rejected, we need to remove the conflicting blocks"
\* (swifttx.cpp:388): when the message handler completes the lock of a refused
\* request that holds all its inputs, none of the blocks above those that
\* ReprocessBlocks(nReprocess) leaves alone conflicts with it, on whatever branch
\* the chain is then.  (A conflicting block below them stays.)
RejectedLockClearsChain ==
  [][\A t \in mapTxLockReqRejected' :
       /\ handler # Idle /\ handler' = Idle
       /\ Complete(mapTxLocks'[t])
       /\ t \in mapTxLockReqRejected => ~ Complete(mapTxLocks[t])
       /\ \A i \in spends[t] : mapLockedInputs'[i] = t
       => \A k \in DOMAIN chain' :
            k + nReprocess >= Len(chain) /\ chain'[k] # None => ~ Conflict(t, chain'[k])]_vars

\* Every lock is removed in the end, also one whose request keeps coming back
\* (CreateNewLock does not prolong it).
LocksGetCleaned ==
  \A t \in Tx : mapTxLocks[t] # None ~> mapTxLocks[t] = None

\* What the comments say and the code does not do.

\* "if two conflicting locks are approved by the network, they will cancel out"
\* (swifttx.h:48), also when the memory pool had refused one of the requests:
\* between messages both locks have been made to expire.
ConflictingLocksCancel ==
  \A t \in Tx, u \in mapTxLockReqRejected :
    /\ handler = Idle /\ Conflict(t, u)
    /\ Complete(mapTxLocks[t]) /\ Complete(mapTxLocks[u])
    => mapTxLocks[t].expired /\ mapTxLocks[u].expired

\* "keep transaction locks in memory for an hour" (swifttx.h:59): an input does
\* not stay locked for ever.
InputsGetReleased ==
  \A i \in Input : mapLockedInputs[i] # None ~> mapLockedInputs[i] = None
=============================================================================
