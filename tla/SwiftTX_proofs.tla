--------------------------- MODULE SwiftTX_proofs ---------------------------
(***************************************************************************)
(* Proofs for the transaction locks: any number of transactions, inputs,   *)
(* masternodes and heights, any ranking and any number of required votes.  *)
(***************************************************************************)
EXTENDS SwiftTX, TLAPS

Inv == TypeOK /\ VotesRecorded /\ DistinctVoters /\ NoDoubleSpend /\ BranchesSpendOnce

\* Every lock of new is a lock of old, perhaps changed but with its votes, or
\* a lock without votes.
SameVotes(old, new) ==
  \A t \in Tx : new[t] # None =>
    \/ new[t].votes = <<>>
    \/ old[t] # None /\ new[t].votes = old[t].votes

----------------------------------------------------------------------------
(* Types of the operators. *)

\* While the handler works on a message, it has one.
LEMMA HandlerType ==
  ASSUME TypeOK
  PROVE  /\ handler.kind = "ix" => handler.tx \in Tx /\ handler.height \in Height
         /\ handler.kind = "vote" => handler.tx \in Tx /\ handler.vote \in Vote
         /\ handler = Idle => handler.kind = "idle"
  BY DEF TypeOK, Idle

\* Fields of a lock.
LEMMA LockFields ==
  ASSUME NEW l \in Lock
  PROVE  /\ l # None
         /\ l.height \in Height /\ l.votes \in Seq(Vote) /\ l.expired \in BOOLEAN
  BY NoLockAssumption DEF Lock

\* CreateNewLock yields a map of locks and adds no vote.
LEMMA NewLockType ==
  ASSUME TypeOK, NEW t \in Tx, NEW deep \in BOOLEAN
  PROVE  /\ NewLock(t, deep) \in [Tx -> Lock \cup {None}]
         /\ SameVotes(mapTxLocks, NewLock(t, deep))
<1> DEFINE fresh == [height |-> LockHeight[t], votes |-> <<>>, expired |-> FALSE]
           changed == [mapTxLocks[t] EXCEPT !.height = LockHeight[t]]
<1>1. LockHeight[t] \in Height
  BY SwiftTXAssumption
<1>2. fresh \in Lock /\ fresh.votes = <<>>
  BY <1>1 DEF Lock
<1>3. ASSUME mapTxLocks[t] # None
      PROVE  changed \in Lock /\ changed.votes = mapTxLocks[t].votes
  BY <1>1, <1>3 DEF Lock, TypeOK
<1>4. CASE ~ deep
  BY <1>4 DEF TypeOK, NewLock, SameVotes
<1>5. CASE deep /\ mapTxLocks[t] = None
  <2>1. NewLock(t, deep) = [mapTxLocks EXCEPT ![t] = fresh]
    BY <1>5 DEF NewLock, TypeOK
  <2> HIDE DEF fresh
  <2> QED
    BY <1>2, <2>1 DEF TypeOK, SameVotes
<1>6. CASE deep /\ mapTxLocks[t] # None
  <2>1. NewLock(t, deep) = [mapTxLocks EXCEPT ![t] = changed]
    BY <1>6 DEF NewLock, TypeOK
  <2>2. changed \in Lock /\ changed.votes = mapTxLocks[t].votes
    BY <1>3, <1>6
  <2> HIDE DEF changed
  <2> QED
    BY <1>6, <2>1, <2>2 DEF TypeOK, SameVotes
<1> QED
  BY <1>4, <1>5, <1>6

\* Making two locks expire keeps their votes.
LEMMA CancelBothType ==
  ASSUME NEW locks \in [Tx -> Lock \cup {None}], NEW t \in Tx, NEW i \in Input
  PROVE  /\ CancelBoth(locks, t, i) \in [Tx -> Lock \cup {None}]
         /\ SameVotes(locks, CancelBoth(locks, t, i))
<1>1. ASSUME NEW u \in Tx, locks[u] # None
      PROVE  LET c == [locks[u] EXCEPT !.expired = TRUE]
             IN  c \in Lock /\ c.votes = locks[u].votes
  BY <1>1 DEF Lock
<1> QED
  BY <1>1 DEF CancelBoth, SameVotes

\* Locking inputs for t.
LEMMA LockInputsType ==
  ASSUME TypeOK, NEW t \in Tx, NEW ins
  PROVE  LockInputs(ins, t) \in [Input -> Tx \cup {None}]
  BY DEF TypeOK, LockInputs

\* The lock with one more vote.
LEMMA AddSignatureType ==
  ASSUME TypeOK, NEW t \in Tx, NEW v \in Vote
  PROVE  /\ AddSignature(t, v) \in Lock
         /\ mapTxLocks[t] = None => AddSignature(t, v).votes = <<v>>
         /\ mapTxLocks[t] # None =>
              AddSignature(t, v).votes = Append(mapTxLocks[t].votes, v)
<1>1. CASE mapTxLocks[t] = None
  BY <1>1, SwiftTXAssumption DEF AddSignature, Lock
<1>2. CASE mapTxLocks[t] # None
  <2>1. mapTxLocks[t] \in Lock
    BY <1>2 DEF TypeOK
  <2>2. Append(mapTxLocks[t].votes, v) \in Seq(Vote)
    BY <2>1 DEF Lock
  <2> QED
    BY <1>2, <2>1, <2>2 DEF AddSignature, Lock
<1> QED
  BY <1>1, <1>2

\* What ReprocessBlocks does, by the branch it ends on: blocks come back only when
\* CheckBlock takes them, and transactions only when no lock keeps them out.
LEMMA ReprocessResult ==
  ASSUME TypeOK, NEW locked, ReprocessBlocks(locked)
  PROVE  \E best \in {chain} \cup mapRejectedBlocks, n \in Nat, passing \in SUBSET Tx :
           /\ n <= Len(best) /\ Passes(best, n, locked)
           /\ chain' = SubSeq(best, 1, n)
           /\ \A t \in passing : ~ BlockedBy(locked, t)
           /\ mempool' \subseteq mempool \cup Confirmed \cup passing
           /\ \A t \in mempool' : \A u \in Confirmed' \cup passing : ~ Conflict(t, u)
           /\ mapRejectedBlocks' \subseteq mapRejectedBlocks \cup {chain}
<1> DEFINE Readmitted(T) == {t \in T \ {None} : t \notin Unfit /\ ~ BlockedBy(locked, t)}
           Cands(recent) == {chain} \cup {b \in recent : Len(b) >= Len(chain)}
           Tried(recent, n) == {b \in Cands(recent) : Len(b) > n}
           Passed(recent, n) ==
             UNION {{b[k] : k \in {j \in DOMAIN b : Passes(b, j, locked)}} :
                      b \in Tried(recent, n)}
<1>1. PICK recent \in SUBSET mapRejectedBlocks :
        \E best \in Cands(recent) : \E n \in 0..Len(best) :
          /\ Passes(best, n, locked)
          /\ chain' = SubSeq(best, 1, n)
          /\ \E passing \in SUBSET Readmitted(Passed(recent, n)) :
               mempool' =
                 {t \in mempool \cup Readmitted(Confirmed) \cup passing :
                    /\ t \notin Confirmed'
                    /\ \A u \in Confirmed' \cup passing : ~ Conflict(t, u)}
          /\ mapRejectedBlocks' = mapRejectedBlocks \cup Tried(recent, n)
  BY Zenon DEF ReprocessBlocks
<1>2. PICK best \in Cands(recent) : \E n \in 0..Len(best) :
        /\ Passes(best, n, locked)
        /\ chain' = SubSeq(best, 1, n)
        /\ \E passing \in SUBSET Readmitted(Passed(recent, n)) :
             mempool' =
               {t \in mempool \cup Readmitted(Confirmed) \cup passing :
                  /\ t \notin Confirmed'
                  /\ \A u \in Confirmed' \cup passing : ~ Conflict(t, u)}
        /\ mapRejectedBlocks' = mapRejectedBlocks \cup Tried(recent, n)
  BY <1>1
<1>3. PICK n \in 0..Len(best) :
        /\ Passes(best, n, locked)
        /\ chain' = SubSeq(best, 1, n)
        /\ \E passing \in SUBSET Readmitted(Passed(recent, n)) :
             mempool' =
               {t \in mempool \cup Readmitted(Confirmed) \cup passing :
                  /\ t \notin Confirmed'
                  /\ \A u \in Confirmed' \cup passing : ~ Conflict(t, u)}
        /\ mapRejectedBlocks' = mapRejectedBlocks \cup Tried(recent, n)
  BY <1>2
<1>4. PICK passing \in SUBSET Readmitted(Passed(recent, n)) :
        mempool' = {t \in mempool \cup Readmitted(Confirmed) \cup passing :
                      /\ t \notin Confirmed'
                      /\ \A u \in Confirmed' \cup passing : ~ Conflict(t, u)}
  BY <1>3
<1>5. Cands(recent) \subseteq {chain} \cup mapRejectedBlocks
  OBVIOUS
<1>6. \A b \in Cands(recent) : b \in Seq(Block)
  BY <1>5 DEF TypeOK
<1>7. Passed(recent, n) \subseteq Block
  <2> SUFFICES ASSUME NEW b \in Tried(recent, n), NEW k \in DOMAIN b PROVE b[k] \in Block
    OBVIOUS
  <2> QED
    BY <1>6
<1>8. passing \in SUBSET Tx /\ \A t \in passing : ~ BlockedBy(locked, t)
  BY <1>4, <1>7 DEF Block
<1>9. /\ mempool' \subseteq mempool \cup Confirmed \cup passing
      /\ \A t \in mempool' : \A u \in Confirmed' \cup passing : ~ Conflict(t, u)
  BY <1>4
<1>10. mapRejectedBlocks' \subseteq mapRejectedBlocks \cup {chain}
  BY <1>3, <1>5
<1>11. /\ best \in {chain} \cup mapRejectedBlocks /\ n \in Nat /\ n <= Len(best)
       /\ Passes(best, n, locked) /\ chain' = SubSeq(best, 1, n)
  BY <1>3, <1>5, <1>6
<1> HIDE DEF Readmitted, Cands, Tried, Passed
<1> QED
  BY <1>8, <1>9, <1>10, <1>11

\* Two blocks of the chain do not conflict.
LEMMA ChainSpendsOnce ==
  ASSUME NoDoubleSpend, NEW j \in DOMAIN chain, NEW k \in DOMAIN chain,
         chain[j] # None, chain[k] # None
  PROVE  ~ Conflict(chain[j], chain[k])
BY DEF NoDoubleSpend, Confirmed

\* ReprocessBlocks brings two conflicting transactions nowhere together, and
\* brings back none that a lock keeps out.
LEMMA ReprocessType ==
  ASSUME TypeOK, NoDoubleSpend, BranchesSpendOnce, NEW locked, ReprocessBlocks(locked)
  PROVE  /\ chain' \in Seq(Block) /\ mempool' \subseteq Tx
         /\ mapRejectedBlocks' \subseteq Seq(Block)
         /\ NoDoubleSpend' /\ BranchesSpendOnce'
         /\ \A t \in (mempool' \cup Confirmed') \ (mempool \cup Confirmed) :
              ~ BlockedBy(locked, t)
<1>1. PICK best \in {chain} \cup mapRejectedBlocks, n \in Nat, passing \in SUBSET Tx :
        /\ n <= Len(best) /\ Passes(best, n, locked)
        /\ chain' = SubSeq(best, 1, n)
        /\ \A t \in passing : ~ BlockedBy(locked, t)
        /\ mempool' \subseteq mempool \cup Confirmed \cup passing
        /\ \A t \in mempool' : \A u \in Confirmed' \cup passing : ~ Conflict(t, u)
        /\ mapRejectedBlocks' \subseteq mapRejectedBlocks \cup {chain}
  BY ReprocessResult
<1>2. best \in Seq(Block) /\ chain \in Seq(Block)
  BY DEF TypeOK
<1>3. /\ chain' \in Seq(Block)
      /\ DOMAIN chain' = 1..n /\ 1..n \subseteq DOMAIN best
      /\ \A k \in 1..n : chain'[k] = best[k]
  BY <1>1, <1>2
<1>4. Confirmed \subseteq Tx /\ Confirmed' \subseteq Tx
  BY <1>2, <1>3 DEF Confirmed, Block
<1>5. mempool' \subseteq Tx /\ mapRejectedBlocks' \subseteq Seq(Block)
  BY <1>1, <1>2, <1>4 DEF TypeOK
<1>6. BranchesSpendOnce'
  BY <1>1, ChainSpendsOnce DEF BranchesSpendOnce, Conflict
<1>7. ASSUME NEW t \in Confirmed', NEW u \in Confirmed' PROVE ~ Conflict(t, u)
  <2>1. PICK j \in 1..n, k \in 1..n : t = best[j] /\ u = best[k] /\ t # None /\ u # None
    BY <1>3, <1>7 DEF Confirmed
  <2> QED
    BY <1>3, <2>1, ChainSpendsOnce DEF BranchesSpendOnce
<1>8. NoDoubleSpend'
  <2> SUFFICES ASSUME NEW t \in (mempool \cup Confirmed)',
                      NEW u \in (mempool \cup Confirmed)'
               PROVE  ~ Conflict(t, u)
    BY DEF NoDoubleSpend, Conflict
  <2>1. CASE t \in mempool' /\ u \in Confirmed' \cup passing
    BY <1>1, <2>1
  <2>2. CASE u \in mempool' /\ t \in Confirmed' \cup passing
    BY <1>1, <2>2 DEF Conflict
  <2>3. CASE t \in mempool \cup Confirmed /\ u \in mempool \cup Confirmed
    BY <2>3 DEF NoDoubleSpend
  <2>4. CASE t \in Confirmed' /\ u \in Confirmed'
    BY <1>7, <2>4
  <2> QED
    BY <1>1, <2>1, <2>2, <2>3, <2>4
<1>9. ASSUME NEW t \in (mempool' \cup Confirmed') \ (mempool \cup Confirmed)
      PROVE  ~ BlockedBy(locked, t)
  <2>1. CASE t \in mempool'
    BY <1>1, <1>9, <2>1
  <2>2. CASE t \in Confirmed'
    <3>1. PICK k \in 1..n : t = best[k] /\ t # None
      BY <1>3, <2>2 DEF Confirmed
    <3>2. ~ (k <= KeptBlocks /\ SubSeq(best, 1, k) = SubSeq(chain, 1, k))
      <4> SUFFICES ASSUME k <= KeptBlocks, SubSeq(best, 1, k) = SubSeq(chain, 1, k)
                   PROVE  FALSE
        OBVIOUS
      <4>1. k <= Len(chain)
        BY <1>2, SwiftTXAssumption DEF KeptBlocks
      <4>2. best[k] = chain[k] /\ k \in DOMAIN chain
        <5>1. SubSeq(best, 1, k)[k] = best[k] /\ SubSeq(chain, 1, k)[k] = chain[k]
          BY <1>1, <1>2, <4>1
        <5> QED
          BY <1>2, <4>1, <5>1
      <4> QED
        BY <1>9, <3>1, <4>2 DEF Confirmed
    <3> QED
      BY <1>1, <3>1, <3>2 DEF Passes, Refused
  <2> QED
    BY <1>9, <2>1, <2>2
<1> QED
  BY <1>3, <1>5, <1>6, <1>8, <1>9

----------------------------------------------------------------------------
(* Preservation of the parts of the invariant by steps that do not count a vote. *)

\* A step that adds no vote to a lock keeps the votes distinct and recorded.
LEMMA SameVotesInv ==
  ASSUME Inv, SameVotes(mapTxLocks, mapTxLocks'),
         mapTxLockVote \subseteq mapTxLockVote',
         handler' = handler \/ handler'.kind # "vote"
  PROVE  VotesRecorded' /\ DistinctVoters'
<1>1. DistinctVoters'
  BY DEF Inv, SameVotes, DistinctVoters
<1>2. ASSUME NEW t \in Tx, mapTxLocks'[t] # None,
             NEW k \in DOMAIN mapTxLocks'[t].votes
      PROVE  /\ mapTxLocks[t] # None
             /\ mapTxLocks'[t].votes = mapTxLocks[t].votes
  BY <1>2 DEF SameVotes
<1>3. \A t \in Tx : mapTxLocks'[t] # None =>
        \A k \in DOMAIN mapTxLocks'[t].votes :
          VoteHash(mapTxLocks'[t].votes[k].mn, t) \in mapTxLockVote'
  BY <1>2 DEF Inv, VotesRecorded
<1>4. ASSUME handler'.kind = "vote"
      PROVE  /\ VoteHash(handler'.vote.mn, handler'.tx) \in mapTxLockVote'
             /\ mapTxLocks'[handler'.tx] # None =>
                  \A k \in DOMAIN mapTxLocks'[handler'.tx].votes :
                    mapTxLocks'[handler'.tx].votes[k].mn # handler'.vote.mn
  BY <1>2, <1>4, HandlerType DEF Inv, VotesRecorded
<1>5. VotesRecorded'
  BY <1>3, <1>4 DEF VotesRecorded, VoteHash
<1> QED
  BY <1>1, <1>5

\* Nothing new in the memory pool and the chain: no new double spend.
LEMMA NoNewSpend ==
  ASSUME NoDoubleSpend, BranchesSpendOnce, UNCHANGED mapRejectedBlocks,
         mempool' \cup Confirmed' \subseteq mempool \cup Confirmed
  PROVE  NoDoubleSpend' /\ BranchesSpendOnce'
  BY DEF NoDoubleSpend, BranchesSpendOnce, Conflict

\* An acceptable transaction joins the memory pool.
LEMMA AcceptedSpend ==
  ASSUME NoDoubleSpend, BranchesSpendOnce, UNCHANGED mapRejectedBlocks,
         NEW t \in Tx, Acceptable(t),
         mempool' = mempool \cup {t}, chain' = chain
  PROVE  NoDoubleSpend' /\ BranchesSpendOnce'
  BY DEF NoDoubleSpend, BranchesSpendOnce, Acceptable, Conflict, Confirmed

----------------------------------------------------------------------------
\* The empty maps of a node that starts satisfy the invariant.
LEMMA InitInv == Init => Inv
  BY SwiftTXAssumption
     DEF Init, Inv, TypeOK, VotesRecorded, DistinctVoters, NoDoubleSpend, Idle,
         BranchesSpendOnce, Confirmed

\* A lock request begins.
LEMMA IxBeginInv ==
  ASSUME Inv, NEW t \in Tx, NEW deep \in BOOLEAN, IxBegin(t, deep)
  PROVE  Inv'
<1>1. /\ mapTxLocks' \in [Tx -> Lock \cup {None}]
      /\ SameVotes(mapTxLocks, mapTxLocks')
  BY NewLockType DEF Inv, IxBegin
<1>2. handler' \in [kind : {"ix"}, tx : Tx, height : Height]
  BY SwiftTXAssumption DEF IxBegin
<1>3. TypeOK'
  BY <1>1, <1>2 DEF Inv, TypeOK, IxBegin
<1>4. VotesRecorded' /\ DistinctVoters'
  BY <1>1, <1>2, SameVotesInv DEF IxBegin
<1>5. NoDoubleSpend' /\ BranchesSpendOnce'
  BY NoNewSpend DEF Inv, IxBegin, Confirmed
<1> QED
  BY <1>3, <1>4, <1>5 DEF Inv

\* A lock request is accepted, and this node may vote.
LEMMA IxAcceptInv ==
  ASSUME Inv, NEW ranked \in BOOLEAN, IxAccept(ranked)
  PROVE  Inv'
<1>1. handler.tx \in Tx /\ handler.height \in Height
  BY HandlerType DEF Inv, IxAccept
<1>2. mapTxLockVote' \subseteq MN \X Tx /\ mapTxLockVote \subseteq mapTxLockVote'
  BY <1>1, SwiftTXAssumption DEF Inv, TypeOK, IxAccept, VoteHash
<1>3. TypeOK'
  BY <1>1, <1>2 DEF Inv, TypeOK, IxAccept
<1>4. SameVotes(mapTxLocks, mapTxLocks')
  BY DEF SameVotes, IxAccept
<1>5. VotesRecorded' /\ DistinctVoters'
  BY <1>2, <1>4, SameVotesInv DEF IxAccept, Idle
<1>6. NoDoubleSpend' /\ BranchesSpendOnce'
  BY <1>1, AcceptedSpend DEF Inv, IxAccept
<1> QED
  BY <1>3, <1>5, <1>6 DEF Inv

\* A lock request is refused.
LEMMA IxRejectInv ==
  ASSUME Inv, IxReject
  PROVE  Inv'
<1> DEFINE t == handler.tx
           locked == LockInputs(spends[t], t)
<1>1. t \in Tx
  BY HandlerType DEF Inv, IxReject
<1>2. spends[t] \subseteq Input
  BY <1>1, SwiftTXAssumption
<1>3. /\ mapTxLocks' \in [Tx -> Lock \cup {None}]
      /\ SameVotes(mapTxLocks, mapTxLocks')
  <2>1. CASE UNCHANGED mapTxLocks
    BY <2>1 DEF Inv, TypeOK, SameVotes
  <2>2. CASE \E i \in spends[t] : mapTxLocks' = CancelBoth(mapTxLocks, t, i)
    BY <1>1, <1>2, <2>2, CancelBothType DEF Inv, TypeOK
  <2> QED
    BY <2>1, <2>2 DEF IxReject
<1>4. /\ chain' \in Seq(Block) /\ mempool' \subseteq Tx
      /\ mapRejectedBlocks' \subseteq Seq(Block)
      /\ NoDoubleSpend' /\ BranchesSpendOnce'
  <2>1. CASE UNCHANGED <<mapRejectedBlocks, mempool, chain>>
    BY <2>1, NoNewSpend DEF Inv, TypeOK, Confirmed
  <2>2. CASE ReprocessBlocks(locked)
    BY <2>2, ReprocessType DEF Inv
  <2> QED
    BY <2>1, <2>2 DEF IxReject
<1>5. mapTxLockReq' \in [Tx -> {"none", "tx", "empty"}]
  BY <1>1 DEF Inv, TypeOK, IxReject
<1>6. mapLockedInputs' \in [Input -> Tx \cup {None}]
  BY <1>1, LockInputsType DEF Inv, IxReject
<1>7. /\ mapTxLockReqRejected' \subseteq Tx
      /\ mapTxLockVote' = mapTxLockVote
      /\ handler' = Idle
  BY <1>1 DEF Inv, TypeOK, IxReject
<1>8. TypeOK'
  BY <1>3, <1>4, <1>5, <1>6, <1>7 DEF Inv, TypeOK
<1>9. VotesRecorded' /\ DistinctVoters'
  BY <1>3, <1>7, SameVotesInv DEF Idle
<1> QED
  BY <1>4, <1>8, <1>9 DEF Inv

\* A vote is recorded: it is new, so no lock has a vote of that masternode.
LEMMA VoteBeginInv ==
  ASSUME Inv, NEW t \in Tx, NEW v \in Vote, VoteBegin(t, v)
  PROVE  Inv'
<1>1. v.mn \in MN
  BY DEF Vote
<1>2. /\ VoteHash(v.mn, t) \notin mapTxLockVote
      /\ mapTxLockVote' = mapTxLockVote \cup {VoteHash(v.mn, t)}
      /\ handler' = [kind |-> "vote", tx |-> t, vote |-> v]
      /\ UNCHANGED <<mapTxLockReq, mapTxLockReqRejected, mapTxLocks,
                     mapLockedInputs, mapRejectedBlocks, mempool, chain>>
  BY DEF VoteBegin, KnownVote
<1>3. TypeOK'
  BY <1>1, <1>2 DEF Inv, TypeOK, VoteHash
<1>4. DistinctVoters'
  BY <1>2 DEF Inv, DistinctVoters
<1>5. VotesRecorded'
  BY <1>2 DEF Inv, VotesRecorded, VoteHash
<1>6. NoDoubleSpend' /\ BranchesSpendOnce'
  BY <1>2, NoNewSpend DEF Inv, Confirmed
<1> QED
  BY <1>3, <1>4, <1>5, <1>6 DEF Inv

\* The vote in progress is added to its lock.
LEMMA VoteCountInv ==
  ASSUME Inv, VoteCount
  PROVE  Inv'
<1> DEFINE t == handler.tx
           v == handler.vote
           locks == [mapTxLocks EXCEPT ![t] = AddSignature(t, v)]
<1>1. t \in Tx /\ v \in Vote
  BY HandlerType DEF Inv, VoteCount
<1>2. /\ AddSignature(t, v) \in Lock
      /\ mapTxLocks[t] = None => AddSignature(t, v).votes = <<v>>
      /\ mapTxLocks[t] # None =>
           AddSignature(t, v).votes = Append(mapTxLocks[t].votes, v)
  BY <1>1, AddSignatureType DEF Inv
<1>3. locks \in [Tx -> Lock \cup {None}]
  BY <1>1, <1>2 DEF Inv, TypeOK
<1>4. spends[t] \subseteq Input
  BY <1>1, SwiftTXAssumption
<1>5. /\ mapTxLocks' \in [Tx -> Lock \cup {None}]
      /\ SameVotes(locks, mapTxLocks')
  <2>1. CASE mapTxLocks' = locks
    BY <1>3, <2>1 DEF SameVotes
  <2>2. ASSUME NEW i \in Input, mapTxLocks' = CancelBoth(locks, t, i)
        PROVE  /\ mapTxLocks' \in [Tx -> Lock \cup {None}]
               /\ SameVotes(locks, mapTxLocks')
    <3> HIDE DEF locks, t
    <3> QED
      BY <1>1, <1>3, <2>2, CancelBothType
  <2> QED
    BY <1>4, <2>1, <2>2 DEF VoteCount
<1>6. /\ chain' \in Seq(Block) /\ mempool' \subseteq Tx
      /\ mapRejectedBlocks' \subseteq Seq(Block)
      /\ NoDoubleSpend' /\ BranchesSpendOnce'
  <2>1. CASE UNCHANGED <<mapRejectedBlocks, mempool, chain>>
    BY <2>1, NoNewSpend DEF Inv, TypeOK, Confirmed
  <2>2. CASE \E ins : ReprocessBlocks(LockInputs(ins, t))
    BY <2>2, ReprocessType DEF Inv
  <2>3. \/ UNCHANGED <<mapRejectedBlocks, mempool, chain>>
        \/ \E ins : ReprocessBlocks(LockInputs(ins, t))
    BY Zenon DEF VoteCount
  <2> QED
    BY <2>1, <2>2, <2>3
<1>7. mapTxLockReq' \in [Tx -> {"none", "tx", "empty"}]
  BY <1>1 DEF Inv, TypeOK, VoteCount
<1>8. mapLockedInputs' \in [Input -> Tx \cup {None}]
  <2>1. CASE UNCHANGED mapLockedInputs
    BY <2>1 DEF Inv, TypeOK
  <2>2. CASE \E ins : mapLockedInputs' = LockInputs(ins, t)
    BY <1>1, <2>2, LockInputsType DEF Inv
  <2> QED
    BY <2>1, <2>2 DEF VoteCount
<1>9. /\ UNCHANGED <<mapTxLockReqRejected, mapTxLockVote>>
      /\ handler' = Idle
      /\ handler.kind = "vote"
  BY DEF VoteCount
<1>10. TypeOK'
  BY <1>5, <1>6, <1>7, <1>8, <1>9 DEF Inv, TypeOK
<1>11. /\ VoteHash(v.mn, t) \in mapTxLockVote
       /\ mapTxLocks[t] # None =>
            \A k \in DOMAIN mapTxLocks[t].votes : mapTxLocks[t].votes[k].mn # v.mn
  BY <1>9 DEF Inv, VotesRecorded
<1>12. ASSUME NEW u \in Tx, locks[u] # None
       PROVE  /\ \A k \in DOMAIN locks[u].votes :
                   VoteHash(locks[u].votes[k].mn, u) \in mapTxLockVote
              /\ \A j, k \in DOMAIN locks[u].votes :
                   locks[u].votes[j].mn = locks[u].votes[k].mn => j = k
  <2>1. CASE u # t
    BY <1>1, <1>12, <2>1 DEF Inv, TypeOK, VotesRecorded, DistinctVoters
  <2>2. CASE u = t /\ mapTxLocks[t] = None
    <3>1. locks[u].votes = <<v>>
      BY <1>1, <1>2, <2>2 DEF Inv, TypeOK
    <3> QED
      BY <1>11, <2>2, <3>1
  <2>3. CASE u = t /\ mapTxLocks[t] # None
    <3> DEFINE s == mapTxLocks[t].votes
    <3>1. mapTxLocks[t] \in Lock
      BY <1>1, <2>3 DEF Inv, TypeOK
    <3>2. s \in Seq(Vote)
      BY <3>1, LockFields
    <3>3. locks[u].votes = Append(s, v)
      BY <1>1, <1>2, <2>3 DEF Inv, TypeOK
    <3>4. /\ \A k \in DOMAIN s : VoteHash(s[k].mn, t) \in mapTxLockVote
          /\ \A k \in DOMAIN s : s[k].mn # v.mn
          /\ \A j, k \in DOMAIN s : s[j].mn = s[k].mn => j = k
      BY <1>1, <1>11, <2>3 DEF Inv, VotesRecorded, DistinctVoters
    <3> HIDE DEF s
    <3> QED
      BY <1>1, <1>11, <2>3, <3>2, <3>3, <3>4
  <2> QED
    BY <2>1, <2>2, <2>3
<1> HIDE DEF locks
<1>13. DistinctVoters'
  BY <1>5, <1>12 DEF SameVotes, DistinctVoters
<1>14. VotesRecorded'
  <2>1. ASSUME NEW u \in Tx, mapTxLocks'[u] # None,
               NEW k \in DOMAIN mapTxLocks'[u].votes
        PROVE  VoteHash(mapTxLocks'[u].votes[k].mn, u) \in mapTxLockVote'
    BY <1>5, <1>9, <1>12, <2>1 DEF SameVotes
  <2> QED
    BY <1>9, <2>1 DEF VotesRecorded, Idle, VoteHash
<1> QED
  BY <1>6, <1>10, <1>13, <1>14 DEF Inv

\* An expired lock is cleaned up.  The vote in progress is not in that lock,
\* so it stays recorded.
LEMMA CleanLockInv ==
  ASSUME Inv, NEW t \in Tx, CleanLock(t)
  PROVE  Inv'
<1> DEFINE l == mapTxLocks[t]
<1>1. /\ l \in Lock
      /\ mapTxLocks' = [mapTxLocks EXCEPT ![t] = None]
      /\ UNCHANGED <<mapRejectedBlocks, mempool, chain, handler>>
  BY DEF Inv, TypeOK, CleanLock
<1>2. /\ mapTxLockVote' \subseteq mapTxLockVote
      /\ \A m \in MN, u \in Tx :
           /\ VoteHash(m, u) \in mapTxLockVote
           /\ u # t \/ \A k \in DOMAIN l.votes : l.votes[k].mn # m
           => VoteHash(m, u) \in mapTxLockVote'
  BY DEF CleanLock, VoteHash
<1>3. TypeOK'
  BY <1>1, <1>2 DEF Inv, TypeOK, CleanLock
<1>4. DistinctVoters'
  BY <1>1 DEF Inv, TypeOK, DistinctVoters
<1>5. ASSUME NEW u \in Tx, mapTxLocks'[u] # None,
             NEW k \in DOMAIN mapTxLocks'[u].votes
      PROVE  VoteHash(mapTxLocks'[u].votes[k].mn, u) \in mapTxLockVote'
  <2>1. u # t /\ mapTxLocks'[u] = mapTxLocks[u]
    BY <1>1, <1>5 DEF Inv, TypeOK
  <2>2. mapTxLocks[u] \in Lock
    BY <1>5, <2>1 DEF Inv, TypeOK
  <2>3. mapTxLocks[u].votes \in Seq(Vote)
    BY <2>2, LockFields
  <2>4. mapTxLocks[u].votes[k].mn \in MN
    <3>1. mapTxLocks[u].votes[k] \in Vote
      BY <1>5, <2>1, <2>3
    <3> QED
      BY <3>1 DEF Vote
  <2>5. VoteHash(mapTxLocks[u].votes[k].mn, u) \in mapTxLockVote
    BY <1>5, <2>1 DEF Inv, VotesRecorded
  <2> QED
    BY <1>2, <2>1, <2>4, <2>5
<1>6. ASSUME handler.kind = "vote"
      PROVE  /\ VoteHash(handler.vote.mn, handler.tx) \in mapTxLockVote'
             /\ mapTxLocks'[handler.tx] # None =>
                  \A k \in DOMAIN mapTxLocks'[handler.tx].votes :
                    mapTxLocks'[handler.tx].votes[k].mn # handler.vote.mn
  <2>1. handler.tx \in Tx /\ handler.vote.mn \in MN
    BY <1>6, HandlerType DEF Inv, Vote
  <2>2. VoteHash(handler.vote.mn, handler.tx) \in mapTxLockVote'
    BY <1>1, <1>2, <1>6, <2>1, LockFields DEF Inv, VotesRecorded
  <2> QED
    BY <1>1, <1>6, <2>1, <2>2 DEF Inv, TypeOK, VotesRecorded
<1>7. VotesRecorded'
  BY <1>1, <1>5, <1>6 DEF VotesRecorded, VoteHash
<1>8. NoDoubleSpend' /\ BranchesSpendOnce'
  BY <1>1, NoNewSpend DEF Inv, Confirmed
<1> QED
  BY <1>3, <1>4, <1>7, <1>8 DEF Inv

\* The steps of the other threads that leave the votes alone.
LEMMA OtherInv ==
  ASSUME Inv, NEW t \in Tx,
         \/ \E deep \in BOOLEAN : LocalSend(t, deep)
         \/ VoteDrop
         \/ Submit(t)
         \/ Expire(t)
  PROVE  Inv'
<1>1. ASSUME NEW deep \in BOOLEAN, LocalSend(t, deep) PROVE Inv'
  <2>1. /\ mapTxLocks' \in [Tx -> Lock \cup {None}]
        /\ SameVotes(mapTxLocks, mapTxLocks')
    BY <1>1, NewLockType DEF Inv, LocalSend
  <2>2. TypeOK'
    BY <1>1, <2>1 DEF Inv, TypeOK, LocalSend
  <2> QED
    BY <1>1, <2>1, <2>2, SameVotesInv, NoNewSpend DEF Inv, LocalSend, Confirmed
<1>2. ASSUME UNCHANGED lockVars, handler' = handler \/ handler' = Idle
      PROVE  VotesRecorded' /\ DistinctVoters'
  <2>1. SameVotes(mapTxLocks, mapTxLocks')
    BY <1>2 DEF SameVotes, lockVars
  <2> QED
    BY <1>2, <2>1, SameVotesInv DEF lockVars, Idle
<1>3. CASE VoteDrop
  BY <1>2, <1>3, NoNewSpend DEF Inv, TypeOK, VoteDrop, Confirmed, lockVars
<1>4. CASE Submit(t)
  BY <1>2, <1>4, AcceptedSpend DEF Inv, TypeOK, Submit, lockVars
<1>7. CASE Expire(t)
  <2>1. mapTxLocks[t] \in Lock
    BY <1>7 DEF Inv, TypeOK, Expire
  <2>2. LET c == [mapTxLocks[t] EXCEPT !.expired = TRUE]
        IN  c \in Lock /\ c.votes = mapTxLocks[t].votes
    BY <2>1 DEF Lock
  <2>3. mapTxLocks' =
          [mapTxLocks EXCEPT ![t] = [mapTxLocks[t] EXCEPT !.expired = TRUE]]
    BY <1>7 DEF Expire, Inv, TypeOK
  <2>4. /\ mapTxLocks' \in [Tx -> Lock \cup {None}]
        /\ SameVotes(mapTxLocks, mapTxLocks')
    BY <1>7, <2>2, <2>3 DEF Inv, TypeOK, SameVotes, Expire
  <2>5. TypeOK'
    BY <1>7, <2>4 DEF Inv, TypeOK, Expire
  <2> QED
    BY <1>7, <2>4, <2>5, SameVotesInv, NoNewSpend DEF Inv, Expire, Confirmed
<1> QED
  BY <1>1, <1>3, <1>4, <1>7

\* A block is connected that conflicts with nothing in the chain.
LEMMA AcceptBlockInv ==
  ASSUME Inv, NEW b \in Block, AcceptBlock(b)
  PROVE  Inv'
<1>1. chain \in Seq(Block) /\ chain' = Append(chain, b)
  BY DEF Inv, TypeOK, AcceptBlock
<1>2. chain' \in Seq(Block) /\ Confirmed' = Confirmed \cup ({b} \ {None})
  BY <1>1 DEF Confirmed
<1>3. TypeOK'
  BY <1>2 DEF Inv, TypeOK, AcceptBlock, lockVars
<1>4. NoDoubleSpend' /\ BranchesSpendOnce'
  BY <1>2 DEF Inv, NoDoubleSpend, BranchesSpendOnce, AcceptBlock, Conflict
<1>5. SameVotes(mapTxLocks, mapTxLocks')
  BY DEF SameVotes, AcceptBlock, lockVars
<1>6. VotesRecorded' /\ DistinctVoters'
  BY <1>5, SameVotesInv DEF AcceptBlock, lockVars
<1> QED
  BY <1>3, <1>4, <1>6 DEF Inv

\* Every step preserves the invariant.
LEMMA StepInv == Inv /\ [Next]_vars => Inv'
<1> SUFFICES ASSUME Inv, [Next]_vars PROVE Inv'
  OBVIOUS
<1>1. CASE UNCHANGED vars
  BY <1>1 DEF Inv, TypeOK, VotesRecorded, DistinctVoters, NoDoubleSpend,
              BranchesSpendOnce, Confirmed, vars, lockVars
<1>2. CASE VoteDrop
  <2>1. handler.tx \in Tx
    BY <1>2, HandlerType DEF Inv, VoteDrop
  <2> QED
    BY <1>2, <2>1, OtherInv
<1>3. CASE Next
  BY <1>2, <1>3, IxBeginInv, IxAcceptInv, IxRejectInv, VoteBeginInv,
     VoteCountInv, CleanLockInv, AcceptBlockInv, OtherInv DEF Next, Handle
<1> QED
  BY <1>1, <1>3

----------------------------------------------------------------------------
\* The maps of swifttx.cpp keep their types.
THEOREM TypeCorrect == Spec => []TypeOK
<1>1. Inv => TypeOK
  BY DEF Inv
<1> QED
  BY InitInv, StepInv, <1>1, PTL DEF Spec

\* A lock never counts a masternode twice, whatever is cleaned up between the
\* two halves of a handler.
THEOREM VotersAreDistinct == Spec => []DistinctVoters
<1>1. Inv => DistinctVoters
  BY DEF Inv
<1> QED
  BY InitInv, StepInv, <1>1, PTL DEF Spec

\* Locks, refused requests and ReprocessBlocks never leave two conflicting
\* transactions in the memory pool and the chain.
THEOREM NeverDoubleSpent == Spec => []NoDoubleSpend
<1>1. Inv => NoDoubleSpend
  BY DEF Inv
<1> QED
  BY InitInv, StepInv, <1>1, PTL DEF Spec
----------------------------------------------------------------------------

\* An input that is locked stays locked for the same transaction until an
\* expired lock on it is cleaned up.
THEOREM FirstLockKeepsInput == Spec => FirstLockWins
<1> DEFINE Step ==
      \A i \in Input :
        mapLockedInputs[i] # None /\ mapLockedInputs'[i] # mapLockedInputs[i] =>
          /\ mapLockedInputs'[i] = None
          /\ \E t \in Tx : /\ i \in spends[t]
                           /\ mapTxLocks[t] # None /\ mapTxLocks[t].expired
                           /\ mapTxLocks'[t] = None
<1>1. ASSUME Inv, Next PROVE Step
  <2>1. ASSUME NEW t \in Tx, NEW ins, mapLockedInputs' = LockInputs(ins, t)
        PROVE  Step
    BY <2>1 DEF LockInputs
  <2>2. ASSUME NEW t \in Tx, CleanLock(t) PROVE Step
    BY <1>1, <2>2 DEF Inv, TypeOK, CleanLock
  <2>3. CASE IxReject
    BY <1>1, <2>1, <2>3, HandlerType DEF Inv, IxReject
  <2>4. CASE VoteCount
    <3>1. handler.tx \in Tx
      BY <1>1, <2>4, HandlerType DEF Inv, VoteCount
    <3>2. \/ UNCHANGED mapLockedInputs
          \/ \E ins : mapLockedInputs' = LockInputs(ins, handler.tx)
      BY <2>4, Zenon DEF VoteCount
    <3> QED
      BY <2>1, <3>1, <3>2
  <2>5. CASE UNCHANGED mapLockedInputs
    BY <2>5
  <2> QED
    BY <1>1, <2>2, <2>3, <2>4, <2>5
       DEF Next, Handle, IxBegin, IxAccept, VoteBegin, VoteDrop, LocalSend,
           Submit, AcceptBlock, Expire, lockVars
<1>2. Inv /\ [Next]_vars => [Step]_vars
  BY <1>1
<1> QED
  BY InitInv, StepInv, <1>2, PTL DEF Spec, FirstLockWins

\* What enters the memory pool or the chain has no input that is locked for
\* another transaction.
THEOREM LocksKeepConflictsOut == Spec => LocksKeepOut
<1> DEFINE Step ==
      \A t \in (mempool' \cup Confirmed') \ (mempool \cup Confirmed) :
        ~ BlockedBy(mapLockedInputs', t)
<1>1. ASSUME Inv, Next PROVE Step
  <2>1. CASE mempool' \cup Confirmed' \subseteq mempool \cup Confirmed
    BY <2>1
  <2>2. ASSUME NEW t \in Tx,
               ~ BlockedBy(mapLockedInputs, t), mapLockedInputs' = mapLockedInputs,
               mempool' \cup Confirmed' \subseteq mempool \cup Confirmed \cup {t}
        PROVE  Step
    BY <2>2
  <2>3. CASE IxReject
    <3>1. \/ UNCHANGED <<mempool, chain>>
          \/ ReprocessBlocks(mapLockedInputs')
      BY <2>3, Zenon DEF IxReject
    <3>2. CASE UNCHANGED <<mempool, chain>>
      BY <2>1, <3>2 DEF Confirmed
    <3>3. CASE ReprocessBlocks(mapLockedInputs')
      <4>1. TypeOK /\ NoDoubleSpend /\ BranchesSpendOnce
        BY <1>1 DEF Inv
      <4> QED
        BY <3>3, <4>1, ReprocessType
    <3> QED
      BY <3>1, <3>2, <3>3
  <2>4. CASE VoteCount
    <3>1. \/ UNCHANGED <<mempool, chain>>
          \/ ReprocessBlocks(mapLockedInputs')
      BY <2>4, Zenon DEF VoteCount
    <3>2. CASE UNCHANGED <<mempool, chain>>
      BY <2>1, <3>2 DEF Confirmed
    <3>3. CASE ReprocessBlocks(mapLockedInputs')
      <4>1. TypeOK /\ NoDoubleSpend /\ BranchesSpendOnce
        BY <1>1 DEF Inv
      <4> QED
        BY <3>3, <4>1, ReprocessType
    <3> QED
      BY <3>1, <3>2, <3>3
  <2>5. ASSUME NEW ranked \in BOOLEAN, IxAccept(ranked) PROVE Step
    <3>1. handler.tx \in Tx
      BY <1>1, <2>5, HandlerType DEF Inv, IxAccept
    <3>2. ~ BlockedBy(mapLockedInputs, handler.tx)
      BY <2>5 DEF IxAccept, Acceptable
    <3>3. /\ mapLockedInputs' = mapLockedInputs /\ chain' = chain
          /\ mempool' = mempool \cup {handler.tx}
      BY <2>5 DEF IxAccept
    <3> QED
      BY <2>2, <3>1, <3>2, <3>3 DEF Confirmed
  <2>6. ASSUME NEW t \in Tx, Submit(t) PROVE Step
    BY <2>2, <2>6 DEF Submit, Acceptable, Confirmed, lockVars
  <2>7. ASSUME NEW b \in Block, AcceptBlock(b) PROVE Step
    <3>1. chain \in Seq(Block) /\ chain' = Append(chain, b)
      BY <1>1, <2>7 DEF Inv, TypeOK, AcceptBlock
    <3>2. Confirmed' = Confirmed \cup ({b} \ {None})
      BY <3>1 DEF Confirmed
    <3>3. /\ mapLockedInputs' = mapLockedInputs /\ mempool' \subseteq mempool
          /\ b # None => ~ BlockedBy(mapLockedInputs, b)
      BY <2>7 DEF AcceptBlock, Refused, lockVars
    <3> QED
      BY <3>2, <3>3
  <2>8. CASE UNCHANGED <<mempool, chain>>
    BY <2>1, <2>8 DEF Confirmed
  <2> QED
    BY <1>1, <2>3, <2>4, <2>5, <2>6, <2>7, <2>8
       DEF Next, Handle, IxBegin, VoteBegin, VoteDrop, LocalSend, Expire, CleanLock
<1>2. Inv /\ [Next]_vars => [Step]_vars
  BY <1>1
<1> QED
  BY InitInv, StepInv, <1>2, PTL DEF Spec, LocksKeepOut
----------------------------------------------------------------------------
\* Two locks with the same height and votes are complete together.
LEMMA CompleteSame ==
  ASSUME NEW l \in Lock, NEW k \in Lock, l.height = k.height, l.votes = k.votes
  PROVE  Complete(l) <=> Complete(k)
<1>1. CountSignatures(l) = CountSignatures(k)
  BY DEF CountSignatures
<1> QED
  BY <1>1, LockFields DEF Complete

\* Expiring locks completes none.
LEMMA CancelBothComplete ==
  ASSUME NEW locks \in [Tx -> Lock \cup {None}], NEW t \in Tx, NEW i \in Input,
         NEW u \in Tx, Complete(CancelBoth(locks, t, i)[u])
  PROVE  Complete(locks[u])
<1> DEFINE l == locks[u]
           c == [l EXCEPT !.expired = TRUE]
<1>1. l \in Lock \cup {None}
  OBVIOUS
<1>2. CancelBoth(locks, t, i)[u] = l \/ (l # None /\ CancelBoth(locks, t, i)[u] = c)
  BY DEF CancelBoth
<1>3. CASE CancelBoth(locks, t, i)[u] = l
  BY <1>3
<1>4. CASE l # None /\ CancelBoth(locks, t, i)[u] = c
  <2>1. l \in Lock /\ c \in Lock /\ c.height = l.height /\ c.votes = l.votes
    BY <1>1, <1>4 DEF Lock
  <2> HIDE DEF l, c
  <2>2. Complete(c)
    BY <1>4
  <2>3. Complete(l)
    BY <2>1, <2>2, CompleteSame
  <2> QED
    BY <2>3 DEF l
<1> QED
  BY <1>2, <1>3, <1>4

\* What ReprocessBlocks connects above the blocks it leaves alone spends nothing
\* that is locked for another transaction.
LEMMA ReprocessClears ==
  ASSUME TypeOK, NEW locked, ReprocessBlocks(locked), NEW t \in Tx,
         \A i \in spends[t] : locked[i] = t
  PROVE  \A k \in DOMAIN chain' :
           k + nReprocess >= Len(chain) /\ chain'[k] # None => ~ Conflict(t, chain'[k])
<1>1. PICK best \in {chain} \cup mapRejectedBlocks, n \in Nat :
        /\ n <= Len(best) /\ Passes(best, n, locked)
        /\ chain' = SubSeq(best, 1, n)
  BY ReprocessResult
<1>2. best \in Seq(Block) /\ chain \in Seq(Block)
  BY DEF TypeOK
<1>3. /\ DOMAIN chain' = 1..n /\ 1..n \subseteq DOMAIN best
      /\ \A k \in 1..n : chain'[k] = best[k]
  BY <1>1, <1>2
<1> SUFFICES ASSUME NEW k \in 1..n, k + nReprocess >= Len(chain), best[k] # None
             PROVE  ~ Conflict(t, best[k])
  BY <1>3
<1>4. ~ (k <= KeptBlocks)
  BY <1>2, SwiftTXAssumption DEF KeptBlocks
<1>5. ~ BlockedBy(locked, best[k])
  BY <1>1, <1>4 DEF Passes, Refused
<1>6. t # None
  BY SwiftTXAssumption
<1> QED
  BY <1>5, <1>6 DEF BlockedBy, Conflict

\* When the message handler completes the lock of a refused request that holds
\* all its inputs, by the last vote or by the request after its votes,
\* ReprocessBlocks has left no conflicting transaction in the chain above the
\* blocks it leaves alone, also when it brings a refused branch back.
THEOREM RejectedLockWins == Spec => RejectedLockClearsChain
<1> DEFINE Step ==
      \A t \in mapTxLockReqRejected' :
        /\ handler # Idle /\ handler' = Idle
        /\ Complete(mapTxLocks'[t])
        /\ t \in mapTxLockReqRejected => ~ Complete(mapTxLocks[t])
        /\ \A i \in spends[t] : mapLockedInputs'[i] = t
        => \A k \in DOMAIN chain' :
             k + nReprocess >= Len(chain) /\ chain'[k] # None => ~ Conflict(t, chain'[k])
<1>1. ASSUME Inv, Next PROVE Step
  <2> SUFFICES ASSUME NEW t \in mapTxLockReqRejected',
                      handler # Idle, handler' = Idle,
                      Complete(mapTxLocks'[t]),
                      t \in mapTxLockReqRejected => ~ Complete(mapTxLocks[t]),
                      \A i \in spends[t] : mapLockedInputs'[i] = t
               PROVE  \A k \in DOMAIN chain' :
             k + nReprocess >= Len(chain) /\ chain'[k] # None => ~ Conflict(t, chain'[k])
    OBVIOUS
  <2>1. /\ TypeOK /\ TypeOK' /\ t \in Tx
        /\ mapTxLocks \in [Tx -> Lock \cup {None}] /\ spends[t] \subseteq Input
    BY <1>1, StepInv, SwiftTXAssumption DEF Inv, TypeOK
  <2> DEFINE h == handler.tx
             locked == LockInputs(spends[h], h)
  <2>2. CASE IxReject
    <3>1. h \in Tx /\ spends[h] \subseteq Input
      BY <2>1, <2>2, HandlerType, SwiftTXAssumption DEF IxReject
    <3>2. /\ mapTxLockReqRejected' = mapTxLockReqRejected \cup {h}
          /\ mapLockedInputs' = locked
      BY <2>2 DEF IxReject
    <3>3. \/ ReprocessBlocks(locked) /\ UNCHANGED mapTxLocks
          \/ \E i \in spends[h] : /\ locked[i] # h
                                  /\ mapTxLocks' = CancelBoth(mapTxLocks, h, i)
          \/ ~ Complete(mapTxLocks[h]) /\ UNCHANGED mapTxLocks
      BY <2>2, Zenon DEF IxReject
    <3> HIDE DEF h, locked
    <3>4. Complete(mapTxLocks[t])
      BY <2>1, <3>1, <3>3, CancelBothComplete
    <3>5. t = h
      BY <3>2, <3>4
    <3>6. ReprocessBlocks(locked)
      BY <3>2, <3>3, <3>4, <3>5
    <3> QED
      BY <2>1, <3>2, <3>6, ReprocessClears
  <2>3. CASE VoteCount
    <3> DEFINE v == handler.vote
               locks == [mapTxLocks EXCEPT ![h] = AddSignature(h, v)]
               ins == IF mapTxLockReq'[h] = "tx" THEN spends[h] ELSE {}
    <3>1. h \in Tx /\ v \in Vote /\ spends[h] \subseteq Input
      BY <2>1, <2>3, HandlerType, SwiftTXAssumption DEF VoteCount
    <3>2. mapTxLockReqRejected' = mapTxLockReqRejected
      BY <2>3 DEF VoteCount
    <3>3. \/ ~ Complete(locks[h]) /\ mapTxLocks' = locks
          \/ \E i \in spends[h] : /\ mapLockedInputs'[i] # h
                                  /\ mapTxLocks' = CancelBoth(locks, h, i)
          \/ /\ mapTxLocks' = locks
             /\ h \in mapTxLockReqRejected => ReprocessBlocks(mapLockedInputs')
      <4>1. CASE ~ Complete(locks[h])
        BY <2>3, <4>1 DEF VoteCount
      <4>2. CASE \E i \in spends[h] : /\ mapLockedInputs[i] \notin {None, h}
                                      /\ UNCHANGED mapLockedInputs
                                      /\ mapTxLocks' = CancelBoth(locks, h, i)
        BY <4>2
      <4>3. CASE /\ mapTxLocks' = locks
                 /\ h \in mapTxLockReqRejected => ReprocessBlocks(mapLockedInputs')
        BY <4>3
      <4> QED
        BY <2>3, <4>1, <4>2, <4>3, Zenon DEF VoteCount
    <3>4. locks \in [Tx -> Lock \cup {None}] /\ \A u \in Tx : u # h => locks[u] = mapTxLocks[u]
      BY <2>1, <3>1, AddSignatureType
    <3> HIDE DEF h, locks
    <3>5. Complete(locks[t])
      BY <2>1, <3>1, <3>3, <3>4, CancelBothComplete
    <3>6. t = h
      BY <2>1, <3>2, <3>4, <3>5
    <3>7. ReprocessBlocks(mapLockedInputs')
      BY <3>2, <3>3, <3>5, <3>6
    <3> QED
      BY <2>1, <3>7, ReprocessClears
  <2>4. CASE VoteDrop
    BY <2>4 DEF VoteDrop, lockVars
  <2>5. ASSUME NEW ranked \in BOOLEAN, IxAccept(ranked) PROVE FALSE
    BY <2>5 DEF IxAccept
  <2>6. ASSUME NEW r \in Tx, NEW deep \in BOOLEAN, IxBegin(r, deep) \/ LocalSend(r, deep)
        PROVE  FALSE
    BY <2>6 DEF IxBegin, LocalSend
  <2>7. ASSUME NEW r \in Tx, NEW v \in Vote, VoteBegin(r, v) PROVE FALSE
    BY <2>7 DEF VoteBegin
  <2>8. ASSUME UNCHANGED handler PROVE FALSE
    BY <2>8
  <2> QED
    BY <1>1, <2>2, <2>3, <2>4, <2>5, <2>6, <2>7, <2>8
       DEF Next, Handle, Submit, AcceptBlock, Expire, CleanLock
<1>2. Inv /\ [Next]_vars => [Step]_vars
  BY <1>1
<1> QED
  BY InitInv, StepInv, <1>2, PTL DEF Spec, RejectedLockClearsChain
=============================================================================
