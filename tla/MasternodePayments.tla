------------------------ MODULE MasternodePayments ------------------------
(***************************************************************************)
(* Votes of masternodes on whom a block pays (masternode-payments.cpp) on  *)
(* one node: the "mnw" handler, the votes this node's masternode casts     *)
(* when a block arrives, the clean-up, mnpayments.dat, and the two uses of *)
(* the tally: filling a block and checking one.                            *)
(*                                                                         *)
(* A vote is stored under a lock and counted after the lock is released.   *)
(* The message thread, the thread that processes a block (a miner's too),  *)
(* the clean-up and the shutdown run in between.                           *)
(***************************************************************************)
EXTENDS Integers, FiniteSets

CONSTANTS
  MN,          \* masternodes
  Self,        \* the one this node runs, or None
  Payee,       \* scripts to pay
  NoPayee,     \* the empty script, a member of Payee
  MaxTip,      \* bound on the height of the chain
  TopRanked,   \* [Height -> SUBSET MN], those ranked up to SIGNATURES_TOTAL
  LowRanked,   \* [Height -> SUBSET MN], ranked behind; the others have no rank
  Required,    \* MNPAYMENTS_SIGNATURES_REQUIRED
  Window,      \* blocks back from which votes are taken, 1.25 * CountEnabled()
  Ahead,       \* blocks ahead for which they are taken, 20
  VoteAhead,   \* blocks ahead for which this node's masternode votes, 10
  Limit,       \* nLimit of CleanPaymentList, 1000 at least
  MaxLag,      \* blocks that may arrive while a vote is processed
  GetBlockValue, \* [Height -> Nat], the reward schedule
  MaxRestart,  \* bound on restarts
  None

Height == 0..(MaxTip + Ahead)

ASSUME PaymentsAssumption ==
  /\ Self \in MN \cup {None} /\ None \notin MN
  /\ IsFiniteSet(MN) /\ IsFiniteSet(Payee) /\ NoPayee \in Payee
  /\ MaxTip \in Nat \ {0} /\ Ahead \in Nat \ {0} /\ VoteAhead \in 0..Ahead
  /\ TopRanked \in [Height -> SUBSET MN]
  /\ LowRanked \in [Height -> SUBSET MN]
  /\ \A h \in Height : TopRanked[h] \cap LowRanked[h] = {}
  /\ Required \in Nat \ {0}
  /\ GetBlockValue \in [Height -> Nat]
  /\ MaxRestart \in Nat

\* nLimit is at least 1000, and 1.25 * CountEnabled() does not come near to it
\* with fewer than 800 masternodes.
ASSUME WindowAssumption ==
  /\ Window \in Nat /\ MaxLag \in Nat /\ Limit \in Nat
  /\ Window + MaxLag <= Limit

\* CMasternodePaymentWinner; its hash covers these three.
Winner == [mn : MN, height : Height, payee : Payee]

\* vecPayments of a block: votes by payee, 0 for one that is not there.
Tally == [Payee -> Nat]

ASSUME NoneAssumption == None \notin Tally /\ None \notin Height

Thread == {"message", "block"}

VARIABLES
  tip,                     \* height of the active chain
  mapMasternodePayeeVotes,
  mapMasternodeBlocks,     \* [Height -> Tally or None]
  mapMasternodesLastVote,  \* the last height only, or None
  nLastBlockHeight,
  adding,                  \* [Thread -> AddWinningMasternode in progress]
  dumping,                 \* a shutdown has serialized the votes only
  saved,                   \* those votes
  mnpayments_dat,          \* votes and blocks in the file
  restarts,
  disturbed,               \* history: votes or tallies changed in this shutdown
  torn                     \* history: a disturbed shutdown has written the file

file == <<dumping, saved, mnpayments_dat, restarts, torn>>
vars == <<tip, mapMasternodePayeeVotes, mapMasternodeBlocks, mapMasternodesLastVote,
          nLastBlockHeight, adding, disturbed, file>>

----------------------------------------------------------------------------
Idle == [step |-> "idle"]

NoVotes == [p \in Payee |-> 0]

\* A vote in AddWinningMasternode: where it is, the tip when it was examined,
\* and for ProcessBlock the height it will have voted for.
Adding == {Idle} \cup [step : {"store", "count"}, winner : Winner, at : Height,
                       voting : Height]

VotesFor(votes, h, p) == {w \in votes : w.height = h /\ w.payee = p}

\* The votes stored for h and p that AddPayee still has to count.
Uncounted(h, p) ==
  {t \in Thread : /\ adding[t].step = "count"
                  /\ adding[t].winner.height = h /\ adding[t].winner.payee = p}

\* nFirstBlock and nHeight + 20 of the "mnw" handler.
InRange(h) == h + Window >= tip /\ h <= tip + Ahead

\* "mnw" up to CanVote: unknown, in range, from a masternode that is not ranked
\* too low (no rank at all, -1, is good enough) and whose last vote was not for
\* that height.
Admissible(w) ==
  /\ w \notin mapMasternodePayeeVotes
  /\ InRange(w.height)
  /\ w.mn \notin LowRanked[w.height]
  /\ mapMasternodesLastVote[w.mn] # w.height

\* AddPayee on the entry of the block, which operator[] creates when needed.
Entry(h) == IF mapMasternodeBlocks[h] = None THEN NoVotes ELSE mapMasternodeBlocks[h]
AddPayeeUncast(h, p) ==
  [mapMasternodeBlocks EXCEPT ![h] = [Entry(h) EXCEPT ![p] = @ - 1]]
AddPayee(h, p) ==
  [mapMasternodeBlocks EXCEPT ![h] = [Entry(h) EXCEPT ![p] = @ + 1]]

\* CleanPaymentList on votes, and on the blocks those votes were for.
Old(h) == tip > h + Limit
OldVotes(votes) == {w \in votes : Old(w.height)}
CleanBlocks(blocks, votes) ==
  [h \in Height |-> IF \E w \in OldVotes(votes) : w.height = h THEN None ELSE blocks[h]]

\* The height ProcessNewBlock passes to ProcessBlock.
VoteHeightNext == tip + VoteAhead + 1
VoteHeight == tip + VoteAhead

----------------------------------------------------------------------------
\* The uses of the tally.

GetMasternodePayment(value) == (value \div 3) * 2

\* GetPayee: a payee with the most votes.
GetPayee(h) ==
  IF mapMasternodeBlocks[h] = None THEN {}
  ELSE {p \in Payee : /\ mapMasternodeBlocks[h][p] > 0
                      /\ \A q \in Payee :
                           mapMasternodeBlocks[h][q] <= mapMasternodeBlocks[h][p]}

\* Payees with enough signatures to be enforced for a block.
EnforcedOneLess(h) ==
  IF mapMasternodeBlocks[h] = None THEN {}
  ELSE {p \in Payee : mapMasternodeBlocks[h][p] + 1 >= Required}
Enforced(h) ==
  IF mapMasternodeBlocks[h] = None THEN {}
  ELSE {p \in Payee : mapMasternodeBlocks[h][p] >= Required}

\* A block at height h that pays amount to p.
IsTransactionValid(h, p, amount) ==
  \/ Enforced(h) = {}
  \/ p \in Enforced(h) /\ amount = GetMasternodePayment(GetBlockValue[h])

\* What FillBlockPayee pays in the block after the tip.
FilledAmount == GetMasternodePayment(GetBlockValue[tip])

----------------------------------------------------------------------------
Init ==
  /\ tip = 1
  /\ mapMasternodePayeeVotes = {}
  /\ mapMasternodeBlocks = [h \in Height |-> None]
  /\ mapMasternodesLastVote = [m \in MN |-> None]
  /\ nLastBlockHeight = 0
  /\ adding = [t \in Thread |-> Idle]
  /\ dumping = FALSE
  /\ saved = {}
  /\ mnpayments_dat = [votes |-> {}, blocks |-> [h \in Height |-> None]]
  /\ restarts = 0
  /\ disturbed = FALSE /\ torn = FALSE

\* "mnw": the vote is recorded in mapMasternodesLastVote before its signature
\* is checked.
MnwAccept(w) ==
  /\ adding["message"] = Idle
  /\ Admissible(w)
  /\ mapMasternodesLastVote' = [mapMasternodesLastVote EXCEPT ![w.mn] = w.height]
  /\ adding' = [adding EXCEPT !["message"] =
                  [step |-> "store", winner |-> w, at |-> tip, voting |-> 0]]
  /\ UNCHANGED <<tip, mapMasternodePayeeVotes, mapMasternodeBlocks, nLastBlockHeight,
                 disturbed, file>>

\* The signature does not fit the key known here.
MnwBadSignature(w) ==
  /\ adding["message"] = Idle
  /\ Admissible(w)
  /\ mapMasternodesLastVote' = [mapMasternodesLastVote EXCEPT ![w.mn] = w.height]
  /\ UNCHANGED <<tip, mapMasternodePayeeVotes, mapMasternodeBlocks, nLastBlockHeight,
                 adding, disturbed, file>>

\* ProcessBlock: this node's masternode votes for the payee p next in the
\* queue.  For a budget block, or without a payee, it votes for height 0.
ProcessBlock(p) ==
  /\ adding["block"] = Idle
  /\ Self \in TopRanked[VoteHeight]
  /\ VoteHeight > nLastBlockHeight
  /\ adding' = [adding EXCEPT !["block"] =
                  [step |-> "store",
                   winner |-> [mn |-> Self, payee |-> p,
                               height |-> IF p = NoPayee THEN 0 ELSE VoteHeight],
                   at |-> tip, voting |-> VoteHeight]]
  /\ UNCHANGED <<tip, mapMasternodePayeeVotes, mapMasternodeBlocks,
                 mapMasternodesLastVote, nLastBlockHeight, disturbed, file>>

\* AddWinningMasternode under its locks.  The vote may be there by now.
StoreWinnerBlindly(t) ==
  LET w == adding[t].winner
  IN  /\ adding[t].step = "store"
      /\ mapMasternodePayeeVotes' = mapMasternodePayeeVotes \cup {w}
      /\ mapMasternodeBlocks' = [mapMasternodeBlocks EXCEPT ![w.height] = Entry(w.height)]
      /\ adding' = [adding EXCEPT ![t].step = "count"]
      /\ disturbed' = (disturbed \/ dumping)
      /\ UNCHANGED <<tip, mapMasternodesLastVote, nLastBlockHeight, file>>
StoreWinner(t) ==
  LET w == adding[t].winner
  IN  /\ adding[t].step = "store"
      /\ \/ /\ w \in mapMasternodePayeeVotes
            /\ adding' = [adding EXCEPT ![t] = Idle]
            /\ UNCHANGED <<mapMasternodePayeeVotes, mapMasternodeBlocks, disturbed>>
         \/ /\ w \notin mapMasternodePayeeVotes
            /\ mapMasternodePayeeVotes' = mapMasternodePayeeVotes \cup {w}
            /\ mapMasternodeBlocks' = [mapMasternodeBlocks EXCEPT ![w.height] = Entry(w.height)]
            /\ adding' = [adding EXCEPT ![t].step = "count"]
            /\ disturbed' = (disturbed \/ dumping)
      /\ UNCHANGED <<tip, mapMasternodesLastVote, nLastBlockHeight, file>>

\* AddPayee after the locks are released, and the end of ProcessBlock.
CountWinner(t) ==
  LET w == adding[t].winner
  IN  /\ adding[t].step = "count"
      /\ mapMasternodeBlocks' = AddPayee(w.height, w.payee)
      /\ nLastBlockHeight' = IF t = "block" THEN adding[t].voting ELSE nLastBlockHeight
      /\ adding' = [adding EXCEPT ![t] = Idle]
      /\ disturbed' = (disturbed \/ dumping)
      /\ UNCHANGED <<tip, mapMasternodePayeeVotes, mapMasternodesLastVote, file>>

\* The active chain grows, but not by more than MaxLag during one message, or
\* loses its last block.
ConnectBlock ==
  /\ tip < MaxTip
  /\ \A t \in Thread : adding[t] # Idle => tip < adding[t].at + MaxLag
  /\ tip' = tip + 1
  /\ UNCHANGED <<mapMasternodePayeeVotes, mapMasternodeBlocks, mapMasternodesLastVote,
                 nLastBlockHeight, adding, disturbed, file>>

DisconnectBlock ==
  /\ tip > 1
  /\ tip' = tip - 1
  /\ UNCHANGED <<mapMasternodePayeeVotes, mapMasternodeBlocks, mapMasternodesLastVote,
                 nLastBlockHeight, adding, disturbed, file>>

CleanPaymentList ==
  /\ mapMasternodePayeeVotes' = mapMasternodePayeeVotes \ OldVotes(mapMasternodePayeeVotes)
  /\ mapMasternodeBlocks' = CleanBlocks(mapMasternodeBlocks, mapMasternodePayeeVotes)
  /\ disturbed' = (disturbed \/ (dumping /\ OldVotes(mapMasternodePayeeVotes) # {}))
  /\ UNCHANGED <<tip, mapMasternodesLastVote, nLastBlockHeight, adding, file>>

\* DumpMasternodePayments, in a shutdown that has not stopped any thread yet,
\* serializes the votes and then the blocks, without a lock.  A vote on its way
\* to be counted, or anything stored, counted or cleaned from here on, disturbs it.
DumpVotes ==
  /\ restarts < MaxRestart
  /\ ~ dumping /\ dumping' = TRUE
  /\ saved' = mapMasternodePayeeVotes
  /\ disturbed' = \E t \in Thread : adding[t].step = "count"
  /\ UNCHANGED <<tip, mapMasternodePayeeVotes, mapMasternodeBlocks,
                 mapMasternodesLastVote, nLastBlockHeight, adding, mnpayments_dat,
                 restarts, torn>>

\* A start reads the file and cleans what it read; the rest starts empty.
Load(votes, blocks) ==
  /\ mapMasternodePayeeVotes' = votes \ OldVotes(votes)
  /\ mapMasternodeBlocks' = CleanBlocks(blocks, votes)
  /\ mapMasternodesLastVote' = [m \in MN |-> None]
  /\ nLastBlockHeight' = 0
  /\ adding' = [t \in Thread |-> Idle]
  /\ dumping' = FALSE /\ saved' = {} /\ disturbed' = FALSE
  /\ restarts < MaxRestart /\ restarts' = restarts + 1
  /\ UNCHANGED tip

DumpBlocksAndRestart ==
  /\ dumping
  /\ mnpayments_dat' = [votes |-> saved, blocks |-> mapMasternodeBlocks]
  /\ torn' = (torn \/ disturbed)
  /\ Load(saved, mapMasternodeBlocks)

Crash ==
  /\ Load(mnpayments_dat.votes, mnpayments_dat.blocks)
  /\ UNCHANGED <<mnpayments_dat, torn>>

Next ==
  \/ \E w \in Winner : MnwAccept(w) \/ MnwBadSignature(w)
  \/ \E p \in Payee : ProcessBlock(p)
  \/ \E t \in Thread : StoreWinner(t) \/ CountWinner(t)
  \/ ConnectBlock
  \/ DisconnectBlock
  \/ CleanPaymentList
  \/ DumpVotes
  \/ DumpBlocksAndRestart
  \/ Crash

Spec == Init /\ [][Next]_vars

----------------------------------------------------------------------------
TypeOK ==
  /\ tip \in 0..MaxTip
  /\ mapMasternodePayeeVotes \subseteq Winner
  /\ mapMasternodeBlocks \in [Height -> Tally \cup {None}]
  /\ mapMasternodesLastVote \in [MN -> Height \cup {None}]
  /\ nLastBlockHeight \in Height
  /\ adding \in [Thread -> Adding]
  /\ dumping \in BOOLEAN /\ saved \subseteq Winner
  /\ mnpayments_dat \in [votes : SUBSET Winner, blocks : [Height -> Tally \cup {None}]]
  /\ restarts \in 0..MaxRestart
  /\ disturbed \in BOOLEAN /\ torn \in BOOLEAN

CountOf(blocks, h, p) == IF blocks[h] = None THEN 0 ELSE blocks[h][p]

\* Tallies and stored votes agree, but for the votes about to be counted.
\* (Height 0 is no block: a vote without a payee is for it, and is old at once.)
TallyExact ==
  \A h \in Height \ {0}, p \in Payee :
    CountOf(mapMasternodeBlocks, h, p) + Cardinality(Uncounted(h, p))
      = Cardinality(VotesFor(mapMasternodePayeeVotes, h, p))

\* The tally of a block (vecPayments) is the number of votes stored for it,
\* but for those that AddWinningMasternode is about to count: no vote is
\* counted twice, none is lost, although the other thread, clean-up, crashes and
\* restarts intervene, as long as no shutdown has saved votes and tallies of
\* different moments.
TallyMatchesVotes == ~ torn => TallyExact

\* The inductive form.  What is in the file matches as well, a shutdown that is
\* not disturbed saves what is there, and no vote in AddWinningMasternode is for
\* a block so old that clean-up takes its tally away before it is counted.
FileExact ==
  \A h \in Height \ {0}, p \in Payee :
    CountOf(mnpayments_dat.blocks, h, p)
      = Cardinality(VotesFor(mnpayments_dat.votes, h, p))

QuietDump ==
  dumping /\ ~ disturbed =>
    /\ saved = mapMasternodePayeeVotes
    /\ \A t \in Thread : adding[t].step # "count"

AddedInTime ==
  \A t \in Thread : adding[t] # Idle =>
    /\ tip <= adding[t].at + MaxLag
    /\ adding[t].winner.height # 0 => adding[t].at <= adding[t].winner.height + Window

FinitelyMany ==
  /\ IsFiniteSet(mapMasternodePayeeVotes)
  /\ IsFiniteSet(mnpayments_dat.votes)
  /\ IsFiniteSet(saved)

\* An enforced payee has the votes of Required different masternodes.
Signed ==
  \A h \in Height \ {0} : \A p \in Enforced(h) :
    Cardinality({w.mn : w \in VotesFor(mapMasternodePayeeVotes, h, p)}) >= Required

\* "require at least 6 signatures" (masternode-payments.cpp:599): a payee that
\* a block must pay has the stored votes of that many masternodes, as long as
\* no shutdown has saved votes and tallies of different moments.
EnoughSignatures == ~ torn => Signed

\* The same after a shutdown in which votes went on arriving between the two
\* halves of the file.  The code does not keep this: such a vote is saved in the
\* tally only, comes again after the restart and is counted again.
SignedAfterRestart == torn => Signed

\* "This code only checks for mnPayment >= required" (masternode-payments.cpp:
\* 592): a block that pays an enforced payee no less than is required is taken.
\* The code compares for equality, and FillBlockPayee pays by the reward of the
\* last height: where the reward falls, the node's own block is refused.
PayingMoreIsValid ==
  \A p \in GetPayee(tip + 1) \cap Enforced(tip + 1) :
    FilledAmount >= GetMasternodePayment(GetBlockValue[tip + 1]) =>
      IsTransactionValid(tip + 1, p, FilledAmount)
=============================================================================
