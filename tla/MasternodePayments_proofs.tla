--------------------- MODULE MasternodePayments_proofs ---------------------
(***************************************************************************)
(* Proofs about the votes on payees: the tally of a block is exactly the   *)
(* votes stored for it, for any masternodes, payees and heights, as long   *)
(* as no shutdown has saved votes and tallies of different moments.        *)
(***************************************************************************)
EXTENDS MasternodePayments, FiniteSetTheorems, TLAPS

----------------------------------------------------------------------------
\* Counting one vote (AddPayee) adds one for its block and payee only.
LEMMA AddPayeeCounts ==
  ASSUME mapMasternodeBlocks \in [Height -> Tally \cup {None}],
         NEW h \in Height, NEW p \in Payee
  PROVE  /\ AddPayee(h, p) \in [Height -> Tally \cup {None}]
         /\ \A k \in Height, q \in Payee :
              CountOf(AddPayee(h, p), k, q)
                = CountOf(mapMasternodeBlocks, k, q) + IF k = h /\ q = p THEN 1 ELSE 0
<1>1. /\ Entry(h) \in Tally
      /\ \A q \in Payee : Entry(h)[q] = CountOf(mapMasternodeBlocks, h, q)
  BY DEF Entry, NoVotes, Tally, CountOf
<1>2. [Entry(h) EXCEPT ![p] = @ + 1] \in Tally
  BY <1>1 DEF Tally
<1>3. AddPayee(h, p) \in [Height -> Tally \cup {None}]
  BY <1>2 DEF AddPayee
<1>4. ASSUME NEW k \in Height, NEW q \in Payee
      PROVE  CountOf(AddPayee(h, p), k, q)
               = CountOf(mapMasternodeBlocks, k, q) + IF k = h /\ q = p THEN 1 ELSE 0
  <2>1. CASE k = h
    <3>1. AddPayee(h, p)[k] = [Entry(h) EXCEPT ![p] = @ + 1]
      BY <2>1 DEF AddPayee
    <3>2. AddPayee(h, p)[k] # None
      BY <1>2, <3>1, NoneAssumption
    <3>3. AddPayee(h, p)[k][q] = Entry(h)[q] + IF q = p THEN 1 ELSE 0
      BY <1>1, <3>1 DEF Tally
    <3> QED
      BY <1>1, <2>1, <3>2, <3>3 DEF CountOf
  <2>2. CASE k # h
    <3>1. AddPayee(h, p)[k] = mapMasternodeBlocks[k]
      BY <2>2 DEF AddPayee
    <3>2. CountOf(mapMasternodeBlocks, k, q) \in Nat
      BY DEF CountOf, Tally
    <3> QED
      BY <2>2, <3>1, <3>2 DEF CountOf
  <2> QED
    BY <2>1, <2>2
<1> QED
  BY <1>3, <1>4

\* A count is a natural number.
LEMMA CountType ==
  ASSUME NEW blocks \in [Height -> Tally \cup {None}], NEW h \in Height, NEW p \in Payee
  PROVE  CountOf(blocks, h, p) \in Nat
BY DEF CountOf, Tally

\* Finitely many votes: those for one block and payee can be counted.
LEMMA VotesForFinite ==
  ASSUME NEW votes, IsFiniteSet(votes), NEW h, NEW p
  PROVE  /\ IsFiniteSet(VotesFor(votes, h, p))
         /\ Cardinality(VotesFor(votes, h, p)) \in Nat
<1>1. VotesFor(votes, h, p) \in SUBSET votes
  BY DEF VotesFor
<1>2. IsFiniteSet(VotesFor(votes, h, p))
  BY <1>1, FS_Subset
<1> QED
  BY <1>2, FS_CardinalityType

\* A vote that is not there yet adds one to the votes for its block and payee.
LEMMA NewVoteCounts ==
  ASSUME NEW votes, IsFiniteSet(votes), NEW w \in Winner, w \notin votes,
         NEW h \in Height, NEW p \in Payee
  PROVE  Cardinality(VotesFor(votes \cup {w}, h, p))
           = Cardinality(VotesFor(votes, h, p))
               + IF w.height = h /\ w.payee = p THEN 1 ELSE 0
<1>0. /\ IsFiniteSet(VotesFor(votes, h, p))
      /\ Cardinality(VotesFor(votes, h, p)) \in Nat
  BY VotesForFinite
<1>1. CASE w.height = h /\ w.payee = p
  <2>1. VotesFor(votes \cup {w}, h, p) = VotesFor(votes, h, p) \cup {w}
    BY <1>1 DEF VotesFor
  <2>2. w \notin VotesFor(votes, h, p)
    BY DEF VotesFor
  <2>3. Cardinality(VotesFor(votes, h, p) \cup {w}) = Cardinality(VotesFor(votes, h, p)) + 1
    BY <1>0, <2>2, FS_AddElement
  <2> QED
    BY <1>1, <2>1, <2>3
<1>2. CASE ~ (w.height = h /\ w.payee = p)
  <2>1. VotesFor(votes \cup {w}, h, p) = VotesFor(votes, h, p)
    BY <1>2 DEF VotesFor
  <2> QED
    BY <1>0, <1>2, <2>1
<1> QED
  BY <1>1, <1>2

\* There are two threads, so the votes under way can be counted.
LEMMA ThreadsFinite ==
  ASSUME NEW T \in SUBSET Thread
  PROVE  IsFiniteSet(T) /\ Cardinality(T) \in Nat
<1>1. IsFiniteSet({} \cup {"message"})
  BY FS_EmptySet, FS_AddElement
<1>2. IsFiniteSet(({} \cup {"message"}) \cup {"block"})
  BY <1>1, FS_AddElement
<1>3. Thread = ({} \cup {"message"}) \cup {"block"}
  BY DEF Thread
<1>4. IsFiniteSet(Thread)
  BY <1>2, <1>3
<1>5. IsFiniteSet(T)
  BY <1>4, FS_Subset
<1> QED
  BY <1>5, FS_CardinalityType

\* CleanPaymentList leaves the votes and the tally of a block alone, or takes
\* them all away because the block is old.
LEMMA CleanIsWhole ==
  ASSUME NEW votes, NEW blocks \in [Height -> Tally \cup {None}],
         NEW h \in Height, NEW p \in Payee
  PROVE  \/ /\ VotesFor(votes \ OldVotes(votes), h, p) = VotesFor(votes, h, p)
            /\ CountOf(CleanBlocks(blocks, votes), h, p) = CountOf(blocks, h, p)
         \/ /\ Old(h)
            /\ VotesFor(votes \ OldVotes(votes), h, p) = {}
            /\ CountOf(CleanBlocks(blocks, votes), h, p) = 0
<1>1. CASE \E w \in OldVotes(votes) : w.height = h
  <2>1. Old(h)
    BY <1>1 DEF OldVotes
  <2>2. VotesFor(votes \ OldVotes(votes), h, p) = {}
    BY <2>1 DEF VotesFor, OldVotes
  <2>3. CountOf(CleanBlocks(blocks, votes), h, p) = 0
    BY <1>1 DEF CountOf, CleanBlocks
  <2> QED
    BY <2>1, <2>2, <2>3
<1>2. CASE ~ \E w \in OldVotes(votes) : w.height = h
  <2>1. VotesFor(votes \ OldVotes(votes), h, p) = VotesFor(votes, h, p)
    BY <1>2 DEF VotesFor, OldVotes
  <2>2. CleanBlocks(blocks, votes)[h] = blocks[h]
    BY <1>2 DEF CleanBlocks
  <2> QED
    BY <2>1, <2>2 DEF CountOf
<1> QED
  BY <1>1, <1>2

----------------------------------------------------------------------------
\* Heights of the chain, and heights voted for, are heights.
LEMMA Heights ==
  ASSUME TypeOK
  PROVE  tip \in Height /\ VoteHeight \in Height /\ 0 \in Height /\ Height \subseteq Nat
BY PaymentsAssumption DEF TypeOK, Height, VoteHeight

\* A vote in AddWinningMasternode has its fields.
LEMMA AddingFields ==
  ASSUME TypeOK, NEW t \in Thread, adding[t] # Idle
  PROVE  /\ adding[t].step \in {"store", "count"}
         /\ adding[t].winner \in Winner
         /\ adding[t].winner.height \in Height /\ adding[t].winner.payee \in Payee
         /\ adding[t].at \in Height /\ adding[t].voting \in Height
BY DEF TypeOK, Adding, Winner

\* An idle thread is neither storing nor counting.
LEMMA IdleStep ==
  ASSUME NEW t \in Thread
  PROVE  adding[t].step \in {"store", "count"} => adding[t] # Idle
BY DEF Idle

\* The empty maps of a node that starts.
LEMMA InitType == Init => TypeOK
<1> SUFFICES ASSUME Init PROVE TypeOK
  OBVIOUS
<1>1. /\ 0 \in Height /\ tip \in 0..MaxTip
  BY PaymentsAssumption DEF Init, Height
<1>2. /\ mapMasternodeBlocks \in [Height -> Tally \cup {None}]
      /\ mnpayments_dat \in [votes : SUBSET Winner, blocks : [Height -> Tally \cup {None}]]
  BY DEF Init
<1>3. adding \in [Thread -> Adding]
  BY DEF Init, Adding
<1>4. restarts \in 0..MaxRestart
  BY PaymentsAssumption DEF Init
<1>5. mapMasternodesLastVote \in [MN -> Height \cup {None}]
  BY DEF Init
<1> QED
  BY <1>1, <1>2, <1>3, <1>4, <1>5 DEF Init, TypeOK

\* What a start makes of well-typed votes and tallies.
LEMMA LoadType ==
  ASSUME TypeOK, NEW votes \in SUBSET Winner,
         NEW blocks \in [Height -> Tally \cup {None}],
         Load(votes, blocks),
         mnpayments_dat' \in [votes : SUBSET Winner, blocks : [Height -> Tally \cup {None}]],
         torn' \in BOOLEAN
  PROVE  TypeOK'
<1>1. CleanBlocks(blocks, votes) \in [Height -> Tally \cup {None}]
  BY DEF CleanBlocks
<1>2. /\ 0 \in Height /\ restarts + 1 \in 0..MaxRestart
  BY Heights, PaymentsAssumption DEF TypeOK, Load
<1> QED
  BY <1>1, <1>2 DEF Load, TypeOK, Adding

\* A vote begins its way through AddWinningMasternode.
LEMMA BeginType ==
  ASSUME TypeOK, NEW t \in Thread, NEW w \in Winner, NEW v \in Height,
         adding' = [adding EXCEPT ![t] =
                      [step |-> "store", winner |-> w, at |-> tip, voting |-> v]]
  PROVE  adding' \in [Thread -> Adding]
BY Heights DEF TypeOK, Adding

\* AddWinningMasternode keeps the types.
LEMMA AddingType ==
  ASSUME TypeOK, NEW t \in Thread, StoreWinner(t) \/ CountWinner(t)
  PROVE  TypeOK'
<1>1. adding[t] # Idle
  BY IdleStep DEF StoreWinner, CountWinner
<1>2. /\ adding[t].winner \in Winner /\ adding[t].winner.height \in Height
      /\ adding[t].winner.payee \in Payee /\ adding[t].voting \in Height
      /\ [adding[t] EXCEPT !.step = "count"] \in Adding
      /\ Idle \in Adding
  BY <1>1, AddingFields DEF TypeOK, Adding
<1>3. CASE StoreWinner(t)
  <2>1. Entry(adding[t].winner.height) \in Tally
    BY <1>2 DEF TypeOK, Entry, NoVotes, Tally
  <2>2. mapMasternodeBlocks' \in [Height -> Tally \cup {None}]
    BY <1>2, <1>3, <2>1 DEF StoreWinner, TypeOK
  <2>3. adding' \in [Thread -> Adding]
    BY <1>2, <1>3 DEF StoreWinner, TypeOK
  <2>4. mapMasternodePayeeVotes' \subseteq Winner
    BY <1>2, <1>3 DEF StoreWinner, TypeOK
  <2> QED
    BY <1>3, <2>2, <2>3, <2>4 DEF StoreWinner, TypeOK, file
<1>4. CASE CountWinner(t)
  <2>1. mapMasternodeBlocks' \in [Height -> Tally \cup {None}]
    BY <1>2, <1>4, AddPayeeCounts DEF CountWinner, TypeOK
  <2>2. adding' \in [Thread -> Adding] /\ nLastBlockHeight' \in Height
    BY <1>2, <1>4 DEF CountWinner, TypeOK
  <2> QED
    BY <1>4, <2>1, <2>2 DEF CountWinner, TypeOK, file
<1> QED
  BY <1>3, <1>4

\* Every step keeps the types.
LEMMA StepType == TypeOK /\ [Next]_vars => TypeOK'
<1> SUFFICES ASSUME TypeOK, [Next]_vars PROVE TypeOK'
  OBVIOUS
<1>1. ASSUME NEW w \in Winner, MnwAccept(w) PROVE TypeOK'
  <2>1. w.mn \in MN /\ w.height \in Height
    BY DEF Winner
  <2>2. adding' \in [Thread -> Adding]
    BY <1>1, BeginType, Heights DEF MnwAccept, Thread
  <2> QED
    BY <1>1, <2>1, <2>2 DEF MnwAccept, TypeOK, file
<1>2. ASSUME NEW w \in Winner, MnwBadSignature(w) PROVE TypeOK'
  <2>1. w.mn \in MN /\ w.height \in Height
    BY DEF Winner
  <2> QED
    BY <1>2, <2>1 DEF MnwBadSignature, TypeOK, file
<1>3. ASSUME NEW p \in Payee, ProcessBlock(p) PROVE TypeOK'
  <2>1. Self \in MN /\ VoteHeight \in Height /\ 0 \in Height
    BY <1>3, Heights, PaymentsAssumption DEF ProcessBlock
  <2> DEFINE w == [mn |-> Self, payee |-> p,
                   height |-> IF p = NoPayee THEN 0 ELSE VoteHeight]
  <2>2. w \in Winner
    BY <2>1 DEF Winner
  <2>3. adding' \in [Thread -> Adding]
    BY <1>3, <2>1, <2>2, BeginType DEF ProcessBlock, Thread
  <2> QED
    BY <1>3, <2>3 DEF ProcessBlock, TypeOK, file
<1>4. ASSUME NEW t \in Thread, StoreWinner(t) \/ CountWinner(t) PROVE TypeOK'
  BY <1>4, AddingType
<1>5. CASE ConnectBlock
  BY <1>5, PaymentsAssumption DEF ConnectBlock, TypeOK, file
<1>6. CASE DisconnectBlock
  BY <1>6, PaymentsAssumption DEF DisconnectBlock, TypeOK, file
<1>7. CASE CleanPaymentList
  <2>1. mapMasternodeBlocks' \in [Height -> Tally \cup {None}]
    BY <1>7 DEF CleanPaymentList, CleanBlocks, TypeOK
  <2> QED
    BY <1>7, <2>1 DEF CleanPaymentList, TypeOK, file
<1>8. CASE DumpVotes
  BY <1>8 DEF DumpVotes, TypeOK
<1>9. CASE DumpBlocksAndRestart
  <2>1. saved \in SUBSET Winner /\ mapMasternodeBlocks \in [Height -> Tally \cup {None}]
    BY DEF TypeOK
  <2>2. torn' \in BOOLEAN
    BY <1>9 DEF DumpBlocksAndRestart, TypeOK
  <2> QED
    BY <1>9, <2>1, <2>2, LoadType DEF DumpBlocksAndRestart
<1>10. CASE Crash
  <2>1. /\ mnpayments_dat.votes \in SUBSET Winner
        /\ mnpayments_dat.blocks \in [Height -> Tally \cup {None}]
    BY DEF TypeOK
  <2> QED
    BY <1>10, <2>1, LoadType DEF Crash, TypeOK
<1>11. CASE UNCHANGED vars
  BY <1>11 DEF vars, file, TypeOK
<1> QED
  BY <1>1, <1>2, <1>3, <1>4, <1>5, <1>6, <1>7, <1>8, <1>9, <1>10, <1>11 DEF Next

\* The maps of masternode-payments.cpp keep their types, also when a dump
\* races with the other threads.
THEOREM TypeCorrect == Spec => []TypeOK
  BY InitType, StepType, PTL DEF Spec

----------------------------------------------------------------------------
\* Why clean-up cannot interfere: a vote is taken for a block within Window of
\* the tip, the tip moves by at most MaxLag while it is processed, and the two
\* together stay within the limit of CleanPaymentList.
LEMMA StepInTime == TypeOK /\ AddedInTime /\ [Next]_vars => AddedInTime'
<1> SUFFICES ASSUME TypeOK, AddedInTime, [Next]_vars PROVE AddedInTime'
  OBVIOUS
<1>0. /\ tip \in Nat /\ Window \in Nat /\ MaxLag \in Nat /\ VoteAhead \in Nat
  BY Heights, PaymentsAssumption, WindowAssumption
<1>1. ASSUME NEW w \in Winner, MnwAccept(w) PROVE AddedInTime'
  <2>1. w.height \in Nat /\ tip <= w.height + Window
    BY <1>1, Heights DEF MnwAccept, Admissible, InRange, Winner
  <2>2. adding \in [Thread -> Adding]
    BY DEF TypeOK
  <2> QED
    BY <1>0, <1>1, <2>1, <2>2 DEF MnwAccept, AddedInTime
<1>2. ASSUME NEW w \in Winner, MnwBadSignature(w) PROVE AddedInTime'
  BY <1>2 DEF MnwBadSignature, AddedInTime
<1>3. ASSUME NEW p \in Payee, ProcessBlock(p) PROVE AddedInTime'
  <2>1. VoteHeight + Window >= tip /\ VoteHeight \in Nat
    BY <1>0 DEF VoteHeight
  <2>2. adding \in [Thread -> Adding]
    BY DEF TypeOK
  <2> QED
    BY <1>0, <1>3, <2>1, <2>2 DEF ProcessBlock, AddedInTime
<1>4. ASSUME NEW t \in Thread, StoreWinner(t) \/ CountWinner(t) PROVE AddedInTime'
  <2>1. adding[t] # Idle
    BY <1>4, IdleStep DEF StoreWinner, CountWinner
  <2>2. \A u \in Thread : adding'[u] # Idle =>
          /\ adding[u] # Idle
          /\ adding'[u].at = adding[u].at /\ adding'[u].winner = adding[u].winner
    <3>1. \/ adding' = [adding EXCEPT ![t] = Idle]
          \/ adding' = [adding EXCEPT ![t].step = "count"]
      BY <1>4 DEF StoreWinner, CountWinner
    <3> QED
      BY <2>1, <3>1, AddingFields DEF TypeOK, Adding
  <2>3. tip' = tip
    BY <1>4 DEF StoreWinner, CountWinner
  <2> QED
    BY <2>2, <2>3 DEF AddedInTime
<1>5. CASE ConnectBlock
  <2> SUFFICES ASSUME NEW t \in Thread, adding[t] # Idle PROVE tip + 1 <= adding[t].at + MaxLag
    BY <1>5 DEF ConnectBlock, AddedInTime
  <2>1. tip < adding[t].at + MaxLag
    BY <1>5 DEF ConnectBlock
  <2> QED
    BY <1>0, <2>1, AddingFields, Heights
<1>6. CASE DisconnectBlock
  <2> SUFFICES ASSUME NEW t \in Thread, adding[t] # Idle PROVE tip - 1 <= adding[t].at + MaxLag
    BY <1>6 DEF DisconnectBlock, AddedInTime
  <2>1. tip <= adding[t].at + MaxLag
    BY DEF AddedInTime
  <2> QED
    BY <1>0, <2>1, AddingFields, Heights
<1>7. CASE CleanPaymentList
  BY <1>7 DEF CleanPaymentList, AddedInTime
<1>8. CASE DumpVotes
  BY <1>8 DEF DumpVotes, AddedInTime
<1>9. CASE DumpBlocksAndRestart \/ Crash
  BY <1>9 DEF DumpBlocksAndRestart, Crash, Load, AddedInTime
<1>10. CASE UNCHANGED vars
  BY <1>10 DEF vars, AddedInTime
<1> QED
  BY <1>1, <1>2, <1>3, <1>4, <1>5, <1>6, <1>7, <1>8, <1>9, <1>10 DEF Next

\* A vote being added is for a block that is not old.
LEMMA AddedNotOld ==
  ASSUME TypeOK, AddedInTime, NEW t \in Thread, adding[t] # Idle,
         adding[t].winner.height # 0
  PROVE  ~ Old(adding[t].winner.height)
<1>1. /\ tip <= adding[t].at + MaxLag
      /\ adding[t].at <= adding[t].winner.height + Window
  BY DEF AddedInTime
<1>2. tip \in Nat /\ adding[t].at \in Nat /\ adding[t].winner.height \in Nat
  BY Heights, AddingFields
<1> QED
  BY <1>1, <1>2, WindowAssumption DEF Old

\* What the tally needs besides its types.
TallyInv ==
  /\ ~ torn => TallyExact /\ FileExact
  /\ QuietDump
  /\ FinitelyMany

\* AddWinningMasternode finds the vote stored, or stores it, or counts it.
LEMMA AddingTally ==
  ASSUME TypeOK, TallyExact, FinitelyMany, NEW t \in Thread,
         StoreWinner(t) \/ CountWinner(t)
  PROVE  TallyExact'
<1> DEFINE w == adding[t].winner
<1>1. adding[t] # Idle
  BY IdleStep DEF StoreWinner, CountWinner
<1>2. /\ w \in Winner /\ w.height \in Height /\ w.payee \in Payee
      /\ adding \in [Thread -> Adding]
      /\ mapMasternodeBlocks \in [Height -> Tally \cup {None}]
  BY <1>1, AddingFields DEF TypeOK
<1>3. CASE StoreWinner(t) /\ w \in mapMasternodePayeeVotes
  <2>1. UNCHANGED <<mapMasternodePayeeVotes, mapMasternodeBlocks>>
    BY <1>3 DEF StoreWinner
  <2>2. \A h, p : Uncounted(h, p)' = Uncounted(h, p)
    BY <1>2, <1>3 DEF StoreWinner, Uncounted, Idle
  <2> QED
    BY <2>1, <2>2 DEF TallyExact
<1>4. CASE StoreWinner(t) /\ w \notin mapMasternodePayeeVotes
  <2>1. /\ mapMasternodePayeeVotes' = mapMasternodePayeeVotes \cup {w}
        /\ mapMasternodeBlocks' = [mapMasternodeBlocks EXCEPT ![w.height] = Entry(w.height)]
        /\ adding' = [adding EXCEPT ![t].step = "count"]
        /\ adding[t].step = "store"
    BY <1>4 DEF StoreWinner
  <2>2. ASSUME NEW h \in Height \ {0}, NEW p \in Payee
        PROVE  CountOf(mapMasternodeBlocks', h, p) + Cardinality(Uncounted(h, p)')
                 = Cardinality(VotesFor(mapMasternodePayeeVotes', h, p))
    <3>1. CountOf(mapMasternodeBlocks', h, p) = CountOf(mapMasternodeBlocks, h, p)
      BY <1>2, <2>1, NoneAssumption DEF CountOf, Entry, NoVotes, Tally
    <3>2. Cardinality(VotesFor(mapMasternodePayeeVotes', h, p))
            = Cardinality(VotesFor(mapMasternodePayeeVotes, h, p))
                + IF w.height = h /\ w.payee = p THEN 1 ELSE 0
      BY <1>2, <1>4, <2>1, NewVoteCounts DEF FinitelyMany
    <3>3. Cardinality(Uncounted(h, p)')
            = Cardinality(Uncounted(h, p)) + IF w.height = h /\ w.payee = p THEN 1 ELSE 0
      <4>1. IsFiniteSet(Uncounted(h, p)) /\ Cardinality(Uncounted(h, p)) \in Nat
        BY ThreadsFinite DEF Uncounted
      <4>2. /\ adding'[t].step = "count" /\ adding'[t].winner = w
            /\ \A u \in Thread \ {t} : adding'[u] = adding[u]
        BY <1>1, <1>2, <2>1, AddingFields DEF Adding
      <4>3. CASE w.height = h /\ w.payee = p
        <5>1. Uncounted(h, p)' = Uncounted(h, p) \cup {t}
          BY <4>2, <4>3 DEF Uncounted
        <5>2. t \notin Uncounted(h, p)
          BY <2>1 DEF Uncounted
        <5>3. Cardinality(Uncounted(h, p) \cup {t}) = Cardinality(Uncounted(h, p)) + 1
          BY <4>1, <5>2, FS_AddElement
        <5> QED
          BY <4>3, <5>1, <5>3
      <4>4. CASE ~ (w.height = h /\ w.payee = p)
        <5>1. Uncounted(h, p)' = Uncounted(h, p)
          BY <2>1, <4>2, <4>4 DEF Uncounted
        <5> QED
          BY <4>1, <4>4, <5>1
      <4> QED
        BY <4>3, <4>4
    <3>4. /\ CountOf(mapMasternodeBlocks, h, p) \in Nat
          /\ Cardinality(Uncounted(h, p)) \in Nat
          /\ Cardinality(VotesFor(mapMasternodePayeeVotes, h, p)) \in Nat
      BY <1>2, CountType, ThreadsFinite, VotesForFinite DEF Uncounted, FinitelyMany
    <3>5. CountOf(mapMasternodeBlocks, h, p) + Cardinality(Uncounted(h, p))
            = Cardinality(VotesFor(mapMasternodePayeeVotes, h, p))
      BY DEF TallyExact
    <3> QED
      BY <3>1, <3>2, <3>3, <3>4, <3>5
  <2> QED
    BY <2>2 DEF TallyExact
<1>5. CASE CountWinner(t)
  <2>1. /\ mapMasternodePayeeVotes' = mapMasternodePayeeVotes
        /\ mapMasternodeBlocks' = AddPayee(w.height, w.payee)
        /\ adding' = [adding EXCEPT ![t] = Idle]
        /\ adding[t].step = "count"
    BY <1>5 DEF CountWinner
  <2>2. ASSUME NEW h \in Height \ {0}, NEW p \in Payee
        PROVE  CountOf(mapMasternodeBlocks', h, p) + Cardinality(Uncounted(h, p)')
                 = Cardinality(VotesFor(mapMasternodePayeeVotes', h, p))
    <3>1. CountOf(mapMasternodeBlocks', h, p)
            = CountOf(mapMasternodeBlocks, h, p)
                + IF h = w.height /\ p = w.payee THEN 1 ELSE 0
      BY <1>2, <2>1, AddPayeeCounts
    <3>2. Cardinality(Uncounted(h, p)')
            = Cardinality(Uncounted(h, p)) - IF h = w.height /\ p = w.payee THEN 1 ELSE 0
      <4>1. IsFiniteSet(Uncounted(h, p)) /\ Cardinality(Uncounted(h, p)) \in Nat
        BY ThreadsFinite DEF Uncounted
      <4>2. /\ adding'[t].step # "count"
            /\ \A u \in Thread \ {t} : adding'[u] = adding[u]
        BY <1>2, <2>1 DEF Idle
      <4>3. CASE h = w.height /\ p = w.payee
        <5>1. Uncounted(h, p)' = Uncounted(h, p) \ {t}
          BY <4>2, <4>3 DEF Uncounted
        <5>2. t \in Uncounted(h, p)
          BY <2>1, <4>3 DEF Uncounted
        <5>3. Cardinality(Uncounted(h, p) \ {t}) = Cardinality(Uncounted(h, p)) - 1
          BY <4>1, <5>2, FS_RemoveElement
        <5> QED
          BY <4>3, <5>1, <5>3
      <4>4. CASE ~ (h = w.height /\ p = w.payee)
        <5>1. Uncounted(h, p)' = Uncounted(h, p)
          BY <2>1, <4>2, <4>4 DEF Uncounted
        <5> QED
          BY <4>1, <4>4, <5>1
      <4> QED
        BY <4>3, <4>4
    <3>3. /\ CountOf(mapMasternodeBlocks, h, p) \in Nat
          /\ Cardinality(Uncounted(h, p)) \in Nat
          /\ Cardinality(VotesFor(mapMasternodePayeeVotes, h, p)) \in Nat
      BY <1>2, CountType, ThreadsFinite, VotesForFinite DEF Uncounted, FinitelyMany
    <3>4. CountOf(mapMasternodeBlocks, h, p) + Cardinality(Uncounted(h, p))
            = Cardinality(VotesFor(mapMasternodePayeeVotes, h, p))
      BY DEF TallyExact
    <3> QED
      BY <2>1, <3>1, <3>2, <3>3, <3>4
  <2> QED
    BY <2>2 DEF TallyExact
<1> QED
  BY <1>3, <1>4, <1>5

\* Clean-up, at a time when no vote under way is for an old block.
LEMMA CleanTally ==
  ASSUME TypeOK, AddedInTime, TallyExact, FinitelyMany, CleanPaymentList
  PROVE  TallyExact'
<1>1. /\ mapMasternodePayeeVotes' =
             mapMasternodePayeeVotes \ OldVotes(mapMasternodePayeeVotes)
      /\ mapMasternodeBlocks' = CleanBlocks(mapMasternodeBlocks, mapMasternodePayeeVotes)
      /\ adding' = adding
  BY DEF CleanPaymentList
<1>2. ASSUME NEW h \in Height \ {0}, NEW p \in Payee
      PROVE  CountOf(mapMasternodeBlocks', h, p) + Cardinality(Uncounted(h, p)')
               = Cardinality(VotesFor(mapMasternodePayeeVotes', h, p))
  <2>1. Uncounted(h, p)' = Uncounted(h, p)
    BY <1>1 DEF Uncounted
  <2>2. CountOf(mapMasternodeBlocks, h, p) + Cardinality(Uncounted(h, p))
          = Cardinality(VotesFor(mapMasternodePayeeVotes, h, p))
    BY DEF TallyExact
  <2>3. CASE /\ VotesFor(mapMasternodePayeeVotes', h, p)
                   = VotesFor(mapMasternodePayeeVotes, h, p)
             /\ CountOf(mapMasternodeBlocks', h, p) = CountOf(mapMasternodeBlocks, h, p)
    BY <2>1, <2>2, <2>3
  <2>4. CASE /\ Old(h)
             /\ VotesFor(mapMasternodePayeeVotes', h, p) = {}
             /\ CountOf(mapMasternodeBlocks', h, p) = 0
    <3>1. Uncounted(h, p) = {}
      BY <2>4, AddedNotOld, IdleStep DEF Uncounted
    <3> QED
      BY <2>1, <2>4, <3>1, FS_EmptySet
  <2>5. mapMasternodeBlocks \in [Height -> Tally \cup {None}]
    BY DEF TypeOK
  <2> QED
    BY <1>1, <2>3, <2>4, <2>5, CleanIsWhole
<1> QED
  BY <1>2 DEF TallyExact

\* A start with votes and tallies that match.
LEMMA LoadTally ==
  ASSUME NEW votes, NEW blocks \in [Height -> Tally \cup {None}],
         IsFiniteSet(votes), Load(votes, blocks),
         \A h \in Height \ {0}, p \in Payee :
           CountOf(blocks, h, p) = Cardinality(VotesFor(votes, h, p))
  PROVE  TallyExact'
<1>1. /\ mapMasternodePayeeVotes' = votes \ OldVotes(votes)
      /\ mapMasternodeBlocks' = CleanBlocks(blocks, votes)
      /\ adding' = [t \in Thread |-> Idle]
  BY DEF Load
<1>2. ASSUME NEW h \in Height \ {0}, NEW p \in Payee
      PROVE  CountOf(mapMasternodeBlocks', h, p) + Cardinality(Uncounted(h, p)')
               = Cardinality(VotesFor(mapMasternodePayeeVotes', h, p))
  <2>1. Uncounted(h, p)' = {}
    BY <1>1 DEF Uncounted, Idle
  <2>2. /\ CountOf(blocks, h, p) = Cardinality(VotesFor(votes, h, p))
        /\ CountOf(blocks, h, p) \in Nat
    BY CountType
  <2>3. CASE /\ VotesFor(mapMasternodePayeeVotes', h, p) = VotesFor(votes, h, p)
             /\ CountOf(mapMasternodeBlocks', h, p) = CountOf(blocks, h, p)
    BY <2>1, <2>2, <2>3, FS_EmptySet
  <2>4. CASE /\ VotesFor(mapMasternodePayeeVotes', h, p) = {}
             /\ CountOf(mapMasternodeBlocks', h, p) = 0
    BY <2>1, <2>4, FS_EmptySet
  <2> QED
    BY <1>1, <2>3, <2>4, CleanIsWhole
<1> QED
  BY <1>2 DEF TallyExact

\* An undisturbed dump saves matching votes and tallies.
LEMMA DumpMatches ==
  ASSUME TypeOK, TallyExact, QuietDump, dumping, ~ disturbed
  PROVE  \A h \in Height \ {0}, p \in Payee :
           CountOf(mapMasternodeBlocks, h, p) = Cardinality(VotesFor(saved, h, p))
<1> SUFFICES ASSUME NEW h \in Height \ {0}, NEW p \in Payee
             PROVE  CountOf(mapMasternodeBlocks, h, p) = Cardinality(VotesFor(saved, h, p))
  OBVIOUS
<1>1. Uncounted(h, p) = {} /\ saved = mapMasternodePayeeVotes
  BY DEF QuietDump, Uncounted
<1>2. CountOf(mapMasternodeBlocks, h, p) \in Nat
  BY CountType DEF TypeOK
<1>3. CountOf(mapMasternodeBlocks, h, p) + Cardinality(Uncounted(h, p))
        = Cardinality(VotesFor(mapMasternodePayeeVotes, h, p))
  BY DEF TallyExact
<1> QED
  BY <1>1, <1>2, <1>3, FS_EmptySet

\* Steps that leave votes, tallies and the votes to be counted alone.
LEMMA SameTally ==
  ASSUME TallyExact,
         UNCHANGED <<mapMasternodePayeeVotes, mapMasternodeBlocks>>,
         \A h, p : Uncounted(h, p)' = Uncounted(h, p)
  PROVE  TallyExact'
BY DEF TallyExact

\* There are never more than finitely many votes, saved ones included.
LEMMA StepFinite ==
  ASSUME FinitelyMany, [Next]_vars
  PROVE  FinitelyMany'
<1>1. ASSUME NEW t \in Thread, StoreWinner(t) PROVE FinitelyMany'
  <2>1. IsFiniteSet(mapMasternodePayeeVotes \cup {adding[t].winner})
    BY FS_AddElement DEF FinitelyMany
  <2> QED
    BY <1>1, <2>1 DEF StoreWinner, FinitelyMany, file
<1>2. CASE CleanPaymentList
  <2>1. IsFiniteSet(mapMasternodePayeeVotes \ OldVotes(mapMasternodePayeeVotes))
    BY FS_Subset DEF FinitelyMany
  <2> QED
    BY <1>2, <2>1 DEF CleanPaymentList, FinitelyMany, file
<1>3. ASSUME NEW votes, NEW blocks, IsFiniteSet(votes), Load(votes, blocks)
      PROVE  IsFiniteSet(mapMasternodePayeeVotes') /\ IsFiniteSet(saved')
  <2>1. IsFiniteSet(votes \ OldVotes(votes))
    BY <1>3, FS_Subset
  <2> QED
    BY <1>3, <2>1, FS_EmptySet DEF Load
<1>4. CASE DumpBlocksAndRestart
  BY <1>3, <1>4 DEF DumpBlocksAndRestart, FinitelyMany
<1>5. CASE Crash
  BY <1>3, <1>5 DEF Crash, FinitelyMany
<1>6. CASE DumpVotes
  BY <1>6 DEF DumpVotes, FinitelyMany
<1>7. CASE \/ \E w \in Winner : MnwAccept(w) \/ MnwBadSignature(w)
           \/ \E p \in Payee : ProcessBlock(p)
           \/ \E t \in Thread : CountWinner(t)
           \/ ConnectBlock \/ DisconnectBlock \/ UNCHANGED vars
  BY <1>7 DEF MnwAccept, MnwBadSignature, ProcessBlock, CountWinner, ConnectBlock,
              DisconnectBlock, vars, file, FinitelyMany
<1> QED
  BY <1>1, <1>2, <1>4, <1>5, <1>6, <1>7 DEF Next

\* A shutdown that has not been disturbed holds the votes there are, none of
\* them still to be counted: whatever changes that disturbs it.
LEMMA StepQuiet ==
  ASSUME TypeOK, QuietDump, [Next]_vars
  PROVE  QuietDump'
<1>0. adding \in [Thread -> Adding]
  BY DEF TypeOK
<1>1. ASSUME NEW w \in Winner, MnwAccept(w) PROVE QuietDump'
  <2>1. \A t \in Thread : adding'[t].step = "count" => adding[t].step = "count"
    BY <1>0, <1>1 DEF MnwAccept
  <2> QED
    BY <1>1, <2>1 DEF MnwAccept, QuietDump, file
<1>2. ASSUME NEW p \in Payee, ProcessBlock(p) PROVE QuietDump'
  <2>1. \A t \in Thread : adding'[t].step = "count" => adding[t].step = "count"
    BY <1>0, <1>2 DEF ProcessBlock
  <2> QED
    BY <1>2, <2>1 DEF ProcessBlock, QuietDump, file
<1>3. ASSUME NEW t \in Thread, StoreWinner(t) PROVE QuietDump'
  <2>1. CASE adding[t].winner \in mapMasternodePayeeVotes
    <3>1. \A u \in Thread : adding'[u].step = "count" => adding[u].step = "count"
      BY <1>0, <1>3, <2>1 DEF StoreWinner, Idle
    <3> QED
      BY <1>3, <2>1, <3>1 DEF StoreWinner, QuietDump, file
  <2>2. CASE adding[t].winner \notin mapMasternodePayeeVotes
    BY <1>3, <2>2 DEF StoreWinner, QuietDump, file
  <2> QED
    BY <2>1, <2>2
<1>4. ASSUME NEW t \in Thread, CountWinner(t) PROVE QuietDump'
  BY <1>4 DEF CountWinner, QuietDump, file
<1>5. CASE CleanPaymentList
  <2>1. CASE OldVotes(mapMasternodePayeeVotes) = {}
    BY <1>5, <2>1 DEF CleanPaymentList, QuietDump, file
  <2>2. CASE OldVotes(mapMasternodePayeeVotes) # {}
    BY <1>5, <2>2 DEF CleanPaymentList, QuietDump, file
  <2> QED
    BY <2>1, <2>2
<1>6. CASE DumpVotes
  BY <1>6 DEF DumpVotes, QuietDump
<1>7. CASE DumpBlocksAndRestart \/ Crash
  BY <1>7 DEF DumpBlocksAndRestart, Crash, Load, QuietDump
<1>8. CASE \/ \E w \in Winner : MnwBadSignature(w)
           \/ ConnectBlock \/ DisconnectBlock \/ UNCHANGED vars
  BY <1>8 DEF MnwBadSignature, ConnectBlock, DisconnectBlock, vars, file, QuietDump
<1> QED
  BY <1>1, <1>2, <1>3, <1>4, <1>5, <1>6, <1>7, <1>8 DEF Next

\* Votes and tallies, in memory and in the file, stay in step for as long as no
\* disturbed shutdown has written the file.
LEMMA StepExact ==
  ASSUME TypeOK, AddedInTime, TallyInv, [Next]_vars, ~ torn'
  PROVE  TallyExact' /\ FileExact'
<1>0. ~ torn
  BY DEF Next, MnwAccept, MnwBadSignature, ProcessBlock, StoreWinner, CountWinner,
         ConnectBlock, DisconnectBlock, CleanPaymentList, DumpVotes,
         DumpBlocksAndRestart, Crash, vars, file
<1>a. TallyExact /\ FileExact /\ QuietDump /\ FinitelyMany
  BY <1>0 DEF TallyInv
<1>1. ASSUME NEW w \in Winner, MnwAccept(w) PROVE TallyExact' /\ FileExact'
  <2>1. \A h, p : Uncounted(h, p)' = Uncounted(h, p)
    BY <1>1 DEF MnwAccept, Uncounted, TypeOK, Idle
  <2> QED
    BY <1>1, <1>a, <2>1, SameTally DEF MnwAccept, FileExact, file
<1>2. ASSUME NEW w \in Winner, MnwBadSignature(w) PROVE TallyExact' /\ FileExact'
  <2>1. \A h, p : Uncounted(h, p)' = Uncounted(h, p)
    BY <1>2 DEF MnwBadSignature, Uncounted
  <2> QED
    BY <1>2, <1>a, <2>1, SameTally DEF MnwBadSignature, FileExact, file
<1>3. ASSUME NEW p \in Payee, ProcessBlock(p) PROVE TallyExact' /\ FileExact'
  <2>1. \A h, q : Uncounted(h, q)' = Uncounted(h, q)
    BY <1>3 DEF ProcessBlock, Uncounted, TypeOK, Idle
  <2> QED
    BY <1>3, <1>a, <2>1, SameTally DEF ProcessBlock, FileExact, file
<1>4. ASSUME NEW t \in Thread, StoreWinner(t) \/ CountWinner(t)
      PROVE  TallyExact' /\ FileExact'
  <2>1. TallyExact'
    BY <1>4, <1>a, AddingTally
  <2>2. UNCHANGED mnpayments_dat
    BY <1>4 DEF StoreWinner, CountWinner, file
  <2> QED
    BY <1>a, <2>1, <2>2 DEF FileExact
<1>5. CASE ConnectBlock \/ DisconnectBlock
  <2>1. \A h, p : Uncounted(h, p)' = Uncounted(h, p)
    BY <1>5 DEF ConnectBlock, DisconnectBlock, Uncounted
  <2> QED
    BY <1>5, <1>a, <2>1, SameTally DEF ConnectBlock, DisconnectBlock, FileExact, file
<1>6. CASE CleanPaymentList
  <2>1. TallyExact'
    BY <1>6, <1>a, CleanTally
  <2> QED
    BY <1>6, <1>a, <2>1 DEF CleanPaymentList, FileExact, file
<1>7. CASE DumpVotes
  <2>1. \A h, p : Uncounted(h, p)' = Uncounted(h, p)
    BY <1>7 DEF DumpVotes, Uncounted
  <2> QED
    BY <1>7, <1>a, <2>1, SameTally DEF DumpVotes, FileExact
<1>8. CASE DumpBlocksAndRestart
  <2>1. dumping /\ ~ disturbed
    BY <1>8 DEF DumpBlocksAndRestart
  <2>2. \A h \in Height \ {0}, p \in Payee :
          CountOf(mapMasternodeBlocks, h, p) = Cardinality(VotesFor(saved, h, p))
    BY <1>a, <2>1, DumpMatches
  <2>3. IsFiniteSet(saved) /\ mapMasternodeBlocks \in [Height -> Tally \cup {None}]
    BY <1>a DEF FinitelyMany, TypeOK
  <2>4. TallyExact'
    BY <1>8, <2>2, <2>3, LoadTally DEF DumpBlocksAndRestart
  <2>5. mnpayments_dat'.votes = saved /\ mnpayments_dat'.blocks = mapMasternodeBlocks
    BY <1>8 DEF DumpBlocksAndRestart
  <2> QED
    BY <2>2, <2>4, <2>5 DEF FileExact
<1>9. CASE Crash
  <2>1. TallyExact'
    BY <1>9, <1>a, LoadTally DEF Crash, FileExact, FinitelyMany, TypeOK
  <2> QED
    BY <1>9, <1>a, <2>1 DEF Crash, FileExact
<1>10. CASE UNCHANGED vars
  <2>1. \A h, p : Uncounted(h, p)' = Uncounted(h, p)
    BY <1>10 DEF vars, Uncounted
  <2> QED
    BY <1>10, <1>a, <2>1, SameTally DEF vars, file, FileExact
<1> QED
  BY <1>1, <1>2, <1>3, <1>4, <1>5, <1>6, <1>7, <1>8, <1>9, <1>10 DEF Next

\* The inductive step.
LEMMA StepTally ==
  ASSUME TypeOK, AddedInTime, TallyInv, [Next]_vars
  PROVE  TallyInv'
<1>1. QuietDump /\ FinitelyMany
  BY DEF TallyInv
<1>2. QuietDump' /\ FinitelyMany'
  BY <1>1, StepQuiet, StepFinite
<1>3. ~ torn' => TallyExact' /\ FileExact'
  BY StepExact
<1> QED
  BY <1>2, <1>3 DEF TallyInv

\* Nothing is stored and nothing counted when a node first starts.
LEMMA InitTally == Init => AddedInTime /\ TallyInv
<1> SUFFICES ASSUME Init PROVE AddedInTime /\ TallyInv
  OBVIOUS
<1>1. AddedInTime
  BY DEF Init, AddedInTime
<1>2. ASSUME NEW h \in Height, NEW p \in Payee
      PROVE  /\ VotesFor({}, h, p) = {} /\ Uncounted(h, p) = {}
             /\ CountOf(mapMasternodeBlocks, h, p) = 0
             /\ CountOf(mnpayments_dat.blocks, h, p) = 0
  BY DEF Init, VotesFor, Uncounted, Idle, CountOf
<1>3. /\ mapMasternodePayeeVotes = {} /\ mnpayments_dat.votes = {}
      /\ dumping = FALSE /\ saved = {}
  BY DEF Init
<1>4. Cardinality({}) = 0 /\ IsFiniteSet({})
  BY FS_EmptySet
<1>5. TallyExact
  BY <1>2, <1>3, <1>4 DEF TallyExact
<1>6. FileExact
  BY <1>2, <1>3, <1>4 DEF FileExact
<1>7. QuietDump /\ FinitelyMany
  BY <1>3, <1>4 DEF QuietDump, FinitelyMany
<1> QED
  BY <1>1, <1>5, <1>6, <1>7 DEF TallyInv

\* The tally of every block (vecPayments) is the number of votes stored for it,
\* whatever threads, clean-up, crashes and restarts do between the store of a
\* vote and its count, until a shutdown (init.cpp:213) saves votes and tallies of
\* different moments.
THEOREM TallyIsExact == Spec => []TallyMatchesVotes
<1>1. TypeOK /\ AddedInTime /\ TallyInv /\ [Next]_vars
        => (TypeOK /\ AddedInTime /\ TallyInv)'
  BY StepType, StepInTime, StepTally
<1>2. TallyInv => TallyMatchesVotes
  BY DEF TallyInv, TallyMatchesVotes
<1> QED
  BY InitType, InitTally, <1>1, <1>2, PTL DEF Spec

\* Votes of one block and payee are votes of different masternodes.
LEMMA OneVotePerMasternode ==
  ASSUME NEW votes \in SUBSET Winner, IsFiniteSet(votes), NEW h, NEW p
  PROVE  Cardinality({w.mn : w \in VotesFor(votes, h, p)})
           = Cardinality(VotesFor(votes, h, p))
<1> DEFINE S == VotesFor(votes, h, p)
           T == {w.mn : w \in S}
           f == [w \in S |-> w.mn]
<1>1. IsFiniteSet(S)
  BY VotesForFinite
<1>2. ASSUME NEW w \in S, NEW x \in S, w.mn = x.mn PROVE w = x
  BY <1>2 DEF VotesFor, Winner
<1>3. f \in Bijection(S, T)
  BY <1>2 DEF Bijection, Injection, Surjection, IsInjective
<1>4. ExistsBijection(S, T)
  BY <1>3 DEF ExistsBijection
<1> QED
  BY <1>1, <1>4, FS_Bijection

\* A payee that IsTransactionValid insists on has the stored votes of at least
\* MNPAYMENTS_SIGNATURES_REQUIRED different masternodes, until a shutdown saves
\* votes and tallies of different moments.
THEOREM EnforcedIsSigned == Spec => []EnoughSignatures
<1>1. TypeOK /\ AddedInTime /\ TallyInv /\ [Next]_vars
        => (TypeOK /\ AddedInTime /\ TallyInv)'
  BY StepType, StepInTime, StepTally
<1>2. TypeOK /\ TallyInv => EnoughSignatures
  <2> SUFFICES ASSUME TypeOK, TallyInv, ~ torn,
                      NEW h \in Height \ {0}, NEW p \in Enforced(h)
               PROVE  Cardinality({w.mn : w \in VotesFor(mapMasternodePayeeVotes, h, p)})
                        >= Required
    BY DEF EnoughSignatures, Signed
  <2>1. p \in Payee /\ CountOf(mapMasternodeBlocks, h, p) >= Required
    BY DEF Enforced, CountOf
  <2>2. CountOf(mapMasternodeBlocks, h, p) \in Nat
    BY <2>1, CountType DEF TypeOK
  <2>3. Cardinality(Uncounted(h, p)) \in Nat
    BY ThreadsFinite DEF Uncounted
  <2>4. CountOf(mapMasternodeBlocks, h, p) + Cardinality(Uncounted(h, p))
          = Cardinality(VotesFor(mapMasternodePayeeVotes, h, p))
    BY <2>1 DEF TallyInv, TallyExact
  <2>5. Cardinality({w.mn : w \in VotesFor(mapMasternodePayeeVotes, h, p)})
          = Cardinality(VotesFor(mapMasternodePayeeVotes, h, p))
    BY OneVotePerMasternode DEF TypeOK, TallyInv, FinitelyMany
  <2> QED
    BY <2>1, <2>2, <2>3, <2>4, <2>5, PaymentsAssumption
<1> QED
  BY InitType, InitTally, <1>1, <1>2, PTL DEF Spec
=============================================================================
