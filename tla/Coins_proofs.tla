---------------------------- MODULE Coins_proofs ----------------------------
(***************************************************************************)
(* Proofs about Coins, for every set of transactions, coins and blocks.    *)
(*                                                                         *)
(* The argument: the flags of an entry say the truth about the layer below *)
(* (TipSound, ViewSound), and what the view took over from a record stays  *)
(* in pcoinsTip while the view stands on it (Pulled).  So a batch write    *)
(* gives the parent exactly what a reader of the child saw                 *)
(* (MergedVisible), and no other step changes what is seen.                *)
(***************************************************************************)
EXTENDS Coins, TLAPS

\* FRESH: nothing in the database.  Not DIRTY: the same as the database.
TipSound ==
    \A t \in TxId : tip[t] # NoEntry =>
        /\ tip[t].fresh => db[t] = Pruned
        /\ ~tip[t].dirty => tip[t].coins = db[t]

\* The same of the view, over what is seen through pcoinsTip.
ViewSound ==
    \A t \in TxId : view[t] # NoEntry =>
        /\ view[t].fresh => TipCoins[t] = Pruned
        /\ ~view[t].dirty => view[t].coins = TipCoins[t]

\* What the view has and pcoinsTip has not is FRESH.
Pulled ==
    \A t \in TxId : view[t] # NoEntry /\ tip[t] = NoEntry => view[t].fresh

IndInv ==
    /\ TypeOK
    /\ TipSound
    /\ ViewSound
    /\ Pulled
    /\ DiskRepresentsBest
    /\ TipRepresentsBest

-----------------------------------------------------------------------------
(* What the operators do to the coins that are seen.                       *)

\* A view that holds nothing shows its parent.
LEMMA VisibleEmpty ==
    ASSUME NEW m \in CoinsMap
    PROVE  Visible(Empty, m) = m
  BY DEF Visible, Empty, CoinsMap

LEMMA VisibleType ==
    ASSUME NEW cache \in Cache, NEW m \in CoinsMap
    PROVE  Visible(cache, m) \in CoinsMap
  BY CoinsAssumption DEF Visible, Cache, CoinsMap, Entry

\* Fetching an entry into pcoinsTip changes nothing that is seen, keeps what
\* is there, and sets true flags.
LEMMA TipFetchedSame ==
    ASSUME TypeOK, TipSound, NEW t \in TxId
    PROVE  /\ TipFetched(t) \in Cache
           /\ Visible(TipFetched(t), db) = TipCoins
           /\ \A u \in TxId : tip[u] # NoEntry => TipFetched(t)[u] = tip[u]
           /\ \A u \in TxId : TipFetched(t)[u] # NoEntry =>
                /\ TipFetched(t)[u].fresh => db[u] = Pruned
                /\ ~TipFetched(t)[u].dirty => TipFetched(t)[u].coins = db[u]
           /\ TipHas(t) => TipGet(t) = TipCoins[t]
           /\ ~TipHas(t) => TipCoins[t] = Pruned
           /\ TipHas(t) <=> TipFetched(t)[t] # NoEntry
  <1> DEFINE e == [coins |-> db[t], dirty |-> FALSE, fresh |-> FALSE]
  <1>1. e \in Entry /\ e # NoEntry /\ e.coins = db[t] /\ ~e.dirty /\ ~e.fresh
    <2>1. db[t] \in Coins
      BY DEF TypeOK, CoinsMap
    <2>2. e \in Entry
      BY <2>1 DEF Entry
    <2>3. NoEntry \notin Entry
      BY CoinsAssumption DEF Entry
    <2> QED BY <2>2, <2>3
  <1>2. CASE tip[t] # NoEntry \/ db[t] = Pruned
    <2>1. TipFetched(t) = tip
      BY <1>2 DEF TipFetched, FetchCoins
    <2> QED
      BY <2>1, <1>2 DEF TypeOK, TipSound, TipCoins, Visible, TipHas, TipGet
  <1>3. CASE tip[t] = NoEntry /\ db[t] # Pruned
    <2>0. TipFetched(t) = [tip EXCEPT ![t] =
                [coins |-> db[t], dirty |-> FALSE, fresh |-> db[t] = Pruned]]
      BY <1>3 DEF TipFetched, FetchCoins
    <2>1. TipFetched(t) = [tip EXCEPT ![t] = e]
      BY <2>0, <1>3
    <2>2. TipFetched(t) \in Cache
      BY <2>1, <1>1 DEF TypeOK, Cache
    <2>3. /\ TipFetched(t)[t] = e
          /\ \A u \in TxId : u # t => TipFetched(t)[u] = tip[u]
      BY <2>1 DEF TypeOK, Cache
    <2> HIDE DEF e
    <2> QED
      BY <1>1, <1>3, <2>2, <2>3
      DEF TipSound, TipCoins, Visible, TipHas, TipGet
  <1> QED
    BY <1>2, <1>3

\* Writing a cache to pcoinsTip gives it the coins the cache showed, and
\* keeps its flags true.
LEMMA BatchWriteVisible ==
    ASSUME IndInv
    PROVE  /\ BatchWrite(tip, view) \in Cache
           /\ Visible(BatchWrite(tip, view), db) = ViewCoins
           /\ \A t \in TxId : BatchWrite(tip, view)[t] # NoEntry =>
                /\ BatchWrite(tip, view)[t].fresh => db[t] = Pruned
                /\ ~BatchWrite(tip, view)[t].dirty
                      => BatchWrite(tip, view)[t].coins = db[t]
  <1>1. ASSUME NEW t \in TxId
        PROVE  LET m == Merged(tip[t], view[t])
               IN  /\ m \in Entry \cup {NoEntry}
                   /\ ViewCoins[t] = IF m = NoEntry THEN db[t] ELSE m.coins
                   /\ m # NoEntry => /\ m.fresh => db[t] = Pruned
                                     /\ ~m.dirty => m.coins = db[t]
    <2> DEFINE p == tip[t]
               e == view[t]
               m == Merged(p, e)
    <2>1. /\ p \in Entry \cup {NoEntry} /\ e \in Entry \cup {NoEntry}
          /\ db[t] \in Coins
          /\ NoEntry \notin Entry
      BY CoinsAssumption DEF IndInv, TypeOK, Cache, CoinsMap, Entry
    <2>2. /\ TipCoins[t] = IF p = NoEntry THEN db[t] ELSE p.coins
          /\ ViewCoins[t] = IF e = NoEntry THEN TipCoins[t] ELSE e.coins
      BY DEF ViewCoins, TipCoins, Visible
    <2>3. /\ p # NoEntry => /\ p.fresh => db[t] = Pruned
                            /\ ~p.dirty => p.coins = db[t]
          /\ e # NoEntry => /\ e.fresh => TipCoins[t] = Pruned
                            /\ ~e.dirty => e.coins = TipCoins[t]
          /\ e # NoEntry /\ p = NoEntry => e.fresh
      BY DEF IndInv, TipSound, ViewSound, Pulled
    <2> HIDE DEF p, e
    <2>4. CASE e = NoEntry \/ ~e.dirty
      <3>1. m = p
        BY <2>4 DEF Merged
      <3> QED BY <3>1, <2>1, <2>2, <2>3, <2>4 DEF p, e
    <2>5. CASE /\ ~(e = NoEntry \/ ~e.dirty)
               /\ e.coins = Pruned /\ (p = NoEntry \/ p.fresh)
      <3>1. m = NoEntry
        BY <2>5 DEF Merged
      <3>2. db[t] = Pruned
        BY <2>2, <2>3, <2>5
      <3> QED BY <3>1, <3>2, <2>2, <2>5 DEF p, e
    <2>6. CASE /\ ~(e = NoEntry \/ ~e.dirty)
               /\ ~(e.coins = Pruned /\ (p = NoEntry \/ p.fresh))
      <3> DEFINE f == IF p = NoEntry THEN TRUE ELSE p.fresh
      <3>1. m = [coins |-> e.coins, dirty |-> TRUE, fresh |-> f]
        BY <2>6 DEF Merged
      <3>2. e.coins \in Coins /\ f \in BOOLEAN
        BY <2>1, <2>6 DEF Entry
      <3>5. f => db[t] = Pruned
        BY <2>2, <2>3, <2>6
      <3> HIDE DEF m, f
      <3>3. m \in Entry
        BY <3>1, <3>2 DEF Entry
      <3>4. m.coins = e.coins /\ m.dirty /\ m.fresh = f
        BY <3>1
      <3>6. ViewCoins[t] = m.coins /\ m # NoEntry
        BY <3>3, <3>4, <2>1, <2>2, <2>6
      <3> QED BY <3>3, <3>4, <3>5, <3>6 DEF p, e, m
    <2> QED BY <2>4, <2>5, <2>6 DEF p, e
  <1>2. \A t \in TxId : BatchWrite(tip, view)[t] = Merged(tip[t], view[t])
    BY DEF BatchWrite
  <1>3. BatchWrite(tip, view) \in Cache
    BY <1>1 DEF BatchWrite, Cache
  <1>4. Visible(BatchWrite(tip, view), db) = ViewCoins
    BY <1>1, <1>2 DEF Visible, ViewCoins
  <1> QED
    BY <1>1, <1>2, <1>3, <1>4

\* ModifyCoins on the view.
LEMMA ModifyVisible ==
    ASSUME IndInv, NEW t \in TxId, NEW c \in Coins, ModifyView(t, c)
    PROVE  /\ view' \in Cache
           /\ TipCoins' = TipCoins
           /\ ViewCoins' = [ViewCoins EXCEPT ![t] = c]
           /\ ViewSound'
           /\ Pulled'
  <1>0. /\ tip \in Cache /\ db \in CoinsMap /\ view \in Cache
        /\ NoEntry \notin Entry
    BY CoinsAssumption DEF IndInv, TypeOK, Entry
  <1>1. /\ tip' \in Cache
        /\ TipCoins' = TipCoins
        /\ \A u \in TxId : tip[u] # NoEntry => tip'[u] # NoEntry
    BY TipFetchedSame, <1>0 DEF IndInv, ModifyView, TipCoins, Visible
  <1> DEFINE fresh == IF view[t] # NoEntry THEN view[t].fresh
                      ELSE ~TipHas(t) \/ TipGet(t) = Pruned
             e == IF fresh /\ c = Pruned THEN NoEntry
                  ELSE [coins |-> c, dirty |-> TRUE, fresh |-> fresh]
  <1>2. fresh \in BOOLEAN
    BY <1>0 DEF Cache, Entry
  <1>3. fresh => TipCoins[t] = Pruned
    BY TipFetchedSame DEF IndInv, ViewSound
  <1>4. tip'[t] = NoEntry => fresh
    <2>1. CASE view[t] # NoEntry
      BY <2>1, <1>1 DEF IndInv, Pulled
    <2>2. CASE view[t] = NoEntry
      <3>1. tip' = TipFetched(t)
        BY <2>2 DEF ModifyView
      <3> QED BY <2>2, <3>1, TipFetchedSame DEF IndInv
    <2> QED BY <2>1, <2>2
  <1>5. view' = [view EXCEPT ![t] = e]
    BY DEF ModifyView, ModifyCoins
  <1> HIDE DEF fresh
  <1>6. e \in Entry \cup {NoEntry}
    BY <1>2 DEF Entry
  <1>7. /\ view' \in Cache
        /\ view'[t] = e
        /\ \A u \in TxId : u # t => view'[u] = view[u]
    BY <1>0, <1>5, <1>6 DEF Cache
  <1>8. ViewCoins' = [ViewCoins EXCEPT ![t] = c]
    <2>1. \A u \in TxId : ViewCoins'[u] = IF view'[u] = NoEntry
                                          THEN TipCoins'[u] ELSE view'[u].coins
      BY DEF ViewCoins, Visible
    <2>2. ViewCoins'[t] = c
      <3>1. CASE fresh /\ c = Pruned
        BY <3>1, <2>1, <1>1, <1>3, <1>7
      <3>2. CASE ~(fresh /\ c = Pruned)
        <4>1. e \in Entry /\ e.coins = c
          BY <3>2, <1>2 DEF Entry
        <4> QED BY <4>1, <2>1, <1>0, <1>7
      <3> QED BY <3>1, <3>2
    <2>3. \A u \in TxId : u # t => ViewCoins'[u] = ViewCoins[u]
      BY <2>1, <1>1, <1>7 DEF ViewCoins, Visible
    <2>4. /\ ViewCoins = [u \in TxId |-> ViewCoins[u]]
          /\ ViewCoins' = [u \in TxId |-> ViewCoins'[u]]
      BY DEF ViewCoins, Visible
    <2> QED BY <2>2, <2>3, <2>4
  <1>9. e # NoEntry => e.fresh = fresh /\ e.dirty
    BY <1>0, <1>6
  <1>10. ViewSound'
    BY <1>1, <1>3, <1>7, <1>9 DEF IndInv, ViewSound
  <1>11. Pulled'
    BY <1>1, <1>4, <1>7, <1>9 DEF IndInv, Pulled
  <1> QED
    BY <1>1, <1>7, <1>8, <1>10, <1>11

-----------------------------------------------------------------------------
(* The invariant.                                                          *)

LEMMA InitInv == Init => IndInv
  <1> SUFFICES ASSUME Init PROVE IndInv
    OBVIOUS
  <1>1. TypeOK
    BY CoinsAssumption DEF Init, TypeOK, CoinsMap, Cache, Empty
  <1>2. \A t \in TxId : tip[t] = NoEntry /\ view[t] = NoEntry
    BY DEF Init, Empty
  <1>3. TipSound /\ ViewSound /\ Pulled
    BY <1>2 DEF TipSound, ViewSound, Pulled
  <1>4. TipCoins = db
    BY VisibleEmpty, <1>1 DEF Init, TipCoins, TypeOK
  <1>5. dbBest = Genesis /\ TipGetBestBlock = Genesis /\ utxo[Genesis] = db
    BY CoinsAssumption DEF Init, TipGetBestBlock
  <1> QED
    BY <1>1, <1>3, <1>4, <1>5 DEF IndInv, DiskRepresentsBest, TipRepresentsBest

\* Reading: neither the coins that are seen nor what was recorded of them
\* changes.
LEMMA ReadInv ==
    ASSUME IndInv, NEW t \in TxId, ReadTip(t) \/ ReadView(t)
    PROVE  IndInv' /\ TipCoins' = TipCoins /\ ViewCoins' = ViewCoins
  <1> USE DEF IndInv
  <1>0. NoEntry \notin Entry
    BY CoinsAssumption DEF Entry
  <1>1. tip' = tip \/ tip' = TipFetched(t)
    BY DEF ReadTip, ReadView
  <1>2. /\ tip' \in Cache /\ TipCoins' = TipCoins /\ TipSound'
        /\ \A u \in TxId : tip[u] # NoEntry => tip'[u] # NoEntry
    <2>1. db' = db
      BY DEF ReadTip, ReadView
    <2>2. CASE tip' = tip
      BY <2>1, <2>2 DEF TypeOK, TipCoins, Visible, TipSound
    <2>3. CASE tip' = TipFetched(t)
      BY <2>1, <2>3, TipFetchedSame DEF TypeOK, TipCoins, TipSound
    <2> QED BY <1>1, <2>2, <2>3
  <1>3. CASE view' = view
    <2>1. ViewCoins' = ViewCoins
      BY <1>2, <1>3 DEF ViewCoins, Visible
    <2>2. TypeOK' /\ ViewSound' /\ Pulled'
      BY <1>2, <1>3 DEF ReadTip, ReadView, TypeOK, ViewSound, Pulled
    <2>3. DiskRepresentsBest' /\ TipRepresentsBest'
      BY <1>2 DEF ReadTip, ReadView, DiskRepresentsBest, TipRepresentsBest,
                  TipGetBestBlock
    <2> QED BY <1>2, <2>1, <2>2, <2>3
  <1>4. CASE view' # view
    <2>1. /\ ReadView(t)
          /\ view[t] = NoEntry /\ TipHas(t)
          /\ view' = [view EXCEPT ![t] =
               [coins |-> TipGet(t), dirty |-> FALSE, fresh |-> TipGet(t) = Pruned]]
          /\ tip' = TipFetched(t)
      BY <1>4 DEF ReadTip, ReadView, FetchCoins
    <2>2. TipGet(t) = TipCoins[t] /\ TipCoins[t] \in Coins
      BY <2>1, TipFetchedSame, VisibleType DEF TypeOK, TipCoins, CoinsMap
    <2> DEFINE e == [coins |-> TipCoins[t], dirty |-> FALSE,
                     fresh |-> TipCoins[t] = Pruned]
    <2>3. e \in Entry /\ e.coins = TipCoins[t] /\ ~e.dirty
          /\ (e.fresh <=> TipCoins[t] = Pruned)
      <3>1. (TipCoins[t] = Pruned) \in BOOLEAN
        OBVIOUS
      <3> QED BY <2>2, <3>1 DEF Entry
    <2>4. view' = [view EXCEPT ![t] = e]
      BY <2>1, <2>2
    <2> HIDE DEF e
    <2>5. /\ view' \in Cache /\ view'[t] = e /\ e # NoEntry
          /\ \A u \in TxId : u # t => view'[u] = view[u]
      BY <1>0, <2>3, <2>4 DEF TypeOK, Cache
    <2>6. tip'[t] # NoEntry
      BY <2>1, TipFetchedSame
    <2>7. ViewCoins' = ViewCoins
      BY <1>2, <2>1, <2>3, <2>5 DEF ViewCoins, Visible
    <2>8. ViewSound' /\ Pulled'
      BY <1>2, <2>3, <2>5, <2>6 DEF ViewSound, Pulled
    <2>9. TypeOK'
      BY <1>2, <2>1, <2>5 DEF ReadView, TypeOK
    <2>10. DiskRepresentsBest' /\ TipRepresentsBest'
      BY <1>2, <2>1 DEF ReadView, DiskRepresentsBest, TipRepresentsBest,
                        TipGetBestBlock
    <2> QED BY <1>2, <2>7, <2>8, <2>9, <2>10
  <1> QED BY <1>3, <1>4

LEMMA ModifyInv ==
    ASSUME IndInv, NEW t \in TxId, NEW c \in Coins, ModifyView(t, c)
    PROVE  IndInv'
  <1>1. /\ view' \in Cache /\ TipCoins' = TipCoins /\ ViewSound' /\ Pulled'
    BY ModifyVisible
  <1>2. tip' \in Cache /\ TipSound'
    BY TipFetchedSame DEF IndInv, TypeOK, ModifyView, TipSound
  <1>3. TypeOK'
    BY <1>1, <1>2 DEF IndInv, TypeOK, ModifyView
  <1>4. DiskRepresentsBest' /\ TipRepresentsBest'
    BY <1>1 DEF IndInv, ModifyView, DiskRepresentsBest, TipRepresentsBest,
                TipGetBestBlock
  <1> QED BY <1>1, <1>2, <1>3, <1>4 DEF IndInv

\* What is recorded of the blocks stays, and of the new tip it is what the
\* view showed.
LEMMA FlushViewInv ==
    ASSUME IndInv, NEW b \in Block, FlushView(b)
    PROVE  IndInv' /\ TipCoins' = ViewCoins
  <1> USE DEF IndInv
  <1>1. tip' = BatchWrite(tip, view) /\ db' = db /\ view' = Empty
    BY DEF FlushView
  <1>2. tip' \in Cache /\ TipCoins' = ViewCoins /\ TipSound'
    BY <1>1, BatchWriteVisible DEF TipCoins, TipSound
  <1>3. ViewSound' /\ Pulled'
    BY <1>1 DEF ViewSound, Pulled, Empty
  <1>4. ViewCoins \in CoinsMap
    BY VisibleType DEF TypeOK, ViewCoins, TipCoins
  <1>5. TypeOK'
    BY <1>1, <1>2, <1>4 DEF FlushView, TypeOK, Cache, Empty
  <1>6. TipRepresentsBest'
    BY <1>2, CoinsAssumption DEF FlushView, TypeOK, TipRepresentsBest, TipGetBestBlock
  <1>7. DiskRepresentsBest'
    <2>1. utxo[dbBest] # Unknown
      BY CoinsAssumption DEF TypeOK, DiskRepresentsBest, CoinsMap
    <2>2. utxo'[dbBest] = utxo[dbBest]
      BY <2>1 DEF FlushView, TypeOK
    <2> QED BY <2>2 DEF FlushView, DiskRepresentsBest
  <1> QED BY <1>2, <1>3, <1>5, <1>6, <1>7

\* The database gets what pcoinsTip showed.
LEMMA FlushTipInv ==
    ASSUME IndInv, FlushTip
    PROVE  IndInv' /\ db' = TipCoins /\ TipCoins' = TipCoins
  <1> USE DEF IndInv
  <1>1. db' = TipCoins
    <2>1. \A t \in TxId : TipCoins[t] = IF tip[t] # NoEntry /\ tip[t].dirty
                                         THEN tip[t].coins ELSE db[t]
      BY DEF TipCoins, Visible, TipSound
    <2> QED BY <2>1 DEF FlushTip, DbBatchWrite, TipCoins, Visible
  <1>2. db' \in CoinsMap
    BY <1>1, VisibleType DEF TypeOK, TipCoins
  <1>3. TipCoins' = db'
    BY <1>2 DEF FlushTip, TipCoins, Visible, Empty, CoinsMap
  <1>4. /\ dbBest' = TipGetBestBlock /\ TipGetBestBlock' = TipGetBestBlock
        /\ dbBest' \in Block
    BY CoinsAssumption DEF FlushTip, TipGetBestBlock, TypeOK
  <1>5. TypeOK'
    BY <1>2, <1>4 DEF FlushTip, TypeOK, Cache, Empty
  <1>6. TipSound' /\ ViewSound' /\ Pulled'
    BY DEF FlushTip, TypeOK, TipSound, ViewSound, Pulled, Empty
  <1>7. DiskRepresentsBest' /\ TipRepresentsBest'
    BY <1>1, <1>3, <1>4 DEF FlushTip, DiskRepresentsBest, TipRepresentsBest
  <1> QED BY <1>1, <1>3, <1>5, <1>6, <1>7

\* The steps that only open or empty caches.
LEMMA OtherInv ==
    ASSUME IndInv, OpenView \/ DiscardView \/ Restart \/ UNCHANGED vars
    PROVE  IndInv'
  <1> USE DEF IndInv
  <1>1. CASE OpenView
    <2>1. TipCoins' = TipCoins /\ TipGetBestBlock' = TipGetBestBlock
          /\ TipGetBestBlock \in Block
      BY <1>1, CoinsAssumption
      DEF OpenView, TipCoins, Visible, TipGetBestBlock, TypeOK
    <2> QED BY <1>1, <2>1 DEF OpenView, TypeOK, TipSound, ViewSound, Pulled,
                              DiskRepresentsBest, TipRepresentsBest
  <1>2. CASE DiscardView
    <2>1. TipCoins' = TipCoins /\ TipGetBestBlock' = TipGetBestBlock
      BY <1>2 DEF DiscardView, TipCoins, Visible, TipGetBestBlock
    <2> QED BY <1>2, <2>1
            DEF DiscardView, TypeOK, TipSound, ViewSound, Pulled, Cache, Empty,
                DiskRepresentsBest, TipRepresentsBest
  <1>3. CASE Restart
    <2>1. TipCoins' = db /\ TipGetBestBlock' = dbBest
      BY <1>3 DEF Restart, TipCoins, Visible, TipGetBestBlock, Empty, TypeOK, CoinsMap
    <2> QED BY <1>3, <2>1
            DEF Restart, TypeOK, TipSound, ViewSound, Pulled, Cache, Empty,
                DiskRepresentsBest, TipRepresentsBest
  <1>4. CASE UNCHANGED vars
    <2>1. TipCoins' = TipCoins /\ TipGetBestBlock' = TipGetBestBlock
      BY <1>4 DEF vars, TipCoins, Visible, TipGetBestBlock
    <2> QED BY <1>4, <2>1 DEF vars, TypeOK, TipSound, ViewSound, Pulled,
                              DiskRepresentsBest, TipRepresentsBest
  <1> QED BY <1>1, <1>2, <1>3, <1>4

LEMMA NextInv == IndInv /\ [Next]_vars => IndInv'
  <1> SUFFICES ASSUME IndInv, [Next]_vars PROVE IndInv'
    OBVIOUS
  <1>1. CASE \E t \in TxId : ReadTip(t) \/ ReadView(t)
    BY <1>1, ReadInv
  <1>2. CASE \E t \in TxId, c \in Coins : ModifyView(t, c)
    BY <1>2, ModifyInv
  <1>3. CASE \E b \in Block : FlushView(b)
    BY <1>3, FlushViewInv
  <1>4. CASE FlushTip
    BY <1>4, FlushTipInv
  <1>5. CASE OpenView \/ DiscardView \/ Restart \/ UNCHANGED vars
    BY <1>5, OtherInv
  <1> QED BY <1>1, <1>2, <1>3, <1>4, <1>5 DEF Next

\* The flags are true, the database and pcoinsTip hold the coins of the block
\* they name, in every reachable state.
THEOREM Invariance == Spec => []IndInv
  BY InitInv, NextInv, PTL DEF Spec

\* Types.
THEOREM TypeCorrect == Spec => []TypeOK
  <1>1. IndInv => TypeOK
    BY DEF IndInv
  <1> QED BY <1>1, Invariance, PTL

\* The assertion in CCoinsViewCache::BatchWrite never fails.
THEOREM AssertionHolds == Spec => []FreshAssertHolds
  <1>1. IndInv => FreshAssertHolds
    BY DEF IndInv, Pulled, FreshAssertHolds
  <1> QED BY <1>1, Invariance, PTL

\* The database holds the coins of the block it names: a crash at any point
\* loses whole blocks only.
THEOREM DiskConsistent == Spec => []DiskRepresentsBest
  <1>1. IndInv => DiskRepresentsBest
    BY DEF IndInv
  <1> QED BY <1>1, Invariance, PTL

\* And so does pcoinsTip.
THEOREM TipConsistent == Spec => []TipRepresentsBest
  <1>1. IndInv => TipRepresentsBest
    BY DEF IndInv
  <1> QED BY <1>1, Invariance, PTL

\* What is written through a modifier is what the view shows next.
THEOREM WritesAreRead == Spec => WriteIsRead
  <1>1. IndInv /\ [Next]_vars =>
           [\A t \in TxId, c \in Coins :
               ModifyView(t, c) => ViewCoins' = [ViewCoins EXCEPT ![t] = c]]_vars
    BY ModifyVisible
  <1> QED BY <1>1, Invariance, PTL DEF Spec, WriteIsRead

-----------------------------------------------------------------------------
(* The caches implement the promise of module CoinView.                    *)

\* Without a view, what is seen through it is the tip.
LEMMA ClosedView ==
    ASSUME TypeOK, ~open
    PROVE  ViewCoins = TipCoins
  BY VisibleEmpty, VisibleType DEF TypeOK, ViewCoins, TipCoins

LEMMA PromiseInit == Init => Promise!Init
  <1> SUFFICES ASSUME Init PROVE Promise!Init
    OBVIOUS
  <1>1. TypeOK
    BY InitInv DEF IndInv
  <1>2. TipCoins = db
    BY VisibleEmpty, <1>1 DEF Init, TipCoins, TypeOK
  <1>3. ViewCoins = TipCoins
    BY <1>1, ClosedView DEF Init
  <1> QED BY <1>2, <1>3 DEF Init, Promise!Init, TipGetBestBlock

LEMMA PromiseStep ==
    IndInv /\ IndInv' /\ [Next]_vars => [Promise!Next]_(Promise!vars)
  <1> SUFFICES ASSUME IndInv, IndInv', [Next]_vars
               PROVE  [Promise!Next]_(Promise!vars)
    OBVIOUS
  <1> USE DEF IndInv
  <1>1. CASE OpenView
    <2>1. /\ TipCoins' = TipCoins /\ ViewCoins' = ViewCoins
          /\ TipGetBestBlock' = TipGetBestBlock
      BY <1>1, CoinsAssumption
      DEF OpenView, ViewCoins, TipCoins, Visible, TipGetBestBlock, TypeOK
    <2>2. Promise!Begin
      BY <1>1, <2>1 DEF OpenView, Promise!Begin
    <2> QED BY <2>2 DEF Promise!Next
  <1>2. ASSUME NEW t \in TxId, ReadTip(t) \/ ReadView(t)
        PROVE  UNCHANGED Promise!vars
    BY <1>2, ReadInv DEF ReadTip, ReadView, TipGetBestBlock, Promise!vars
  <1>3. ASSUME NEW t \in TxId, NEW c \in Coins, ModifyView(t, c)
        PROVE  Promise!Modify(t, c)
    BY <1>3, ModifyVisible DEF ModifyView, TipGetBestBlock, Promise!Modify
  <1>4. ASSUME NEW b \in Block, FlushView(b)
        PROVE  Promise!Commit(b)
    <2>1. TipCoins' = ViewCoins
      BY <1>4, FlushViewInv
    <2>2. ViewCoins' = TipCoins'
      BY <1>4 DEF FlushView, ViewCoins, Visible, Empty, TipCoins
    <2>3. TipGetBestBlock' = b
      BY <1>4, CoinsAssumption DEF FlushView, TipGetBestBlock
    <2> QED BY <1>4, <2>1, <2>2, <2>3 DEF FlushView, Promise!Commit
  <1>5. CASE DiscardView
    <2>1. TipCoins' = TipCoins /\ TipGetBestBlock' = TipGetBestBlock
      BY <1>5 DEF DiscardView, TipCoins, Visible, TipGetBestBlock
    <2>2. ViewCoins' = TipCoins'
      BY <1>5 DEF DiscardView, ViewCoins, Visible, Empty, TipCoins
    <2>3. Promise!Discard
      BY <1>5, <2>1, <2>2 DEF DiscardView, Promise!Discard
    <2> QED BY <2>3 DEF Promise!Next
  <1>6. CASE FlushTip
    <2>1. db' = TipCoins /\ TipCoins' = TipCoins
      BY <1>6, FlushTipInv
    <2>2. ViewCoins' = ViewCoins
      BY <1>6, <2>1 DEF FlushTip, ViewCoins, Visible
    <2>3. dbBest' = TipGetBestBlock /\ TipGetBestBlock' = TipGetBestBlock
      BY <1>6 DEF FlushTip, TipGetBestBlock
    <2>4. Promise!Write
      BY <1>6, <2>1, <2>2, <2>3 DEF FlushTip, Promise!Write
    <2> QED BY <2>4 DEF Promise!Next
  <1>7. CASE Restart
    <2>1. TipCoins' = db /\ TipGetBestBlock' = dbBest
      BY <1>7 DEF Restart, TipCoins, Visible, TipGetBestBlock, Empty, TypeOK, CoinsMap
    <2>2. ViewCoins' = TipCoins'
      BY <1>7 DEF Restart, ViewCoins, Visible, Empty, TipCoins
    <2>3. Promise!Crash
      BY <1>7, <2>1, <2>2 DEF Restart, Promise!Crash
    <2> QED BY <2>3 DEF Promise!Next
  <1>8. CASE UNCHANGED vars
    <2>1. TipCoins' = TipCoins /\ TipGetBestBlock' = TipGetBestBlock
      BY <1>8 DEF vars, TipCoins, Visible, TipGetBestBlock
    <2>2. ViewCoins' = ViewCoins
      BY <1>8, <2>1 DEF vars, ViewCoins, Visible
    <2> QED BY <1>8, <2>1, <2>2 DEF vars, Promise!vars
  <1> QED
    BY <1>1, <1>2, <1>3, <1>4, <1>5, <1>6, <1>7, <1>8 DEF Next, Promise!Next

\* Readers of the three layers see three plain maps: every step of the caches
\* is a step of module CoinView, or changes nothing they see.
THEOREM Refinement == Spec => ImplementsPromise
  <1>1. Spec => Promise!Spec
    BY PromiseInit, PromiseStep, Invariance, PTL DEF Spec, Promise!Spec
  <1> QED BY <1>1 DEF ImplementsPromise
=============================================================================
