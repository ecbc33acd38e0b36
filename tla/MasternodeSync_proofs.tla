----------------------- MODULE MasternodeSync_proofs -----------------------
(***************************************************************************)
(* What the stages of the synchronisation guarantee, for any peers, items, *)
(* thresholds and delays, any number of other threads, and any             *)
(* interleaving of the steps of Process with those of their resets.        *)
(***************************************************************************)
EXTENDS MasternodeSync, TLAPS

\* Process passes the test of the chain before it looks at the list.
LoopNeedsChain ==
  Calm /\ pc \in {"loop", "next", "write"} /\ RequestedMasternodeAssets = "LIST"
    => fBlockchainSynced

\* A stage that ends has its data.
EndsWithData ==
  Calm /\ pc \in {"next", "write"} /\ RequestedMasternodeAssets \in {"LIST", "MNW"}
    => RequestedMasternodeAssets \in got \cup waived

\* Unless a reset came in between, also one that is still under way, the stage
\* about to be written is the one after the present.
WritesNextStage ==
  pc = "write" /\ ~ overwritten => next.stage = NextStage(RequestedMasternodeAssets)

Stages ==
  /\ ChainSyncedFirst /\ FinishedWithData
  /\ LoopNeedsChain /\ EndsWithData /\ WritesNextStage

\* The inductive invariant.
Inv == TypeOK /\ Stages

----------------------------------------------------------------------------
\* A capped successor stays a natural number, and below its cap.
LEMMA CappedSuccType ==
  ASSUME NEW n \in Nat, NEW max \in Nat
  PROVE  /\ CappedSucc(n, max) \in Nat
         /\ n \in 0..max => CappedSucc(n, max) \in 0..max
BY DEF CappedSucc

LEMMA LongestType == ASSUME SyncAssumption PROVE Longest \in Nat
BY DEF SyncAssumption, Longest

\* GetNextAsset: every stage has a successor.
LEMMA NextStageType ==
  ASSUME NEW s \in Stage
  PROVE  /\ NextStage(s) \in Stage
         /\ s \in {"INITIAL", "FAILED"} => NextStage(s) = "SPORKS"
         /\ s = "SPORKS" => NextStage(s) = "LIST"
         /\ s = "LIST" => NextStage(s) = "MNW"
         /\ s = "MNW" => NextStage(s) = "BUDGET"
         /\ s \in {"BUDGET", "FINISHED"} => NextStage(s) = "FINISHED"
BY DEF NextStage, Asset, Stage

----------------------------------------------------------------------------
\* Three kinds of steps that keep what the stages guarantee.

\* A step that leaves the stage alone and takes no data away.
LEMMA SteadyStages ==
  ASSUME Stages,
         RequestedMasternodeAssets' = RequestedMasternodeAssets,
         next' = next, overwritten' = overwritten,
         got \subseteq got', waived \subseteq waived',
         fBlockchainSynced => fBlockchainSynced',
         Resetting => Resetting',
         pc' = pc \/ pc' \notin {"loop", "next", "write"}
  PROVE  Stages'
<1>1. Calm' => Calm
  BY DEF Calm
<1> QED
  BY <1>1 DEF Stages, ChainSyncedFirst, FinishedWithData, LoopNeedsChain, EndsWithData,
             WritesNextStage

\* The first half of a reset: nothing is promised until its second half.
LEMMA ResettingStages ==
  ASSUME Stages, Resetting',
         RequestedMasternodeAssets' = RequestedMasternodeAssets,
         next' = next, overwritten' = overwritten,
         pc' = pc \/ pc' \notin {"loop", "next", "write"}
  PROVE  Stages'
<1>1. ~ Calm'
  BY DEF Calm
<1> QED
  BY <1>1 DEF Stages, ChainSyncedFirst, FinishedWithData, LoopNeedsChain, EndsWithData,
             WritesNextStage

\* The second half: the stage is the first one, and Process is not about to
\* write another, or that is remembered.
LEMMA ResetStages ==
  ASSUME RequestedMasternodeAssets' \in {"INITIAL", "SPORKS", "FAILED"},
         pc' = "write" => overwritten'
  PROVE  Stages'
BY DEF Stages, ChainSyncedFirst, FinishedWithData, LoopNeedsChain, EndsWithData,
       WritesNextStage, Later

----------------------------------------------------------------------------
\* What the first half of Reset writes has its type.
LEMMA ResetDataType ==
  ASSUME SyncAssumption, TypeOK, ResetData
  PROVE  /\ fBlockchainSynced' \in BOOLEAN /\ stale' \in BOOLEAN
         /\ got' \subseteq Asset /\ waived' \subseteq Asset
         /\ quiet' \in [Asset -> 0..Quiet]
         /\ seen' \in [Asset -> [Hash -> 0..Threshold]]
         /\ clock' \in Nat
         /\ UNCHANGED <<RequestedMasternodeAssets, RequestedMasternodeAttempt, overwritten>>
<1>1. 0 \in 0..Quiet /\ 0 \in 0..Threshold
  BY DEF SyncAssumption
<1>2. seen' \in [Asset -> [Hash -> 0..Threshold]]
  BY <1>1 DEF ResetData
<1>3. clock' \in Nat
  BY LongestType DEF ResetData, TypeOK
<1> QED
  BY <1>1, <1>2, <1>3 DEF ResetData

\* A node that has just started satisfies the invariant.
LEMMA InitInv == ASSUME SyncAssumption, Init PROVE Inv
<1>1. 0 \in 0..Quiet /\ 0 \in 0..Threshold /\ 0 \in 0..MaxFault
  BY DEF SyncAssumption
<1>2. seen \in [Asset -> [Hash -> 0..Threshold]]
  BY <1>1 DEF Init
<1>3. enforced \in BOOLEAN
  BY DEF Init, SyncAssumption
<1>4. next \in [stage : Stage, attempt : 0..1]
  BY DEF Init, NoNext, Stage
<1>5. /\ asked \in [Peer -> SUBSET Stage]
      /\ quiet \in [Asset -> 0..Quiet]
      /\ caller \in [Caller -> {"idle", "reset", "clear", "rpc"}]
  BY <1>1 DEF Init
<1>6. TypeOK
  BY <1>1, <1>2, <1>3, <1>4, <1>5 DEF Init, TypeOK, Stage
<1> QED
  BY <1>6 DEF Init, Inv, Stages, ChainSyncedFirst, FinishedWithData, LoopNeedsChain,
             EndsWithData, WritesNextStage, Later

----------------------------------------------------------------------------
\* The steps of Process that leave the stage alone.
LEMMA ProcessQuietInv ==
  ASSUME SyncAssumption, Inv,
         Tick \/ ProcessReturn \/ LoopBusy
  PROVE  Inv'
<1> USE DEF Inv
<1>1. CASE Tick
  <2>1. quiet' \in [Asset -> 0..Quiet]
    <3>1. \A a \in Asset : (IF a \in got THEN CappedSucc(quiet[a], Quiet) ELSE 0) \in 0..Quiet
      BY CappedSuccType DEF TypeOK, SyncAssumption
    <3> QED
      BY <1>1, <3>1 DEF Tick
  <2>2. clock' \in Nat
    BY <1>1, CappedSuccType, LongestType DEF Tick, TypeOK
  <2>3. TypeOK'
    BY <1>1, <2>1, <2>2 DEF TypeOK, Tick, world
  <2>4. Resetting => Resetting'
    BY <1>1 DEF Tick, Resetting
  <2> QED
    BY <1>1, <2>3, <2>4, SteadyStages DEF Tick
<1>2. CASE ProcessReturn \/ LoopBusy
  <2>1. /\ UNCHANGED <<stage, data, overwritten, stale, fBlockchainSynced, world, asked, next,
                       caller>>
        /\ pc' = "wait" /\ pc \notin {"restart", "reset"}
    BY <1>2 DEF ProcessReturn, LoopBusy
  <2>2. TypeOK'
    BY <2>1 DEF TypeOK, stage, data, world
  <2>3. Resetting => Resetting'
    BY <2>1 DEF Resetting
  <2> QED
    BY <2>1, <2>2, <2>3, SteadyStages DEF stage, data
<1> QED
  BY <1>1, <1>2

\* Process enters the first stage.
LEMMA EnterSporksInv ==
  ASSUME SyncAssumption, Inv, EnterSporks, overwritten' \in BOOLEAN
  PROVE  Inv'
<1> USE DEF Inv
<1>1. asked' \in [Peer -> SUBSET Stage]
  BY DEF EnterSporks, ClearFulfilledRequest, TypeOK
<1>2. TypeOK'
  BY <1>1 DEF EnterSporks, TypeOK, data, world, Stage
<1> QED
  BY <1>2, ResetStages DEF EnterSporks

\* The steps of Process before its loop.
LEMMA ProcessBeginInv ==
  ASSUME SyncAssumption, Inv,
         \/ ProcessRestart \/ ProcessRestarted \/ ProcessBegin
         \/ CheckStale \/ CheckReset
  PROVE  Inv'
<1> USE DEF Inv
<1>1. CASE ProcessRestart \/ CheckStale
  <2>1. /\ ResetData
        /\ pc' \in {"restart", "reset"}
        /\ UNCHANGED <<world, asked, next, caller>>
    BY <1>1 DEF ProcessRestart, CheckStale
  <2>2. TypeOK'
    BY <2>1, ResetDataType DEF TypeOK, world
  <2>3. Resetting'
    BY <2>1 DEF Resetting
  <2> QED
    BY <2>1, <2>2, <2>3, ResettingStages, ResetDataType
<1>2. CASE ProcessRestarted
  BY <1>2, EnterSporksInv DEF ProcessRestarted
<1>3. CASE ProcessBegin
  <2>1. CASE RequestedMasternodeAssets = "INITIAL"
    BY <1>3, <2>1, EnterSporksInv DEF ProcessBegin, TypeOK
  <2>2. CASE RequestedMasternodeAssets # "INITIAL"
    <3>1. /\ UNCHANGED <<stage, data, stale, fBlockchainSynced, world, asked, next, caller,
                         overwritten>>
          /\ pc = "begin" /\ pc' = "check"
      BY <1>3, <2>2 DEF ProcessBegin
    <3>2. TypeOK'
      BY <3>1 DEF TypeOK, stage, data, world
    <3>3. Resetting => Resetting'
      BY <3>1 DEF Resetting
    <3> QED
      BY <3>1, <3>2, <3>3, SteadyStages DEF stage, data
  <2> QED
    BY <2>1, <2>2
<1>4. CASE CheckReset
  <2>1. /\ RequestedMasternodeAssets' = "INITIAL" /\ RequestedMasternodeAttempt' = 0
        /\ clock' = 0 /\ overwritten' \in BOOLEAN /\ UNCHANGED data
        /\ fBlockchainSynced' = FALSE /\ stale' = FALSE
        /\ pc' = "test"
        /\ UNCHANGED <<world, asked, next, caller>>
    BY <1>4 DEF CheckReset, ResetStage
  <2>2. TypeOK'
    BY <2>1 DEF TypeOK, data, world, Stage
  <2> QED
    BY <2>1, <2>2, ResetStages
<1> QED
  BY <1>1, <1>2, <1>3, <1>4

\* Process looks at the chain: past the sporks it goes on only with a recent one.
LEMMA CheckTestInv ==
  ASSUME SyncAssumption, Inv, NEW found \in BOOLEAN, CheckTest(found)
  PROVE  Inv'
<1> USE DEF Inv
<1>1. /\ UNCHANGED <<stage, data, overwritten, stale, world, asked, next, caller>>
      /\ pc \in {"test", "check"} /\ pc' \in {"loop", "wait"}
      /\ fBlockchainSynced' = (fBlockchainSynced \/ found)
      /\ pc' = "loop" => found \/ GoesOn
  BY DEF CheckTest, SyncedFresh
<1>2. TypeOK'
  BY <1>1 DEF TypeOK, stage, data, world
<1>3. Calm' => Calm
  BY <1>1 DEF Calm, Resetting
<1>4. LoopNeedsChain'
  BY <1>1 DEF LoopNeedsChain, GoesOn, stage
<1> QED
  BY <1>1, <1>2, <1>3, <1>4 DEF Stages, ChainSyncedFirst, FinishedWithData, EndsWithData,
                               WritesNextStage, stage, data

----------------------------------------------------------------------------
\* The loop of Process: it leaves the stage alone, and goes to the end of a
\* stage only with the data or, unenforced, without.
LEMMA ProcessLoopInv == ASSUME SyncAssumption, Inv, ProcessLoop PROVE Inv'
<1> USE DEF Inv
<1>0. /\ UNCHANGED <<got, quiet, seen, overwritten, stale, fBlockchainSynced, world, caller>>
      /\ pc = "loop"
  BY DEF ProcessLoop
<1>1. ASSUME NEW s \in Stage, NEW p \in Peer, asked' = [asked EXCEPT ![p] = @ \cup {s}]
      PROVE  asked' \in [Peer -> SUBSET Stage]
  BY <1>1 DEF TypeOK
<1>2. ASSUME RequestedMasternodeAttempt' \in Nat,
             UNCHANGED <<RequestedMasternodeAssets, clock, next, waived>>,
             pc' \in {"wait", "fail"}, asked' \in [Peer -> SUBSET Stage]
      PROVE  Inv'
  <2>1. TypeOK'
    BY <1>0, <1>2 DEF TypeOK, world
  <2>2. Resetting => Resetting'
    BY <1>0, <1>2 DEF Resetting
  <2> QED
    BY <1>0, <1>2, <2>1, <2>2, SteadyStages
<1>3. ASSUME NEW n \in 0..1, Advance(n), asked' \in [Peer -> SUBSET Stage],
             waived \subseteq waived', waived' \subseteq Asset,
             RequestedMasternodeAssets \in {"LIST", "MNW"}
               => RequestedMasternodeAssets \in got \cup waived'
      PROVE  Inv'
  <2>1. /\ UNCHANGED stage /\ pc' = "next"
        /\ next' = [stage |-> RequestedMasternodeAssets, attempt |-> n]
    BY <1>3 DEF Advance
  <2>2. next' \in [stage : Stage, attempt : 0..1]
    BY <2>1 DEF TypeOK
  <2>3. TypeOK'
    BY <1>0, <1>3, <2>1, <2>2 DEF TypeOK, stage, world
  <2>4. Calm' => Calm
    BY <1>0, <2>1 DEF Calm, Resetting
  <2>5. LoopNeedsChain' /\ EndsWithData' /\ WritesNextStage'
    BY <1>0, <1>3, <2>1, <2>4
    DEF Stages, LoopNeedsChain, EndsWithData, WritesNextStage, stage
  <2>6. ChainSyncedFirst' /\ FinishedWithData'
    BY <1>0, <1>3, <2>1, <2>4 DEF Stages, ChainSyncedFirst, FinishedWithData, stage
  <2> QED
    BY <2>3, <2>5, <2>6 DEF Stages
<1>a. 0 \in 0..1 /\ 1 \in 0..1
  OBVIOUS
<1>4. ASSUME NEW p \in Peer, AskSporks(p) PROVE Inv'
  <2>1. asked' \in [Peer -> SUBSET Stage]
    BY <1>1, <1>4 DEF AskSporks, Stage
  <2>2. CASE RequestedMasternodeAttempt >= 2
    <3>1. Advance(1) /\ UNCHANGED waived /\ RequestedMasternodeAssets = "SPORKS"
      BY <1>4, <2>2 DEF AskSporks
    <3>2. waived' \subseteq Asset
      BY <2>1, <3>1 DEF TypeOK
    <3> QED
      BY <1>a, <1>3, <2>1, <3>1, <3>2
  <2>3. CASE ~ RequestedMasternodeAttempt >= 2
    <3>1. /\ RequestedMasternodeAttempt' = RequestedMasternodeAttempt + 1
          /\ pc' = "wait"
          /\ UNCHANGED <<RequestedMasternodeAssets, clock, next, waived>>
      BY <1>4, <2>3 DEF AskSporks
    <3> QED
      BY <1>2, <2>1, <3>1 DEF TypeOK
  <2> QED
    BY <2>2, <2>3
<1>5. CASE MoveOn
  <2>1. Advance(0) /\ UNCHANGED <<asked, waived>> /\ RequestedMasternodeAssets \in got
    BY <1>5 DEF MoveOn, Settled
  <2>2. waived' \subseteq Asset /\ asked' \in [Peer -> SUBSET Stage]
    BY <2>1 DEF TypeOK
  <2> QED
    BY <1>a, <1>3, <2>1, <2>2
<1>6. CASE NoBudget
  <2>1. Advance(0) /\ UNCHANGED <<asked, waived>> /\ RequestedMasternodeAssets = "BUDGET"
    BY <1>6 DEF NoBudget
  <2>2. waived' \subseteq Asset /\ asked' \in [Peer -> SUBSET Stage]
    BY <2>1 DEF TypeOK
  <2> QED
    BY <1>a, <1>3, <2>1, <2>2
<1>7. ASSUME NEW p \in Peer, AskPeer(p) PROVE Inv'
  <2>1. RequestedMasternodeAssets \in Asset /\ asked' \in [Peer -> SUBSET Stage]
    BY <1>1, <1>7 DEF AskPeer, Stage
  <2>2. CASE TimedOut(RequestedMasternodeAssets) /\ enforced
    <3>1. pc' = "fail" /\ UNCHANGED <<stage, next, waived>>
      BY <1>7, <2>2 DEF AskPeer, Fails
    <3> QED
      BY <1>2, <2>1, <3>1 DEF TypeOK, stage
  <2>3. CASE TimedOut(RequestedMasternodeAssets) /\ ~ enforced
    <3>1. Advance(0) /\ waived' = waived \cup {RequestedMasternodeAssets}
      BY <1>7, <2>3 DEF AskPeer, Fails
    <3>2. waived' \subseteq Asset
      BY <2>1, <3>1 DEF TypeOK
    <3> QED
      BY <1>a, <1>3, <2>1, <3>1, <3>2
  <2>4. CASE ~ TimedOut(RequestedMasternodeAssets)
    <3>1. /\ UNCHANGED <<RequestedMasternodeAssets, clock, next, waived>>
          /\ RequestedMasternodeAttempt' = CappedSucc(RequestedMasternodeAttempt, Threshold * 3)
          /\ pc' = "wait"
      BY <1>7, <2>4 DEF AskPeer
    <3>2. RequestedMasternodeAttempt' \in Nat
      BY <3>1, CappedSuccType DEF TypeOK, SyncAssumption
    <3> QED
      BY <1>2, <2>1, <3>1, <3>2
  <2> QED
    BY <2>2, <2>3, <2>4
<1>8. CASE NobodyToAsk
  <2>1. pc' = "wait" /\ UNCHANGED <<stage, asked, next, waived>>
    BY <1>8 DEF NobodyToAsk
  <2> QED
    BY <1>2, <2>1 DEF TypeOK, stage
<1> QED
  BY <1>4, <1>5, <1>6, <1>7, <1>8 DEF ProcessLoop

\* The end of a stage: the switch, and what is written after it.
LEMMA ProcessEndInv ==
  ASSUME SyncAssumption, Inv, GetNextAsset \/ WriteNextAsset \/ WriteFailed
  PROVE  Inv'
<1> USE DEF Inv
<1>1. CASE GetNextAsset
  <2>1. /\ pc = "next" /\ pc' = "write"
        /\ next' = [next EXCEPT !.stage = NextStage(RequestedMasternodeAssets)]
        /\ UNCHANGED <<stage, data, overwritten, stale, fBlockchainSynced, world, caller>>
    BY <1>1 DEF GetNextAsset
  <2>2. next' \in [stage : Stage, attempt : 0..1]
        /\ next'.stage = NextStage(RequestedMasternodeAssets)
    BY <2>1, NextStageType DEF TypeOK
  <2>3. asked' \in [Peer -> SUBSET Stage]
    BY <1>1 DEF GetNextAsset, TypeOK
  <2>4. TypeOK'
    BY <2>1, <2>2, <2>3 DEF TypeOK, stage, data, world
  <2>5. Calm' => Calm
    BY <2>1 DEF Calm, Resetting
  <2>6. RequestedMasternodeAssets' = RequestedMasternodeAssets /\ got' = got /\ waived' = waived
    BY <2>1 DEF stage, data
  <2>7. WritesNextStage'
    BY <2>2, <2>6 DEF WritesNextStage
  <2> QED
    BY <2>1, <2>4, <2>5, <2>6, <2>7
    DEF Stages, ChainSyncedFirst, FinishedWithData, LoopNeedsChain, EndsWithData
<1>2. CASE WriteNextAsset
  <2>1. /\ pc = "write" /\ pc' = "wait"
        /\ RequestedMasternodeAssets' = next.stage
        /\ RequestedMasternodeAttempt' = next.attempt
        /\ clock' = 0 /\ next' = NoNext
        /\ UNCHANGED <<data, overwritten, stale, fBlockchainSynced, world, asked, caller>>
    BY <1>2 DEF WriteNextAsset
  <2>2. next' \in [stage : Stage, attempt : 0..1]
    BY <2>1 DEF NoNext, Stage
  <2>3. RequestedMasternodeAssets' \in Stage /\ RequestedMasternodeAttempt' \in Nat
    BY <2>1 DEF TypeOK
  <2>4. TypeOK'
    BY <2>1, <2>2, <2>3 DEF TypeOK, data, world
  <2>5. Calm' => Calm
    BY <2>1 DEF Calm, Resetting
  <2>6. Calm' => RequestedMasternodeAssets' = NextStage(RequestedMasternodeAssets)
    BY <2>1, <2>5 DEF Stages, WritesNextStage, Calm
  <2>7. got' = got /\ waived' = waived /\ RequestedMasternodeAssets \in Stage
    BY <2>1 DEF data, TypeOK
  <2>8. ChainSyncedFirst' /\ FinishedWithData'
    <3>1. SUFFICES ASSUME Calm'
                   PROVE  ChainSyncedFirst' /\ FinishedWithData'
      BY DEF ChainSyncedFirst, FinishedWithData
    <3>2. CASE RequestedMasternodeAssets \in {"INITIAL", "FAILED", "SPORKS"}
      BY <2>6, <3>1, <3>2, NextStageType, <2>7
      DEF ChainSyncedFirst, FinishedWithData, Later
    <3>3. CASE RequestedMasternodeAssets = "LIST"
      BY <2>1, <2>5, <2>6, <2>7, <3>1, <3>3, NextStageType
      DEF Stages, LoopNeedsChain, EndsWithData, ChainSyncedFirst, FinishedWithData, Later
    <3>4. CASE RequestedMasternodeAssets = "MNW"
      BY <2>1, <2>5, <2>6, <2>7, <3>1, <3>4, NextStageType
      DEF Stages, EndsWithData, ChainSyncedFirst, FinishedWithData, Later
    <3>5. CASE RequestedMasternodeAssets \in {"BUDGET", "FINISHED"}
      BY <2>1, <2>5, <2>6, <2>7, <3>1, <3>5, NextStageType
      DEF Stages, ChainSyncedFirst, FinishedWithData, Later
    <3> QED
      BY <2>7, <3>2, <3>3, <3>4, <3>5 DEF Stage, Asset
  <2> QED
    BY <2>1, <2>4, <2>8 DEF Stages, LoopNeedsChain, EndsWithData, WritesNextStage
<1>3. CASE WriteFailed
  <2>1. TypeOK'
    BY <1>3 DEF WriteFailed, TypeOK, data, world, Stage
  <2> QED
    BY <1>3, <2>1, ResetStages DEF WriteFailed
<1> QED
  BY <1>1, <1>2, <1>3

----------------------------------------------------------------------------
\* The other threads.
LEMMA CallInv ==
  ASSUME SyncAssumption, Inv, NEW c \in Caller, Call(c) \/ RpcReset(c)
  PROVE  Inv'
<1> USE DEF Inv
<1>1. ASSUME NEW at \in {"idle", "reset", "clear", "rpc"}, caller' = [caller EXCEPT ![c] = at]
      PROVE  /\ caller' \in [Caller -> {"idle", "reset", "clear", "rpc"}]
             /\ caller'[c] = at
  BY <1>1 DEF TypeOK
<1>2. CASE PollStale(c) \/ RpcReset(c)
  <2>1. /\ ResetData
        /\ \E at \in {"reset", "rpc"} : caller' = [caller EXCEPT ![c] = at]
        /\ UNCHANGED <<recent, enabled, enforced, vNodes, asked, pc, next>>
    BY <1>2 DEF PollStale, RpcReset, world
  <2>2. faults' \in 0..MaxFault
    BY <1>2 DEF PollStale, RpcReset, Strikes, TypeOK, SyncAssumption, world
  <2>3. /\ caller' \in [Caller -> {"idle", "reset", "clear", "rpc"}]
        /\ caller'[c] \in {"reset", "rpc"}
    BY <1>1, <2>1
  <2>4. TypeOK'
    BY <2>1, <2>2, <2>3, ResetDataType DEF TypeOK
  <2>5. Resetting'
    BY <2>3 DEF Resetting
  <2> QED
    BY <2>1, <2>4, <2>5, ResettingStages, ResetDataType
<1>3. CASE PollReset(c) \/ RpcResetEnds(c)
  <2>1. /\ RequestedMasternodeAssets' = "INITIAL" /\ RequestedMasternodeAttempt' = 0
        /\ clock' = 0 /\ overwritten' = (pc = "write") /\ UNCHANGED data
        /\ \E at \in {"clear", "idle"} : caller' = [caller EXCEPT ![c] = at]
        /\ UNCHANGED <<stale, fBlockchainSynced, world, asked, pc, next>>
    BY <1>3 DEF PollReset, RpcResetEnds, ResetStage
  <2>2. caller' \in [Caller -> {"idle", "reset", "clear", "rpc"}]
    BY <1>1, <2>1
  <2>3. TypeOK'
    BY <2>1, <2>2 DEF TypeOK, data, world, Stage
  <2> QED
    BY <2>1, <2>3, ResetStages
<1>4. CASE PollCleared(c)
  <2>1. /\ fBlockchainSynced' = FALSE /\ stale' = FALSE
        /\ overwritten' = (overwritten \/ RequestedMasternodeAssets \in Asset \cup {"FINISHED"})
        /\ caller' = [caller EXCEPT ![c] = "idle"]
        /\ UNCHANGED <<stage, data, world, asked, pc, next>>
    BY <1>4 DEF PollCleared, ResetDone
  <2>2. caller' \in [Caller -> {"idle", "reset", "clear", "rpc"}]
    BY <1>1, <2>1
  <2>3. TypeOK'
    BY <2>1, <2>2 DEF TypeOK, stage, data, world
  <2>4. RequestedMasternodeAssets' = RequestedMasternodeAssets
    BY <2>1 DEF stage
  <2>5. Calm' => RequestedMasternodeAssets' \notin {"LIST", "MNW", "BUDGET", "FINISHED"}
    BY <2>1, <2>4 DEF Calm, Asset
  <2>6. WritesNextStage'
    BY <2>1, <2>4 DEF Stages, WritesNextStage
  <2> QED
    BY <2>3, <2>5, <2>6 DEF Stages, ChainSyncedFirst, FinishedWithData, LoopNeedsChain,
                            EndsWithData, Later
<1>5. CASE PollFinds(c)
  <2>1. /\ UNCHANGED <<stage, data, overwritten, stale, world, asked, pc, next, caller>>
        /\ fBlockchainSynced' = TRUE
    BY <1>5 DEF PollFinds, SyncedFresh
  <2>2. TypeOK'
    BY <2>1 DEF TypeOK, stage, data, world
  <2>3. Resetting => Resetting'
    BY <2>1 DEF Resetting
  <2> QED
    BY <2>1, <2>2, <2>3, SteadyStages DEF stage, data
<1> QED
  BY <1>2, <1>3, <1>4, <1>5 DEF Call

\* Items arrive.
LEMMA AddedItemInv ==
  ASSUME SyncAssumption, Inv, NEW a \in Asset, NEW h \in Hash, AddedItem(a, h)
  PROVE  Inv'
<1> USE DEF Inv
<1>1. got' = got \cup {a} /\ got' \subseteq Asset
  BY DEF AddedItem, TypeOK
<1>2. quiet' \in [Asset -> 0..Quiet]
  BY DEF AddedItem, TypeOK, SyncAssumption
<1>3. seen' \in [Asset -> [Hash -> 0..Threshold]]
  <2>1. seen[a][h] + 1 \in 0..Threshold
    BY DEF AddedItem, Counts, TypeOK, SyncAssumption
  <2>2. [seen[a] EXCEPT ![h] = @ + 1] \in [Hash -> 0..Threshold]
    BY <2>1 DEF TypeOK
  <2> QED
    BY <2>2 DEF AddedItem, TypeOK
<1>4. UNCHANGED <<stage, waived, overwritten, stale, fBlockchainSynced, world, asked, pc,
                  next, caller>>
  BY DEF AddedItem
<1>5. TypeOK'
  BY <1>1, <1>2, <1>3, <1>4 DEF TypeOK, stage, world
<1>6. Resetting => Resetting'
  BY <1>4 DEF Resetting
<1> QED
  BY <1>1, <1>4, <1>5, <1>6, SteadyStages DEF stage

\* The environment.
LEMMA WorldInv ==
  ASSUME SyncAssumption, Inv,
         \/ Sleep \/ CatchUp \/ LoseMasternodes \/ FindMasternode \/ SwitchSpork
         \/ \E p \in Peer : Connect(p) \/ Disconnect(p)
  PROVE  Inv'
<1> USE DEF Inv
<1>1. /\ UNCHANGED <<stage, data, overwritten, fBlockchainSynced, pc, next, caller>>
      /\ stale' \in BOOLEAN /\ recent' \in BOOLEAN /\ enabled' \in BOOLEAN
      /\ enforced' \in BOOLEAN /\ vNodes' \subseteq Peer
  BY DEF Sleep, CatchUp, LoseMasternodes, FindMasternode, SwitchSpork, Connect, Disconnect,
         threads, TypeOK
<1>2. asked' \in [Peer -> SUBSET Stage]
  BY DEF Sleep, CatchUp, LoseMasternodes, FindMasternode, SwitchSpork, Connect, Disconnect,
         TypeOK
<1>3. faults' \in 0..MaxFault
  BY DEF Sleep, CatchUp, LoseMasternodes, FindMasternode, SwitchSpork, Connect, Disconnect,
         Strikes, TypeOK, SyncAssumption
<1>4. TypeOK'
  BY <1>1, <1>2, <1>3 DEF TypeOK, stage, data
<1>5. Resetting => Resetting'
  BY <1>1 DEF Resetting
<1> QED
  BY <1>1, <1>4, <1>5, SteadyStages DEF stage, data

\* Every step of every thread preserves the invariant.
LEMMA StepInv == ASSUME SyncAssumption, Inv, [Next]_vars PROVE Inv'
<1>1. CASE UNCHANGED vars
  <2>1. UNCHANGED <<stage, data, overwritten, stale, fBlockchainSynced, world, asked, pc, next,
                    caller>>
    BY <1>1 DEF vars
  <2>2. TypeOK'
    BY <2>1 DEF Inv, TypeOK, stage, data, world
  <2>3. Resetting => Resetting'
    BY <2>1 DEF Resetting
  <2> QED
    BY <2>1, <2>2, <2>3, SteadyStages DEF Inv, stage, data
<1>2. CASE Process
  BY <1>2, ProcessQuietInv, ProcessBeginInv, CheckTestInv, ProcessLoopInv, ProcessEndInv
  DEF Process
<1>3. CASE Next
  BY <1>2, <1>3, CallInv, AddedItemInv, WorldInv DEF Next
<1> QED
  BY <1>1, <1>3

----------------------------------------------------------------------------
\* The inductive invariant holds throughout.
LEMMA Invariance == ASSUME SyncAssumption PROVE Spec => []Inv
BY InitInv, StepInv, PTL DEF Spec

\* The state of CMasternodeSync keeps its types; in particular no item counts
\* more often than MASTERNODE_SYNC_THRESHOLD.
THEOREM TypeCorrect == Spec => []TypeOK
BY Invariance, SyncAssumption, PTL DEF Inv

\* Process gets past the masternode list only since IsBlockchainSynced said
\* yes, for any number of threads that reset between any two of its steps: only
\* while a reset is under way, and after one during which Process read one stage
\* and wrote the next, may it be otherwise.
THEOREM ChainComesFirst == Spec => []ChainSyncedFirst
BY Invariance, SyncAssumption, PTL DEF Inv, Stages

\* Under the same proviso a node that calls itself synchronised has received
\* masternodes and winners since the last reset, or gave them up while SPORK_8
\* was not active.
THEOREM SynchronisedWithData == Spec => []FinishedWithData
BY Invariance, SyncAssumption, PTL DEF Inv, Stages
=============================================================================
