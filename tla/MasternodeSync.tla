-------------------------- MODULE MasternodeSync --------------------------
(***************************************************************************)
(* Synchronisation of sporks, masternode list, winners and budget in       *)
(* stages (src/src/masternode-sync.cpp) on one node of the main network.   *)
(*                                                                         *)
(* The masternode thread calls Process every second; every fifth call does *)
(* something.  Other threads call IsBlockchainSynced, which may reset      *)
(* everything, count items that arrive, and reset by RPC.  No lock orders  *)
(* them: a reset clears the data first and the stage later, and Process    *)
(* reads the stage, looks at the rest and then writes the next one.  Time  *)
(* is counted in those five-second ticks.                                  *)
(***************************************************************************)
EXTENDS Naturals, FiniteSets

CONSTANTS
  Peer,        \* peers this node may be connected to
  OldPeer,     \* those below ActiveProtocol()
  Caller,      \* threads that call IsBlockchainSynced or "mnsync reset"
  Announced,   \* assets of which peers have items
  Hash,        \* those items
  Threshold,   \* MASTERNODE_SYNC_THRESHOLD
  Quiet,       \* ticks without a new item, for MASTERNODE_SYNC_TIMEOUT * 2
  Patience,    \* ticks until a request times out, MASTERNODE_SYNC_TIMEOUT * 5
  Retry,       \* ticks from a failure to the next try, one minute
  Enforcing,   \* what SPORK_8 may be at the start
  Fault,       \* what may disturb it: "reset", "sleep", "loss", "spork", "disconnect"
  MaxFault     \* bound on how often

ASSUME SyncAssumption ==
  /\ OldPeer \subseteq Peer /\ Announced \subseteq {"LIST", "MNW", "BUDGET"}
  /\ Threshold \in Nat \ {0} /\ Quiet \in Nat /\ Patience \in Nat
  /\ Enforcing \subseteq BOOLEAN /\ Retry \in Nat /\ MaxFault \in Nat

Asset == {"LIST", "MNW", "BUDGET"}
Stage == Asset \cup {"INITIAL", "SPORKS", "FAILED", "FINISHED"}

VARIABLES
  RequestedMasternodeAssets,
  RequestedMasternodeAttempt,
  got,                \* assets whose last-item time is not zero
  quiet,              \* ticks since that time
  seen,               \* mapSeenSyncMNB, mapSeenSyncMNW and mapSeenSyncBudget
  clock,              \* ticks since nAssetSyncStarted; when FAILED, lastFailure
  stale,              \* lastProcess is more than an hour ago
  fBlockchainSynced,
  recent,             \* the tip of the chain is at most an hour old
  enabled,            \* mnodeman.CountEnabled() > 0
  enforced,           \* SPORK_8_MASTERNODE_PAYMENT_ENFORCEMENT is active
  vNodes,             \* connected peers
  asked,              \* vecRequestsFulfilled of each: stages asked about
  pc,                 \* where the masternode thread is
  next,               \* the stage and attempts it is about to write
  caller,             \* where the other threads are
  faults,
  waived,             \* history: assets given up as payments are not enforced
  overwritten         \* history: Process went on during the last reset

stage == <<RequestedMasternodeAssets, RequestedMasternodeAttempt, clock>>
data == <<got, quiet, seen, waived>>
world == <<recent, enabled, enforced, vNodes, faults>>
vars == <<stage, data, overwritten, stale, fBlockchainSynced, world, asked, pc, next,
          caller>>

----------------------------------------------------------------------------
CappedSucc(n, max) == IF n < max THEN n + 1 ELSE max
Longest == IF Patience > Retry THEN Patience ELSE Retry

\* Reset, first half: the flag of the chain, lastProcess, the items and
\* lastFailure, which is long ago then.
ResetData ==
  /\ fBlockchainSynced' = FALSE
  /\ stale' = TRUE
  /\ got' = {} /\ waived' = {}
  /\ quiet' = [a \in Asset |-> 0]
  /\ seen' = [a \in Asset |-> [h \in Hash |-> 0]]
  /\ clock' = IF RequestedMasternodeAssets = "FAILED" THEN Longest ELSE clock
  /\ UNCHANGED <<RequestedMasternodeAssets, RequestedMasternodeAttempt, overwritten>>

\* Reset, second half, and whether Process has read the old stage and is about
\* to write the one after it.
ResetStage ==
  /\ RequestedMasternodeAssets' = "INITIAL"
  /\ RequestedMasternodeAttempt' = 0
  /\ clock' = 0
  /\ overwritten' = (pc = "write")
  /\ UNCHANGED data

\* IsBlockchainSynced after its Reset: the flag is cleared once more, also when
\* Process has already gone on to the assets, and lastProcess is now.
ResetDone ==
  /\ fBlockchainSynced' = FALSE
  /\ stale' = FALSE
  /\ overwritten' = (overwritten \/ RequestedMasternodeAssets \in Asset \cup {"FINISHED"})
  /\ UNCHANGED <<stage, data>>

\* IsBlockchainSynced when the last call was less than an hour ago.  The chain
\* is found recent when there is no import, cs_main is free and the tip is.
SyncedFresh(found) ==
  /\ found => recent
  /\ fBlockchainSynced' = (fBlockchainSynced \/ found)

\* GetNextAsset: the stage after s.
NextStage(s) ==
  CASE s \in {"INITIAL", "FAILED"} -> "SPORKS"
    [] s = "SPORKS" -> "LIST"
    [] s = "LIST" -> "MNW"
    [] s = "MNW" -> "BUDGET"
    [] s \in {"BUDGET", "FINISHED"} -> "FINISHED"

\* Nothing happens when cs_vNodes is not free.
ClearFulfilledRequest ==
  \/ asked' = [p \in Peer |-> {}]
  \/ UNCHANGED asked

\* "hasn't received a new item" for a while, and enough peers were asked.
Settled(a) ==
  /\ a \in got /\ quiet[a] >= Quiet
  /\ RequestedMasternodeAttempt >= Threshold

TimedOut(a) ==
  /\ a \notin got
  /\ \/ RequestedMasternodeAttempt >= Threshold * 3
     \/ clock >= Patience

\* Connected peers that were not asked about stage s yet.
Unasked(s) == {p \in vNodes : s \notin asked[p]}

Synced == RequestedMasternodeAssets = "FINISHED"

Strikes(fault) == fault \in Fault /\ faults < MaxFault /\ faults' = faults + 1

\* Process is not about to write a stage.
NoNext == [stage |-> "INITIAL", attempt |-> 0]

----------------------------------------------------------------------------
Init ==
  /\ RequestedMasternodeAssets = "INITIAL"
  /\ RequestedMasternodeAttempt = 0
  /\ got = {} /\ waived = {}
  /\ quiet = [a \in Asset |-> 0]
  /\ seen = [a \in Asset |-> [h \in Hash |-> 0]]
  /\ clock = 0
  /\ overwritten = FALSE
  /\ stale = TRUE
  /\ fBlockchainSynced = FALSE
  /\ recent = FALSE
  /\ enabled = FALSE
  /\ enforced \in Enforcing
  /\ vNodes = {}
  /\ asked = [p \in Peer |-> {}]
  /\ pc = "wait"
  /\ next = NoNext
  /\ caller = [c \in Caller |-> "idle"]
  /\ faults = 0

\* Five seconds pass.  The first stages do not look at the clock.
Tick ==
  /\ pc = "wait"
  /\ pc' = "begin"
  /\ quiet' = [a \in Asset |-> IF a \in got THEN CappedSucc(quiet[a], Quiet) ELSE 0]
  /\ clock' = IF RequestedMasternodeAssets \in {"INITIAL", "SPORKS"}
                THEN clock ELSE CappedSucc(clock, Longest)
  /\ UNCHANGED <<RequestedMasternodeAssets, RequestedMasternodeAttempt, got, seen, waived,
                 overwritten, stale, fBlockchainSynced, world, asked, next, caller>>

\* Process has nothing to do: synchronised, or too early after a failure.
ProcessReturn ==
  /\ pc = "begin"
  /\ \/ Synced /\ enabled
     \/ RequestedMasternodeAssets = "FAILED" /\ clock < Retry
  /\ pc' = "wait"
  /\ UNCHANGED <<stage, data, overwritten, stale, fBlockchainSynced, world, asked, next,
                 caller>>

\* All masternodes were lost, or the last try failed a while ago.
StartsOver ==
  \/ Synced /\ ~ enabled
  \/ RequestedMasternodeAssets = "FAILED" /\ clock >= Retry

\* Process starts over: it calls Reset.
ProcessRestart ==
  /\ pc = "begin"
  /\ StartsOver
  /\ ResetData
  /\ pc' = "restart"
  /\ UNCHANGED <<world, asked, next, caller>>

\* The first stage is entered at once after INITIAL, by Reset or not.  Other
\* threads only ever write INITIAL, so that this is one step to them.
EnterSporks ==
  /\ ClearFulfilledRequest
  /\ RequestedMasternodeAssets' = "SPORKS"
  /\ RequestedMasternodeAttempt' = 0
  /\ clock' = 0
  /\ pc' = "check"
  /\ UNCHANGED <<data, stale, fBlockchainSynced, world, next, caller>>

ProcessRestarted ==
  /\ pc = "restart"
  /\ EnterSporks
  /\ overwritten' = FALSE

ProcessBegin ==
  /\ pc = "begin"
  /\ RequestedMasternodeAssets \notin {"FINISHED", "FAILED"}
  /\ IF RequestedMasternodeAssets = "INITIAL"
       THEN EnterSporks
       ELSE pc' = "check" /\ UNCHANGED <<stage, data, stale, fBlockchainSynced, world, asked,
                                         next, caller>>
  /\ UNCHANGED overwritten

\* Process calls IsBlockchainSynced.  A Reset by Process has set lastProcess to
\* 0, so that it is called once more here and takes the first stage back.
CheckStale ==
  /\ pc = "check" /\ stale
  /\ ResetData
  /\ pc' = "reset"
  /\ UNCHANGED <<world, asked, next, caller>>

CheckReset ==
  /\ pc = "reset"
  /\ ResetStage
  /\ fBlockchainSynced' = FALSE /\ stale' = FALSE
  /\ pc' = "test"
  /\ UNCHANGED <<world, asked, next, caller>>

\* Only sporks are asked for until the chain is recent.
GoesOnAlways == TRUE
GoesOn == fBlockchainSynced \/ RequestedMasternodeAssets \in {"INITIAL", "SPORKS"}

CheckTest(found) ==
  /\ pc = "test" \/ (pc = "check" /\ ~ stale)
  /\ SyncedFresh(found)
  /\ pc' = IF found \/ GoesOn THEN "loop" ELSE "wait"
  /\ UNCHANGED <<stage, data, overwritten, stale, world, asked, next, caller>>

----------------------------------------------------------------------------
\* The loop over vNodes.  It asks one peer that was not asked before, or finds
\* that the stage ends; GetNextAsset then looks at the stage again.  (A reset
\* that comes before an attempt is counted leaves it counted at INITIAL, where
\* nobody looks: asking is one step.)

Advance(attempt) ==
  /\ pc' = "next"
  /\ next' = [stage |-> RequestedMasternodeAssets, attempt |-> attempt]
  /\ UNCHANGED stage

AskSporks(p) ==
  /\ RequestedMasternodeAssets = "SPORKS"
  /\ p \in Unasked("SPORKS")
  /\ asked' = [asked EXCEPT ![p] = @ \cup {"SPORKS"}]
  /\ IF RequestedMasternodeAttempt >= 2
       THEN Advance(1)
       ELSE /\ RequestedMasternodeAttempt' = RequestedMasternodeAttempt + 1
            /\ pc' = "wait"
            /\ UNCHANGED <<RequestedMasternodeAssets, clock, next>>
  /\ UNCHANGED waived

\* The asset settled; any peer of a good version lets the loop see it.
MoveOn ==
  /\ RequestedMasternodeAssets \in Asset
  /\ vNodes \ OldPeer # {}
  /\ Settled(RequestedMasternodeAssets)
  /\ Advance(0)
  /\ UNCHANGED <<asked, waived>>

\* No budget item in time: maybe there is no budget at all.
NoBudget ==
  /\ RequestedMasternodeAssets = "BUDGET"
  /\ vNodes \ OldPeer # {}
  /\ TimedOut("BUDGET")
  /\ Advance(0)
  /\ UNCHANGED <<asked, waived>>

\* Timeout of the list or the winners, seen only when a peer is left to ask.
FailsNever ==
  /\ Advance(0)
  /\ waived' = IF enforced THEN waived ELSE waived \cup {RequestedMasternodeAssets}
Fails ==
  IF enforced
    THEN pc' = "fail" /\ UNCHANGED <<stage, next, waived>>
    ELSE Advance(0) /\ waived' = waived \cup {RequestedMasternodeAssets}

\* The peer is asked for the asset, or it is found that asking takes too long.
AskPeer(p) ==
  LET a == RequestedMasternodeAssets
  IN  /\ a \in Asset
      /\ p \in Unasked(a) \ OldPeer
      /\ ~ Settled(a)
      /\ a = "BUDGET" => ~ TimedOut(a)
      /\ asked' = [asked EXCEPT ![p] = @ \cup {a}]
      /\ IF TimedOut(a)
           THEN Fails
           ELSE /\ RequestedMasternodeAttempt' =
                     CappedSucc(RequestedMasternodeAttempt, Threshold * 3)
                /\ pc' = "wait"
                /\ UNCHANGED <<RequestedMasternodeAssets, clock, next, waived>>

\* No peer is left, or there was a reset meanwhile.
NobodyToAsk ==
  LET s == RequestedMasternodeAssets
  IN  /\ s = "SPORKS" => Unasked(s) = {}
      /\ s \in Asset =>
           \/ vNodes \subseteq OldPeer
           \/ /\ Unasked(s) \subseteq OldPeer
              /\ ~ Settled(s)
              /\ s = "BUDGET" => ~ TimedOut(s)
      /\ pc' = "wait"
      /\ UNCHANGED <<stage, asked, next, waived>>

ProcessLoop ==
  /\ pc = "loop"
  /\ \/ \E p \in Peer : AskSporks(p) \/ AskPeer(p)
     \/ MoveOn
     \/ NoBudget
     \/ NobodyToAsk
  /\ UNCHANGED <<got, quiet, seen, overwritten, stale, fBlockchainSynced, world, caller>>

\* TRY_LOCK(cs_vNodes) fails.
LoopBusy ==
  /\ pc = "loop"
  /\ pc' = "wait"
  /\ UNCHANGED <<stage, data, overwritten, stale, fBlockchainSynced, world, asked, next,
                 caller>>

\* GetNextAsset: the switch, with cs_vNodes held.
GetNextAsset ==
  /\ pc = "next"
  /\ next' = [next EXCEPT !.stage = NextStage(RequestedMasternodeAssets)]
  /\ asked' = IF RequestedMasternodeAssets \in {"INITIAL", "FAILED"}
                THEN [p \in Peer |-> {}] ELSE asked
  /\ pc' = "write"
  /\ UNCHANGED <<stage, data, overwritten, stale, fBlockchainSynced, world, caller>>

\* GetNextAsset: the assignments; the spork stage counts an attempt after them.
WriteNextAsset ==
  /\ pc = "write"
  /\ RequestedMasternodeAssets' = next.stage
  /\ RequestedMasternodeAttempt' = next.attempt
  /\ clock' = 0
  /\ pc' = "wait"
  /\ next' = NoNext
  /\ UNCHANGED <<data, overwritten, stale, fBlockchainSynced, world, asked, caller>>

WriteFailed ==
  /\ pc = "fail"
  /\ RequestedMasternodeAssets' = "FAILED"
  /\ RequestedMasternodeAttempt' = 0
  /\ clock' = 0
  /\ pc' = "wait"
  /\ UNCHANGED <<data, overwritten, stale, fBlockchainSynced, world, asked, next, caller>>

----------------------------------------------------------------------------
\* Another thread, or the masternode thread outside Process, calls
\* IsBlockchainSynced.
MutantPollStaleNoReset(c) ==
  /\ caller[c] = "idle" /\ stale
  /\ stale' = FALSE
  /\ UNCHANGED <<stage, data, overwritten, fBlockchainSynced, world, asked, pc, next, caller>>
PollStale(c) ==
  /\ caller[c] = "idle" /\ stale
  /\ ResetData
  /\ caller' = [caller EXCEPT ![c] = "reset"]
  /\ UNCHANGED <<world, asked, pc, next>>

PollReset(c) ==
  /\ caller[c] = "reset"
  /\ ResetStage
  /\ caller' = [caller EXCEPT ![c] = "clear"]
  /\ UNCHANGED <<stale, fBlockchainSynced, world, asked, pc, next>>

PollCleared(c) ==
  /\ caller[c] = "clear"
  /\ ResetDone
  /\ caller' = [caller EXCEPT ![c] = "idle"]
  /\ UNCHANGED <<world, asked, pc, next>>

PollFinds(c) ==
  /\ caller[c] = "idle" /\ ~ stale
  /\ SyncedFresh(TRUE)
  /\ UNCHANGED <<stage, data, overwritten, stale, world, asked, pc, next, caller>>

\* "mnsync reset".
RpcReset(c) ==
  /\ Strikes("reset")
  /\ caller[c] = "idle"
  /\ ResetData
  /\ caller' = [caller EXCEPT ![c] = "rpc"]
  /\ UNCHANGED <<recent, enabled, enforced, vNodes, asked, pc, next>>

RpcResetEnds(c) ==
  /\ caller[c] = "rpc"
  /\ ResetStage
  /\ caller' = [caller EXCEPT ![c] = "idle"]
  /\ UNCHANGED <<stale, fBlockchainSynced, world, asked, pc, next>>

\* AddedMasternodeList, AddedMasternodeWinner, AddedBudgetItem: an item that
\* the manager of the asset has, for the first times it is announced.
CountsAgain(a, h) == a \in Announced
Counts(a, h) == a \in Announced /\ seen[a][h] < Threshold

MutantAddedItemRenews(a, h) ==
  /\ a \in Announced
  /\ got' = got \cup {a}
  /\ quiet' = [quiet EXCEPT ![a] = 0]
  /\ seen' = [seen EXCEPT ![a][h] = CappedSucc(@, Threshold)]
  /\ UNCHANGED <<stage, waived, overwritten, stale, fBlockchainSynced, world, asked, pc,
                 next, caller>>
AddedItem(a, h) ==
  /\ Counts(a, h)
  /\ got' = got \cup {a}
  /\ quiet' = [quiet EXCEPT ![a] = 0]
  /\ seen' = [seen EXCEPT ![a][h] = @ + 1]
  /\ UNCHANGED <<stage, waived, overwritten, stale, fBlockchainSynced, world, asked, pc,
                 next, caller>>

\* No thread is inside IsBlockchainSynced.
NobodyInside == pc \notin {"reset", "test"} /\ \A c \in Caller : caller[c] \in {"idle", "rpc"}

\* The computer sleeps for more than an hour; the tip is then old as well.
Sleep ==
  /\ Strikes("sleep")
  /\ NobodyInside
  /\ ~ stale /\ stale' = TRUE
  /\ recent' = FALSE
  /\ UNCHANGED <<stage, data, overwritten, fBlockchainSynced, enabled, enforced, vNodes,
                 asked, pc, next, caller>>

threads == <<stage, data, overwritten, stale, fBlockchainSynced, pc, next, caller>>

CatchUp ==
  /\ ~ recent /\ recent' = TRUE
  /\ UNCHANGED <<threads, enabled, enforced, vNodes, faults, asked>>

LoseMasternodes ==
  /\ Strikes("loss")
  /\ enabled /\ enabled' = FALSE
  /\ UNCHANGED <<threads, recent, enforced, vNodes, asked>>

FindMasternode ==
  /\ ~ enabled /\ enabled' = TRUE
  /\ UNCHANGED <<threads, recent, enforced, vNodes, faults, asked>>

\* SPORK_8 is switched on or off.
SwitchSpork ==
  /\ Strikes("spork")
  /\ enforced' = ~ enforced
  /\ UNCHANGED <<threads, recent, enabled, vNodes, asked>>

\* cs_vNodes is held while a stage ends.
LoopHeld == {"next", "write", "fail"}

\* A new connection is a new CNode, with no request fulfilled.
Connect(p) ==
  /\ pc \notin LoopHeld
  /\ p \notin vNodes /\ vNodes' = vNodes \cup {p}
  /\ asked' = [asked EXCEPT ![p] = {}]
  /\ UNCHANGED <<threads, recent, enabled, enforced, faults>>

Disconnect(p) ==
  /\ Strikes("disconnect")
  /\ pc \notin LoopHeld
  /\ p \in vNodes /\ vNodes' = vNodes \ {p}
  /\ UNCHANGED <<threads, recent, enabled, enforced, asked>>

----------------------------------------------------------------------------
Process ==
  \/ Tick
  \/ ProcessReturn \/ ProcessRestart \/ ProcessRestarted \/ ProcessBegin
  \/ CheckStale \/ CheckReset
  \/ \E found \in BOOLEAN : CheckTest(found)
  \/ ProcessLoop \/ LoopBusy
  \/ GetNextAsset \/ WriteNextAsset \/ WriteFailed

Call(c) ==
  \/ PollStale(c) \/ PollReset(c) \/ PollCleared(c) \/ PollFinds(c) \/ RpcResetEnds(c)

Next ==
  \/ Process
  \/ \E c \in Caller : Call(c) \/ RpcReset(c)
  \/ \E a \in Asset, h \in Hash : AddedItem(a, h)
  \/ Sleep \/ CatchUp \/ LoseMasternodes \/ FindMasternode \/ SwitchSpork
  \/ \E p \in Peer : Connect(p) \/ Disconnect(p)

Spec == Init /\ [][Next]_vars

\* The masternode thread runs and gets cs_vNodes now and then, IsBlockchainSynced
\* is called every second, connections are made again, the chain catches up.
Fairness ==
  /\ WF_vars(Process) /\ SF_vars(ProcessLoop)
  /\ \A c \in Caller : WF_vars(Call(c))
  /\ WF_vars(CatchUp) /\ WF_vars(FindMasternode)
  /\ \A p \in Peer : WF_vars(Connect(p))

FairSpec == Spec /\ Fairness

\* Peers that are asked for the list or the winners have some and answer, not
\* always in the very moment in which Process has found that they do not.
PeersAnswer ==
  \A a \in {"LIST", "MNW"} :
    SF_vars(RequestedMasternodeAssets = a /\ pc = "wait" /\ \E h \in Hash : AddedItem(a, h))

AnsweredSpec == FairSpec /\ PeersAnswer

\* The same with no other thread: Process itself finds cs_main free now and then.
AloneSpec == AnsweredSpec /\ SF_vars(CheckTest(TRUE))

----------------------------------------------------------------------------
TypeOK ==
  /\ RequestedMasternodeAssets \in Stage
  /\ RequestedMasternodeAttempt \in Nat
  /\ got \subseteq Asset /\ waived \subseteq Asset
  /\ quiet \in [Asset -> 0..Quiet]
  /\ seen \in [Asset -> [Hash -> 0..Threshold]]
  /\ clock \in Nat
  /\ overwritten \in BOOLEAN
  /\ stale \in BOOLEAN /\ fBlockchainSynced \in BOOLEAN
  /\ recent \in BOOLEAN /\ enabled \in BOOLEAN /\ enforced \in BOOLEAN
  /\ vNodes \subseteq Peer
  /\ asked \in [Peer -> SUBSET Stage]
  /\ pc \in {"wait", "begin", "restart", "check", "reset", "test", "loop", "next",
             "write", "fail"}
  /\ next \in [stage : Stage, attempt : 0..1]
  /\ caller \in [Caller -> {"idle", "reset", "clear", "rpc"}]
  /\ faults \in 0..MaxFault

\* A reset is under way: it has cleared the data and not yet the stage.
Resetting ==
  \/ pc \in {"restart", "reset"}
  \/ \E c \in Caller : caller[c] \in {"reset", "clear", "rpc"}

\* No reset is under way, and Process did not go on during the last one.
Calm == ~ Resetting /\ ~ overwritten

Later == {"MNW", "BUDGET", "FINISHED"}

\* "sporks synced but blockchain is not, wait until we're almost at a recent
\* block to continue" (masternode-sync.cpp:283): winners and budget are asked
\* for, and the node calls itself synchronised, only since the chain was; a
\* reset by any thread between two steps of Process takes the stage back with
\* the chain, unless Process went on while it was under way.
ChainSyncedFirst == Calm /\ RequestedMasternodeAssets \in Later => fBlockchainSynced

\* Under the same proviso a node past a stage has items of that stage, of after
\* the last reset, or gave the stage up while payments were not enforced.
FinishedWithData ==
  Calm =>
    /\ RequestedMasternodeAssets \in Later => "LIST" \in got \cup waived
    /\ RequestedMasternodeAssets \in Later \ {"MNW"} => "MNW" \in got \cup waived

\* Without the proviso: no reset is lost.
NoResetLost ==
  ~ Resetting /\ RequestedMasternodeAssets \in Later => fBlockchainSynced

\* Every peer counts as asked for sporks, of which stage there is no timeout:
\* ClearFulfilledRequest found cs_vNodes busy when the stage was entered.
Stranded == RequestedMasternodeAssets = "SPORKS" /\ Unasked("SPORKS") = {}

\* The node ends up synchronised, whatever resets and losses came before, also
\* while Process was at work, and although peers repeat what they announced;
\* or it is stranded for good, which takes a busy cs_vNodes.
SyncFinishes == <>[]Synced \/ <>[]Stranded

\* "if the last call to this function was more than 60 minutes ago (client was
\* in sleep mode) reset the sync process" (masternode-sync.cpp:55): a node that
\* was synchronised before a sleep does not stay so, under the same proviso.
SleepResyncs == stale /\ Synced ~> ~ Synced \/ overwritten

\* "Sync has failed on %s, will retry later" (masternode-sync.cpp:335): after a
\* failure the list is asked for again.
RetriesLater ==
  RequestedMasternodeAssets = "FAILED" ~> RequestedMasternodeAssets = "LIST"

\* "timeout" (masternode-sync.cpp:331): a list nobody sends is not waited for
\* for ever.
ListTimesOut ==
  RequestedMasternodeAssets = "LIST" ~> RequestedMasternodeAssets # "LIST"
=============================================================================
