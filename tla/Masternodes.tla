---------------------------- MODULE Masternodes ----------------------------
(***************************************************************************)
(* The life of one masternode in the lists of the network's nodes          *)
(* (masternode.cpp, masternodeman.cpp, activemasternode.cpp).  The wallet  *)
(* with the collateral runs on node Cold and announces the masternode with *)
(* broadcasts (mnb); the masternode itself runs on node Hot, which learns  *)
(* from a broadcast that it is active and then sends pings (mnp).  Every   *)
(* node lists the masternode in a state that depends on its last ping, and *)
(* asks for it (dseg) when it sees pings of a masternode it does not list. *)
(*                                                                         *)
(* A broadcast is identified by its sigTime and a ping by its own: the     *)
(* vin, the keys and the address are always the same ones.  Time goes in   *)
(* ticks of some minutes, in which messages are delivered or lost and the  *)
(* thread of every running node gets round its loop.  An announcement      *)
(* (inv), the request and the reply are one step: the receiver gets what   *)
(* the sender holds then.  Clocks agree; signatures, ports and the         *)
(* confirmations of the collateral are right; the chain is synchronised    *)
(* (module MasternodeSync), and MASTERNODE_CHECK_SECONDS is no time.       *)
(***************************************************************************)
EXTENDS Integers, FiniteSets

CONSTANTS Node, Hot, Cold,
          MinMnp,      \* MASTERNODE_MIN_MNP_SECONDS
          PingGap,     \* the same less a minute
          MinMnb,      \* MASTERNODE_MIN_MNB_SECONDS
          PingEvery,   \* MASTERNODE_PING_SECONDS
          Window,      \* the hour within which a ping must be signed
          Expiration,  \* MASTERNODE_EXPIRATION_SECONDS
          Removal,     \* MASTERNODE_REMOVAL_SECONDS
          MaxTime,     \* bound on time
          MaxStarts,   \* bound on the uses of startmasternode
          MaxOutages   \* bound on the times a node is stopped or suspended

ASSUME MasternodesAssumption ==
    /\ {Hot, Cold} \subseteq Node
    /\ {MinMnp, PingGap, MinMnb, PingEvery, Window, Expiration, Removal, MaxTime,
      MaxStarts, MaxOutages}
           \subseteq Nat
    /\ 0 < MinMnp /\ 0 < PingGap /\ 0 < PingEvery /\ 0 < Window /\ 0 < MaxTime
    /\ Window < Expiration /\ Expiration < Removal

VARIABLES now,       \* the time
          list,      \* the masternode's entry in vMasternodes
          seenMnb,   \* mapSeenMasternodeBroadcast: the last ping of each broadcast
          seenMnp,   \* mapSeenMasternodePing
          asked,     \* mWeAskedForMasternodeListEntry
          status,    \* activeMasternode.status at Hot
          vin,       \* activeMasternode.vin is set at Hot
          spentAt,   \* when the collateral was spent
          msgs,      \* announcements and requests on their way
          mode,      \* whether a node runs
          todo,      \* what its masternode thread has still to do in this tick
          sent,      \* the broadcasts so far
          outages    \* outages so far

lists == <<list, seenMnb, seenMnp, asked>>
active == <<status, vin>>
counters == <<sent, outages>>
vars == <<now, lists, active, spentAt, msgs, mode, todo, counters>>

Time == 1 .. MaxTime
Never == 0

\* No entry in the list.
None == [sig |-> Never, ping |-> Never, state |-> "none"]

State == {"none", "pre_enabled", "enabled", "expired", "remove", "vin_spent"}
Entry == [sig : 0 .. MaxTime, ping : 0 .. MaxTime, state : State]

Message == [kind : {"mnb", "mnp", "dseg"}, to : Node, from : Node, hash : 0 .. MaxTime]

TypeOK ==
    /\ now \in Nat /\ now \in 0 .. MaxTime
    /\ list \in [Node -> Entry]
    /\ \A n \in Node : list[n] = None \/ (list[n].state # "none" /\ list[n].sig # Never
                                           /\ list[n].ping # Never)
    /\ seenMnb \in [Node -> [Time -> 0 .. MaxTime]]
    /\ seenMnp \in [Node -> SUBSET Time]
    /\ asked \in [Node -> 0 .. MaxTime + MinMnp]
    /\ status \in {"initial", "not_capable", "started"}
    /\ vin \in BOOLEAN
    /\ spentAt \in 0 .. MaxTime
    /\ msgs \subseteq Message
    /\ mode \in [Node -> {"up", "suspended", "down"}]
    /\ todo \in [Node -> SUBSET {"check", "manage"}]
    /\ sent \subseteq Time
    /\ outages \in 0 .. MaxOutages

\* The work of ThreadCheckObfuScationPool in a tick.
Work(n) == IF n = Hot THEN {"check", "manage"} ELSE {"check"}

Init ==
    /\ now = 1
    /\ list = [n \in Node |-> None]
    /\ seenMnb = [n \in Node |-> [t \in Time |-> Never]]
    /\ seenMnp = [n \in Node |-> {}]
    /\ asked = [n \in Node |-> 0]
    /\ status = "initial" /\ vin = FALSE
    /\ spentAt = Never
    /\ msgs = {}
    /\ mode = [n \in Node |-> "up"]
    /\ todo = [n \in Node |-> Work(n)]
    /\ sent = {} /\ outages = 0

-----------------------------------------------------------------------------
(* CMasternode.                                                            *)

IsEnabled(e) == e.state = "enabled"
IsPingedWithin(e, seconds, time) == time - e.ping < seconds

MutantCheckForgetsSpent(e, locked) ==
    LET state ==
            IF e.state = "vin_spent" THEN "vin_spent"
            ELSE IF ~IsPingedWithin(e, Removal, now) THEN "remove"
            ELSE IF ~IsPingedWithin(e, Expiration, now) THEN "expired"
            ELSE IF e.ping - e.sig < MinMnp THEN "pre_enabled"
            ELSE IF ~locked THEN e.state
            ELSE "enabled"
    IN  [sig |-> e.sig, ping |-> e.ping, state |-> state]

\* CMasternode::Check.  Without cs_main the collateral is not looked at and
\* the state stays as it was.
Check(e, locked) ==
    LET state ==
            IF e.state = "vin_spent" THEN "vin_spent"
            ELSE IF ~IsPingedWithin(e, Removal, now) THEN "remove"
            ELSE IF ~IsPingedWithin(e, Expiration, now) THEN "expired"
            ELSE IF e.ping - e.sig < MinMnp THEN "pre_enabled"
            ELSE IF ~locked THEN e.state
            ELSE IF spentAt # Never THEN "vin_spent"
            ELSE "enabled"
    IN  [sig |-> e.sig, ping |-> e.ping, state |-> state]

\* The sigTime of a ping is recent (CMasternodePing::CheckAndUpdate with
\* fCheckSigTimeOnly: the signatures are right).
Recent(ping) == ping > now - Window

\* A listed masternode takes the ping.
Takes(e, ping) == Recent(ping) /\ ~IsPingedWithin(e, PingGap, ping)

\* It is the entry's new last ping.
WithPing(e, ping, locked) == Check([sig |-> e.sig, ping |-> ping, state |-> e.state], locked)

\* CMasternode::UpdateFromNewBroadcast.
UpdateFromNewBroadcast(e, sig, ping, locked) ==
    IF sig <= e.sig THEN e
    ELSE LET new == [sig |-> sig, ping |-> e.ping, state |-> e.state]
         IN  IF Takes(e, ping) THEN WithPing(new, ping, locked) ELSE new

\* The copy of the entry's broadcast, kept for other nodes, gets its last ping.
SeenWithPing(n, sig, ping) ==
    IF seenMnb[n][sig] = Never THEN seenMnb[n] ELSE [seenMnb[n] EXCEPT ![sig] = ping]

-----------------------------------------------------------------------------
(* Messages.                                                               *)

Relay(n, kind, hash) ==
    {[kind |-> kind, to |-> m, from |-> n, hash |-> hash] : m \in Node \ {n}}

Asking(n, m) == [kind |-> "dseg", to |-> m, from |-> n, hash |-> Never]

Running(n) == mode[n] = "up"

\* A broadcast that the node has, or that the sender no longer has.
IgnoreMnb(m) ==
    /\ m.kind = "mnb" /\ Running(m.to)
    /\ seenMnb[m.to][m.hash] # Never \/ seenMnb[m.from][m.hash] = Never
    /\ msgs' = msgs \ {m}
    /\ UNCHANGED <<now, lists, active, spentAt, mode, todo, counters>>

MutantMnbAcceptedAnyAge(n, sig, ping) == Recent(ping)

\* CMasternodeBroadcast::CheckAndUpdate succeeds.
MnbAccepted(n, sig, ping) == Recent(ping) /\ (list[n] = None \/ list[n].sig < sig)

\* "mnb": a broadcast that fails CMasternodeBroadcast::CheckAndUpdate is kept
\* as seen, and no more is done.
RefuseMnb(m) ==
    /\ m.kind = "mnb" /\ Running(m.to)
    /\ LET n == m.to
           ping == seenMnb[m.from][m.hash]
       IN  /\ seenMnb[n][m.hash] = Never /\ ping # Never
           /\ ~MnbAccepted(n, m.hash, ping)
           /\ seenMnb' = [seenMnb EXCEPT ![n] = [seenMnb[n] EXCEPT ![m.hash] = ping]]
    /\ msgs' = msgs \ {m}
    /\ UNCHANGED <<now, list, seenMnp, asked, active, spentAt, mode, todo, counters>>

\* CheckAndUpdate: an enabled entry that was not announced just before takes
\* the broadcast, and maybe its ping.
Updates(n) == IsEnabled(list[n]) /\ now - list[n].sig >= MinMnb
UpdatedEntry(n, sig, ping, locked) ==
    IF Updates(n) THEN Check(UpdateFromNewBroadcast(list[n], sig, ping, locked), locked)
    ELSE list[n]

\* CMasternodeBroadcast::CheckInputsAndAdd.  A masternode ignores its own
\* broadcasts, and a node that has the entry enabled is done.
MnbDone(n, e) == (n = Hot /\ vin) \/ IsEnabled(e)

KnownMnb(m, locked) ==
    /\ m.kind = "mnb" /\ Running(m.to)
    /\ LET n == m.to
           ping == seenMnb[m.from][m.hash]
           e == UpdatedEntry(n, m.hash, ping, locked)
       IN  /\ seenMnb[n][m.hash] = Never /\ ping # Never
           /\ MnbAccepted(n, m.hash, ping)
           /\ MnbDone(n, e)
           /\ list' = [list EXCEPT ![n] = e]
           /\ seenMnb' = [seenMnb EXCEPT ![n] = [seenMnb[n] EXCEPT ![m.hash] = ping]]
           /\ LET relays == Updates(n) /\ IsEnabled(e)
                  pinged == relays /\ Takes(list[n], ping)
              IN  /\ seenMnp' = [seenMnp EXCEPT ![n] = @ \cup {t \in {ping} : pinged}]
                  /\ msgs' = (msgs \ {m}) \cup {r \in Relay(n, "mnb", m.hash) : relays}
                                          \cup {r \in Relay(n, "mnp", ping) : pinged}
    /\ UNCHANGED <<now, asked, active, spentAt, mode, todo, counters>>

MutantAddMnbStaysSeen(m, locked) ==
    /\ m.kind = "mnb" /\ Running(m.to)
    /\ LET n == m.to
           ping == seenMnb[m.from][m.hash]
           added == locked /\ spentAt = Never
       IN  /\ seenMnb[n][m.hash] = Never /\ ping # Never
           /\ MnbAccepted(n, m.hash, ping)
           /\ ~MnbDone(n, UpdatedEntry(n, m.hash, ping, locked))
           /\ list' = [list EXCEPT ![n] =
                           IF added THEN [sig |-> m.hash, ping |-> ping, state |-> "enabled"]
                           ELSE None]
           /\ seenMnb' = [seenMnb EXCEPT ![n] = [seenMnb[n] EXCEPT ![m.hash] = ping]]
           /\ status' = IF added /\ n = Hot THEN "started" ELSE status
           /\ vin' = (vin \/ (added /\ n = Hot))
           /\ msgs' = (msgs \ {m}) \cup {r \in Relay(n, "mnb", m.hash) : added}
    /\ UNCHANGED <<now, seenMnp, asked, spentAt, mode, todo, counters>>

\* An entry that is not enabled is removed first.  If cs_main is busy the
\* broadcast is forgotten; if the collateral is spent that is all; otherwise
\* the new entry is added, and the node may find that it is the masternode.
AddMnb(m, locked) ==
    /\ m.kind = "mnb" /\ Running(m.to)
    /\ LET n == m.to
           ping == seenMnb[m.from][m.hash]
           added == locked /\ spentAt = Never
       IN  /\ seenMnb[n][m.hash] = Never /\ ping # Never
           /\ MnbAccepted(n, m.hash, ping)
           /\ ~MnbDone(n, UpdatedEntry(n, m.hash, ping, locked))
           /\ list' = [list EXCEPT ![n] =
                           IF added THEN [sig |-> m.hash, ping |-> ping, state |-> "enabled"]
                           ELSE None]
           /\ seenMnb' = [seenMnb EXCEPT ![n] = [seenMnb[n] EXCEPT ![m.hash] =
                                                     IF locked THEN ping ELSE Never]]
           /\ status' = IF added /\ n = Hot THEN "started" ELSE status
           /\ vin' = (vin \/ (added /\ n = Hot))
           /\ msgs' = (msgs \ {m}) \cup {r \in Relay(n, "mnb", m.hash) : added}
    /\ UNCHANGED <<now, seenMnp, asked, spentAt, mode, todo, counters>>

\* A ping that the node has, or that the sender no longer has.
IgnoreMnp(m) ==
    /\ m.kind = "mnp" /\ Running(m.to)
    /\ m.hash \in seenMnp[m.to] \/ m.hash \notin seenMnp[m.from]
    /\ msgs' = msgs \ {m}
    /\ UNCHANGED <<now, lists, active, spentAt, mode, todo, counters>>

\* "mnp" of an enabled entry: it takes the ping, unless it came too early.
TakeMnp(m, locked) ==
    /\ m.kind = "mnp" /\ Running(m.to)
    /\ m.hash \notin seenMnp[m.to] /\ m.hash \in seenMnp[m.from]
    /\ LET n == m.to
           e == list[n]
           new == WithPing(e, m.hash, locked)
       IN  /\ IsEnabled(e) /\ Takes(e, m.hash)
           /\ seenMnp' = [seenMnp EXCEPT ![n] = @ \cup {m.hash}]
           /\ list' = [list EXCEPT ![n] = new]
           /\ seenMnb' = [seenMnb EXCEPT ![n] = SeenWithPing(n, e.sig, m.hash)]
           /\ msgs' = (msgs \ {m}) \cup {r \in Relay(n, "mnp", m.hash) : IsEnabled(new)}
    /\ UNCHANGED <<now, asked, active, spentAt, mode, todo, counters>>

\* "mnp" that is refused.  The node asks for the masternode if it does not
\* list it or the ping is too old, and has not asked recently.
RefuseMnp(m) ==
    /\ m.kind = "mnp" /\ Running(m.to)
    /\ m.hash \notin seenMnp[m.to] /\ m.hash \in seenMnp[m.from]
    /\ LET n == m.to
           asks == (list[n] = None \/ ~Recent(m.hash)) /\ asked[n] <= now
       IN  /\ ~(IsEnabled(list[n]) /\ Takes(list[n], m.hash))
           /\ seenMnp' = [seenMnp EXCEPT ![n] = @ \cup {m.hash}]
           /\ asked' = [asked EXCEPT ![n] = IF asks THEN now + MinMnp ELSE @]
           /\ msgs' = (msgs \ {m}) \cup {r \in {Asking(n, m.from)} : asks}
    /\ UNCHANGED <<now, list, seenMnb, active, spentAt, mode, todo, counters>>

\* "dseg": the entry is announced to the peer if it is enabled.
ProcessDseg(m) ==
    /\ m.kind = "dseg" /\ Running(m.to)
    /\ LET n == m.to
           e == list[n]
       IN  IF IsEnabled(e)
           THEN /\ msgs' = (msgs \ {m}) \cup
                           {[kind |-> "mnb", to |-> m.from, from |-> n, hash |-> e.sig]}
                /\ seenMnb' = [seenMnb EXCEPT ![n] =
                                   IF seenMnb[n][e.sig] = Never
                                   THEN [seenMnb[n] EXCEPT ![e.sig] = e.ping] ELSE seenMnb[n]]
           ELSE /\ msgs' = msgs \ {m}
                /\ UNCHANGED seenMnb
    /\ UNCHANGED <<now, list, seenMnp, asked, active, spentAt, mode, todo, counters>>

-----------------------------------------------------------------------------
(* The owner.                                                              *)

\* RPC startmasternode: a broadcast with a first ping is created, put into
\* the wallet's own list (UpdateMasternodeList) and relayed.  (The entry is
\* PRE_ENABLED then, whether or not cs_main is free.)
StartMasternode ==
    /\ Running(Cold)
    /\ Cardinality(sent) < MaxStarts
    /\ now \notin sent
    /\ sent' = sent \cup {now}
    /\ spentAt = Never
    /\ seenMnp' = [seenMnp EXCEPT ![Cold] = @ \cup {now}]
    /\ seenMnb' = [seenMnb EXCEPT ![Cold] = [seenMnb[Cold] EXCEPT ![now] = now]]
    /\ list' = [list EXCEPT ![Cold] =
                    IF @ = None THEN [sig |-> now, ping |-> now, state |-> "enabled"]
                    ELSE UpdateFromNewBroadcast(@, now, now, TRUE)]
    /\ msgs' = msgs \cup Relay(Cold, "mnb", now)
    /\ UNCHANGED <<now, asked, active, spentAt, mode, todo, outages>>

Spend ==
    /\ spentAt = Never
    /\ spentAt' = now
    /\ UNCHANGED <<now, lists, active, msgs, mode, todo, counters>>

-----------------------------------------------------------------------------
(* ThreadCheckObfuScationPool.                                             *)

MutantKeptWhenSilent(e, forceExpiredRemoval) == e.state # "vin_spent"

\* What is left after a Check of the entry; forced when the list is loaded.
Kept(e, forceExpiredRemoval) ==
    \/ e.state \in {"pre_enabled", "enabled"}
    \/ e.state = "expired" /\ ~forceExpiredRemoval

Old(t) == t < now - 2 * Removal

MutantCheckAndRemoveAny(n, forceExpiredRemoval, locked) ==
    LET e == Check(list[n], locked)
        gone == ~Kept(e, forceExpiredRemoval)
    IN  /\ list' = [list EXCEPT ![n] = IF gone THEN None ELSE e]
        /\ seenMnb' = [seenMnb EXCEPT ![n] =
                           [t \in Time |-> IF gone \/ Old(seenMnb[n][t]) THEN Never
                                           ELSE seenMnb[n][t]]]
        /\ seenMnp' = [seenMnp EXCEPT ![n] = {t \in seenMnp[n] : ~Old(t)}]
        /\ asked' = [asked EXCEPT ![n] = IF gone THEN 0 ELSE @]

\* CMasternodeMan::CheckAndRemove.
CheckAndRemove(n, forceExpiredRemoval, locked) ==
    LET e == Check(list[n], locked)
        gone == list[n] # None /\ ~Kept(e, forceExpiredRemoval)
    IN  /\ list' = [list EXCEPT ![n] = IF list[n] = None \/ gone THEN None ELSE e]
        /\ seenMnb' = [seenMnb EXCEPT ![n] =
                           [t \in Time |-> IF gone \/ Old(seenMnb[n][t]) THEN Never
                                           ELSE seenMnb[n][t]]]
        /\ seenMnp' = [seenMnp EXCEPT ![n] = {t \in seenMnp[n] : ~Old(t)}]
        /\ asked' = [asked EXCEPT ![n] = IF gone THEN 0 ELSE @]

\* The thread gets round several times in a tick, and at least once while
\* cs_main is free.
ThreadChecksBusy(n) ==
    /\ Running(n) /\ "check" \in todo[n]
    /\ CheckAndRemove(n, FALSE, FALSE)
    /\ UNCHANGED <<now, active, spentAt, msgs, mode, todo, counters>>

ThreadChecks(n) ==
    /\ Running(n) /\ "check" \in todo[n]
    /\ CheckAndRemove(n, FALSE, TRUE)
    /\ todo' = [todo EXCEPT ![n] = @ \ {"check"}]
    /\ UNCHANGED <<now, active, spentAt, msgs, mode, counters>>

\* CActiveMasternode::ManageStatus of a node that is not active: if it has
\* just started and its list has the masternode enabled, it is active.
ManageActivates(locked) ==
    /\ Running(Hot) /\ "manage" \in todo[Hot]
    /\ status = "initial" /\ list[Hot] # None
    /\ IsEnabled(Check(list[Hot], locked))
    /\ list' = [list EXCEPT ![Hot] = Check(list[Hot], locked)]
    /\ status' = "started" /\ vin' = TRUE
    /\ UNCHANGED <<now, seenMnb, seenMnp, asked, spentAt, msgs, mode, todo, counters>>

\* Otherwise it waits for remote activation.
ManageWaits(locked) ==
    /\ Running(Hot) /\ "manage" \in todo[Hot]
    /\ status # "started"
    /\ IF status = "initial" /\ list[Hot] # None
       THEN LET e == Check(list[Hot], locked)
            IN  ~IsEnabled(e) /\ list' = [list EXCEPT ![Hot] = e]
       ELSE UNCHANGED list
    /\ status' = "not_capable"
    /\ todo' = [todo EXCEPT ![Hot] = @ \ {"manage"}]
    /\ UNCHANGED <<now, seenMnb, seenMnp, asked, vin, spentAt, msgs, mode, counters>>

\* SendMasternodePing: the own entry gets the ping, which is relayed, unless
\* it is too early.
SendMasternodePing ==
    /\ Running(Hot) /\ "manage" \in todo[Hot]
    /\ status = "started"
    /\ list[Hot] # None
    /\ LET e == list[Hot]
       IN  IF IsPingedWithin(e, PingEvery, now)
           THEN UNCHANGED <<list, seenMnb, seenMnp, msgs>>
           ELSE /\ list' = [list EXCEPT ![Hot] =
                                [sig |-> e.sig, ping |-> now, state |-> e.state]]
                /\ seenMnp' = [seenMnp EXCEPT ![Hot] = @ \cup {now}]
                /\ seenMnb' = [seenMnb EXCEPT ![Hot] = SeenWithPing(Hot, e.sig, now)]
                /\ msgs' = msgs \cup Relay(Hot, "mnp", now)
    /\ todo' = [todo EXCEPT ![Hot] = @ \ {"manage"}]
    /\ UNCHANGED <<now, asked, active, spentAt, mode, counters>>

\* The list does not have the masternode any more: it stops.
StopPinging ==
    /\ Running(Hot) /\ "manage" \in todo[Hot]
    /\ status = "started"
    /\ list[Hot] = None
    /\ status' = "not_capable"
    /\ todo' = [todo EXCEPT ![Hot] = @ \ {"manage"}]
    /\ UNCHANGED <<now, lists, vin, spentAt, msgs, mode, counters>>

-----------------------------------------------------------------------------
(* Outages.                                                                *)

\* The process ends, and DumpMasternodes saves the list; or it is suspended.
Outage(n, how) ==
    /\ Running(n)
    /\ outages < MaxOutages
    /\ mode' = [mode EXCEPT ![n] = how]
    /\ outages' = outages + 1
    /\ UNCHANGED <<now, lists, active, spentAt, msgs, todo, sent>>

\* After a start, and after a sleep of more than an hour (Window), the
\* masternode lists of the peers are asked for again.
Asks(n) == {Asking(n, m) : m \in Node \ {n}}

\* CMasternodeDB::Read, before any thread is started that takes cs_main.
Start(n) ==
    /\ mode[n] = "down"
    /\ mode' = [mode EXCEPT ![n] = "up"]
    /\ CheckAndRemove(n, TRUE, TRUE)
    /\ IF n = Hot THEN status' = "initial" /\ vin' = FALSE ELSE UNCHANGED active
    /\ msgs' = msgs \cup Asks(n)
    /\ UNCHANGED <<now, spentAt, todo, counters>>

Resume(n) ==
    /\ mode[n] = "suspended"
    /\ mode' = [mode EXCEPT ![n] = "up"]
    /\ msgs' = msgs \cup Asks(n)
    /\ UNCHANGED <<now, lists, active, spentAt, todo, counters>>

Tick ==
    /\ now < MaxTime
    /\ \A n \in Node : Running(n) => todo[n] = {}
    /\ now' = now + 1
    /\ msgs' = {}
    /\ todo' = [n \in Node |-> Work(n)]
    /\ UNCHANGED <<lists, active, spentAt, mode, counters>>

-----------------------------------------------------------------------------
Receive(m) ==
    \/ IgnoreMnb(m) \/ RefuseMnb(m)
    \/ \E locked \in BOOLEAN : KnownMnb(m, locked) \/ AddMnb(m, locked) \/ TakeMnp(m, locked)
    \/ IgnoreMnp(m) \/ RefuseMnp(m)
    \/ ProcessDseg(m)

Next ==
    \/ \E m \in msgs : Receive(m)
    \/ StartMasternode
    \/ Spend
    \/ \E n \in Node : ThreadChecks(n) \/ ThreadChecksBusy(n)
    \/ \E locked \in BOOLEAN : ManageActivates(locked) \/ ManageWaits(locked)
    \/ SendMasternodePing
    \/ StopPinging
    \/ \E n \in Node : Outage(n, "down") \/ Outage(n, "suspended") \/ Start(n) \/ Resume(n)
    \/ Tick

Spec == Init /\ [][Next]_vars

-----------------------------------------------------------------------------
(* Properties.                                                             *)

\* While a node lists the masternode, no older broadcast replaces the one it
\* has, from whatever peer and however late, and its last ping goes back by
\* less than MASTERNODE_MIN_MNP_SECONDS (a new broadcast may carry a first
\* ping that is older than the last one of the broadcast before).
NeverBackwards ==
    [][\A n \in Node : list[n] # None /\ list'[n] # None =>
           list[n].sig <= list'[n].sig /\ list[n].ping - MinMnp < list'[n].ping]_vars

\* Once a running node has gone round its loop it lists no masternode that
\* has been silent for MASTERNODE_REMOVAL_SECONDS, and none as enabled that
\* has been silent for MASTERNODE_EXPIRATION_SECONDS.
SilentGone ==
    \A n \in Node : Running(n) /\ "check" \notin todo[n] /\ list[n] # None =>
        /\ now - list[n].ping < Removal
        /\ IsEnabled(list[n]) => now - list[n].ping < Expiration

\* From the tick after the one in which its collateral is spent, no running
\* node that has gone round its loop has the masternode enabled again,
\* whatever broadcasts and pings are still on their way.
SpentNotEnabled ==
    \A n \in Node : /\ Running(n) /\ "check" \notin todo[n]
                    /\ spentAt # Never /\ spentAt < now
                    => ~IsEnabled(list[n])

\* "not mnb fault, let it to be checked again later": a node that does not
\* list the masternode does not ignore its newest broadcast as already seen,
\* unless it came with a ping that was too old.  (Hot ignores its own.)  This
\* takes an owner who lets MASTERNODE_MIN_MNB_SECONDS pass between broadcasts:
\* a node ignores one that comes earlier and may lose its entry to another.
Patient == \A t, u \in sent : t < u => u - t >= MinMnb
Newest(t) == t \in sent /\ \A u \in sent : u <= t
NewestNotShutOut ==
    Patient /\ spentAt = Never =>
        \A n \in Node \ {Hot}, t \in Time :
            Newest(t) /\ list[n] = None /\ seenMnb[n][t] # Never => ~Recent(seenMnb[n][t])

\* "if it matches our Masternode privkey, then we've been remotely activated":
\* Hot is active after a new broadcast of a masternode it does not list.
RemotelyActivated ==
    [][\A m \in msgs : (KnownMnb(m, TRUE) \/ AddMnb(m, TRUE)) /\ m.to = Hot /\ list[Hot] = None
                       /\ spentAt = Never
           => status' = "started"]_vars
=============================================================================
