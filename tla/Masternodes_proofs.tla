------------------------- MODULE Masternodes_proofs -------------------------
(***************************************************************************)
(* Proofs about Masternodes, for every set of nodes and all time limits    *)
(* that keep the order Window < Expiration < Removal.                      *)
(*                                                                         *)
(* The argument: every entry is Good: its times lie in the past, its state *)
(* says the truth about its last ping unless the node is the masternode    *)
(* itself (which gives its own entry pings without a Check), and after the *)
(* loop of the tick it is neither silent for too long nor enabled with a   *)
(* spent collateral.  Every step keeps the entries of all nodes Good, and  *)
(* a Good entry is only replaced by a broadcast that is newer.             *)
(***************************************************************************)
EXTENDS Masternodes, TLAPS

\* An entry at a time, with the collateral spent or not, in the list of a
\* node that is the active masternode or not, checked in this tick or not.
Good(e, time, spent, own, checked) ==
    /\ e \in Entry
    /\ e = None \/ (e.state # "none" /\ e.sig # Never /\ e.ping # Never)
    /\ e.sig <= time /\ e.ping <= time
    /\ e.sig < e.ping + PingGap
    /\ ~own => /\ e.state = "pre_enabled" => e.ping - e.sig < MinMnp
               /\ e.state \in {"expired", "remove"} => time - e.ping >= Expiration
    /\ e.state = "vin_spent" => spent # Never
    /\ checked /\ e # None =>
           /\ time - e.ping < Removal
           /\ e.state = "enabled" => time - e.ping < Expiration
    /\ checked /\ spent # Never /\ spent < time => e.state # "enabled"

Own(n) == n = Hot /\ vin
Checked(n) == "check" \notin todo[n]

EntriesGood == \A n \in Node : Good(list[n], now, spentAt, Own(n), Checked(n))

\* A broadcast never has a ping that is older than itself, and nothing comes
\* from the future.
Past ==
    /\ \A n \in Node, t \in Time : /\ seenMnb[n][t] <= now
                                   /\ seenMnb[n][t] # Never => t <= seenMnb[n][t]
    /\ \A n \in Node : \A t \in seenMnp[n] : t <= now
    /\ \A m \in msgs : m.kind # "dseg" => m.hash \in Time /\ m.hash <= now
    /\ spentAt <= now
    /\ 1 <= now

\* An active masternode knows its vin.
Started == status = "started" => vin

\* The broadcast of an entry is kept at least until the next ping.
SigSeen ==
    \A n \in Node : list[n] # None =>
        seenMnb[n][list[n].sig] # Never \/ list[n].sig <= list[n].ping

IndInv == TypeOK /\ EntriesGood /\ Past /\ Started /\ SigSeen

-----------------------------------------------------------------------------
(* What the operators return.                                              *)

LEMMA Constants ==
    /\ Hot \in Node /\ Cold \in Node
    /\ MinMnp \in Nat /\ PingGap \in Nat /\ MinMnb \in Nat /\ PingEvery \in Nat
    /\ Window \in Nat /\ Expiration \in Nat /\ Removal \in Nat /\ MaxTime \in Nat
    /\ MaxStarts \in Nat /\ MaxOutages \in Nat
    /\ 0 < MinMnp /\ 0 < PingGap /\ 0 < PingEvery /\ 0 < Window /\ 0 < MaxTime
    /\ Window < Expiration /\ Expiration < Removal
  BY MasternodesAssumption

LEMMA NoneEntry ==
    /\ None \in Entry
    /\ None.sig = 0 /\ None.ping = 0 /\ None.state = "none"
  BY Constants DEF None, Entry, Never, State

LEMMA NoneGood ==
    ASSUME NEW time \in Nat, NEW spent, NEW own, NEW checked
    PROVE  Good(None, time, spent, own, checked)
  BY NoneEntry, Constants DEF Good

\* Check keeps the times of an entry and finds its state.
LEMMA CheckFacts ==
    ASSUME now \in Nat, NEW e \in Entry, NEW locked \in BOOLEAN
    PROVE  /\ Check(e, locked) \in Entry
           /\ Check(e, locked).sig = e.sig
           /\ Check(e, locked).ping = e.ping
           /\ e.state # "none" => Check(e, locked).state # "none"
           /\ Check(e, locked).state = "enabled" => now - e.ping < Expiration
           /\ e.state = "enabled" \/ locked =>
                /\ Check(e, locked).state = "pre_enabled" => e.ping - e.sig < MinMnp
                /\ Check(e, locked).state \in {"expired", "remove"} =>
                       now - e.ping >= Expiration
           /\ Check(e, locked).state = "pre_enabled" =>
                  e.ping - e.sig < MinMnp \/ e.state = "pre_enabled"
           /\ Check(e, locked).state \in {"expired", "remove"} =>
                  now - e.ping >= Expiration \/ e.state \in {"expired", "remove"}
           /\ Check(e, locked).state = "enabled" /\ ~locked => e.state = "enabled"
           /\ Check(e, locked).state = "vin_spent" =>
                  e.state = "vin_spent" \/ spentAt # Never
           /\ locked /\ Check(e, locked).state = "enabled" => spentAt = Never
           /\ Check(e, locked).state \in {"pre_enabled", "enabled", "expired"} =>
                  now - e.ping < Removal
           /\ now - e.ping < Expiration /\ e.ping - e.sig >= MinMnp /\ e.state = "enabled" =>
                  Check(e, locked).state \in {"enabled", "vin_spent"}
  <1> DEFINE state ==
            IF e.state = "vin_spent" THEN "vin_spent"
            ELSE IF ~IsPingedWithin(e, Removal, now) THEN "remove"
            ELSE IF ~IsPingedWithin(e, Expiration, now) THEN "expired"
            ELSE IF e.ping - e.sig < MinMnp THEN "pre_enabled"
            ELSE IF ~locked THEN e.state
            ELSE IF spentAt # Never THEN "vin_spent"
            ELSE "enabled"
  <1>0. /\ e.sig \in 0 .. MaxTime /\ e.ping \in 0 .. MaxTime /\ e.state \in State
        /\ e.sig \in Int /\ e.ping \in Int
    BY Constants DEF Entry
  <1>1. Check(e, locked) = [sig |-> e.sig, ping |-> e.ping, state |-> state]
    BY DEF Check
  <1>2. state \in State
    BY <1>0 DEF State
  <1>3. /\ e.state # "none" => state # "none"
        /\ state = "enabled" => now - e.ping < Expiration
        /\ e.state = "enabled" \/ locked =>
              /\ state = "pre_enabled" => e.ping - e.sig < MinMnp
              /\ state \in {"expired", "remove"} => now - e.ping >= Expiration
        /\ state = "pre_enabled" => e.ping - e.sig < MinMnp \/ e.state = "pre_enabled"
        /\ state \in {"expired", "remove"} =>
              now - e.ping >= Expiration \/ e.state \in {"expired", "remove"}
        /\ state = "enabled" /\ ~locked => e.state = "enabled"
        /\ state = "vin_spent" => e.state = "vin_spent" \/ spentAt # Never
        /\ locked /\ state = "enabled" => spentAt = Never
        /\ state \in {"pre_enabled", "enabled", "expired"} => now - e.ping < Removal
        /\ now - e.ping < Expiration /\ e.ping - e.sig >= MinMnp /\ e.state = "enabled" =>
              state \in {"enabled", "vin_spent"}
    BY <1>0, Constants DEF IsPingedWithin, Never
  <1> HIDE DEF state
  <1>4. [sig |-> e.sig, ping |-> e.ping, state |-> state] \in Entry
    BY <1>0, <1>2 DEF Entry
  <1> QED BY <1>1, <1>3, <1>4

\* The parts of a record.
LEMMA EntryParts ==
    ASSUME NEW e \in Entry
    PROVE  /\ e.sig \in 0 .. MaxTime /\ e.ping \in 0 .. MaxTime /\ e.state \in State
           /\ e.sig \in Int /\ e.ping \in Int
  BY Constants DEF Entry

\* A Check leaves a Good entry Good.
LEMMA CheckGood ==
    ASSUME now \in Nat, spentAt \in Nat, NEW own \in BOOLEAN, NEW checked \in BOOLEAN, NEW e,
           Good(e, now, spentAt, own, checked), e # None, NEW locked \in BOOLEAN
    PROVE  Good(Check(e, locked), now, spentAt, own, checked) /\ Check(e, locked) # None
  <1>1. e \in Entry /\ e.sig \in Int /\ e.ping \in Int
    BY EntryParts DEF Good
  <1> DEFINE c == Check(e, locked)
  <1>2. /\ c \in Entry /\ c.sig = e.sig /\ c.ping = e.ping /\ c.state # "none"
        /\ c.state = "enabled" => now - e.ping < Expiration
        /\ c.state = "pre_enabled" => e.ping - e.sig < MinMnp \/ e.state = "pre_enabled"
        /\ c.state \in {"expired", "remove"} =>
              now - e.ping >= Expiration \/ e.state \in {"expired", "remove"}
        /\ c.state = "vin_spent" => e.state = "vin_spent" \/ spentAt # Never
        /\ locked /\ c.state = "enabled" => spentAt = Never
        /\ ~locked /\ c.state = "enabled" => e.state = "enabled"
    BY <1>1, CheckFacts DEF Good
  <1> HIDE DEF c
  <1>3. c # None
    BY <1>2, NoneEntry
  <1> QED
    <2> SUFFICES Good(c, now, spentAt, own, checked)
      BY <1>3 DEF c
    <2> QED BY <1>1, <1>2, <1>3 DEF Good

\* An entry stays Good when it takes a recent ping, with the same sigTime or
\* another one.
LEMMA PingGood ==
    ASSUME now \in Nat, spentAt \in Nat, NEW own \in BOOLEAN, NEW checked \in BOOLEAN, NEW e,
           Good(e, now, spentAt, own, checked), e # None,
           NEW locked \in BOOLEAN, e.state = "enabled" \/ locked,
           NEW sig \in Time, sig <= now,
           NEW ping \in Time, ping <= now, Recent(ping), sig < ping + PingGap
    PROVE  LET c == Check([sig |-> sig, ping |-> ping, state |-> e.state], locked)
           IN  /\ Good(c, now, spentAt, own, checked)
               /\ c # None /\ c.sig = sig /\ c.ping = ping
  <1>1. e \in Entry /\ e.state \in State
    BY EntryParts DEF Good
  <1> DEFINE r == [sig |-> sig, ping |-> ping, state |-> e.state]
  <1>2. r \in Entry /\ r.sig = sig /\ r.ping = ping /\ r.state = e.state
    BY <1>1, Constants DEF Entry, Time
  <1> HIDE DEF r
  <1> DEFINE c == Check(r, locked)
  <1>3. r.state # "none" /\ (r.state = "enabled" \/ locked)
    BY <1>2 DEF Good
  <1>4. /\ c \in Entry /\ c.sig = sig /\ c.ping = ping /\ c.state # "none"
        /\ c.state = "pre_enabled" => ping - sig < MinMnp
        /\ c.state \in {"expired", "remove"} => now - ping >= Expiration
        /\ c.state = "vin_spent" => e.state = "vin_spent" \/ spentAt # Never
        /\ locked /\ c.state = "enabled" => spentAt = Never
        /\ ~locked /\ c.state = "enabled" => e.state = "enabled"
    BY <1>2, <1>3, CheckFacts
  <1> HIDE DEF c
  <1>5. c # None
    BY <1>4, NoneEntry
  <1>6. /\ now - ping < Expiration /\ ping # Never /\ ping \in Int
        /\ sig # Never /\ sig \in Int
    BY Constants DEF Recent, Time, Never
  <1>7. Good(c, now, spentAt, own, checked)
    BY <1>1, <1>4, <1>5, <1>6, Constants DEF Good
  <1> QED BY <1>4, <1>5, <1>7 DEF c, r

\* An entry that takes a broadcast stays Good, and goes forward.
LEMMA UpdateGood ==
    ASSUME now \in Nat, spentAt \in Nat, NEW own \in BOOLEAN, NEW checked \in BOOLEAN, NEW e,
           Good(e, now, spentAt, own, checked), e # None,
           NEW locked \in BOOLEAN, e.state = "enabled" \/ locked,
           NEW sig \in Time, sig <= now, NEW ping \in Time, ping <= now,
           sig <= ping, Recent(ping)
    PROVE  LET u == UpdateFromNewBroadcast(e, sig, ping, locked)
           IN  /\ Good(u, now, spentAt, own, checked)
               /\ u # None
               /\ e.sig <= u.sig /\ e.ping <= u.ping
               /\ u.sig = e.sig \/ u.sig = sig
               /\ e.sig < sig => u.sig = sig
               /\ u.sig = e.sig => u.ping = e.ping
               /\ u.ping = e.ping \/ u.ping = ping
  <1>1. /\ e \in Entry /\ e.sig \in Int /\ e.ping \in Int /\ e.ping \in 0 .. MaxTime
        /\ e.state \in State /\ sig \in Int /\ ping \in Int /\ sig # Never
    BY EntryParts, Constants DEF Good, Time, Never
  <1>2. CASE sig <= e.sig
    <2>1. UpdateFromNewBroadcast(e, sig, ping, locked) = e
      BY <1>2 DEF UpdateFromNewBroadcast
    <2> QED BY <1>1, <1>2, <2>1
  <1>3. CASE e.sig < sig
    <2> DEFINE r == [sig |-> sig, ping |-> e.ping, state |-> e.state]
    <2>1. r \in Entry /\ r.sig = sig /\ r.ping = e.ping /\ r.state = e.state
      BY <1>1, Constants DEF Entry, Time
    <2>2. UpdateFromNewBroadcast(e, sig, ping, locked) =
              IF Takes(e, ping) THEN WithPing(r, ping, locked) ELSE r
      BY <1>1, <1>3 DEF UpdateFromNewBroadcast
    <2>3. WithPing(r, ping, locked) =
              Check([sig |-> sig, ping |-> ping, state |-> e.state], locked)
      BY <2>1 DEF WithPing
    <2> HIDE DEF r
    <2>5. CASE Takes(e, ping)
      <3> DEFINE c == Check([sig |-> sig, ping |-> ping, state |-> e.state], locked)
      <3>1. Recent(ping) /\ ping - e.ping >= PingGap
        BY <2>5, <1>1, Constants DEF Takes, IsPingedWithin
      <3>2. /\ Good(c, now, spentAt, own, checked)
            /\ c # None /\ c.sig = sig /\ c.ping = ping
        BY <1>1, Constants, PingGood
      <3> HIDE DEF c
      <3>3. UpdateFromNewBroadcast(e, sig, ping, locked) = c
        BY <2>2, <2>3, <2>5 DEF c
      <3> QED BY <1>1, <1>3, <3>1, <3>2, <3>3, Constants
    <2>6. CASE ~Takes(e, ping)
      <3>1. ping - e.ping < PingGap
        BY <2>6, <1>1, Constants DEF Takes, IsPingedWithin
      <3>2. r # None
        BY <2>1, NoneEntry DEF Good
      <3>3. Good(r, now, spentAt, own, checked)
        BY <1>1, <1>3, <2>1, <3>1, <3>2, Constants DEF Good, Never
      <3>4. UpdateFromNewBroadcast(e, sig, ping, locked) = r
        BY <2>2, <2>6
      <3> QED BY <1>1, <1>3, <2>1, <3>2, <3>3, <3>4
    <2> QED BY <2>5, <2>6
  <1> QED BY <1>1, <1>2, <1>3

\* A broadcast brings a new entry.
LEMMA NewGood ==
    ASSUME now \in Nat, NEW own, NEW checked, NEW sig \in Time, sig <= now,
           NEW ping \in Time, ping <= now, sig <= ping, Recent(ping)
    PROVE  LET e == [sig |-> sig, ping |-> ping, state |-> "enabled"]
           IN  /\ Good(e, now, Never, own, checked)
               /\ e # None /\ e.sig = sig /\ e.ping = ping
  <1> DEFINE e == [sig |-> sig, ping |-> ping, state |-> "enabled"]
  <1>1. e \in Entry /\ e.sig = sig /\ e.ping = ping /\ e.state = "enabled"
    BY Constants DEF Entry, Time, State
  <1> HIDE DEF e
  <1>2. e # None
    BY <1>1, NoneEntry
  <1>3. Good(e, now, Never, own, checked)
    BY <1>1, <1>2, Constants DEF Good, Never, Time, Recent
  <1> QED BY <1>1, <1>2, <1>3 DEF e

-----------------------------------------------------------------------------
(* What a step changes: one entry, one broadcast seen, messages.           *)

\* What is Good stays so for a node that becomes the active masternode, or
\* that has its check still to do.
LEMMA GoodWeaker ==
    ASSUME NEW e, NEW time, NEW spent, NEW own, NEW checked, NEW own2, NEW checked2,
           Good(e, time, spent, own, checked), own => own2, checked2 => checked
    PROVE  Good(e, time, spent, own2, checked2)
  BY DEF Good

LEMMA EntryStep ==
    ASSUME IndInv, NEW n \in Node, NEW x, list' = [list EXCEPT ![n] = x],
           now' = now, spentAt' = spentAt,
           Good(x, now, spentAt, Own(n)', Checked(n)'),
           \A k \in Node \ {n} : (Own(k) => Own(k)') /\ (Checked(k)' => Checked(k))
    PROVE  /\ EntriesGood'
           /\ list' \in [Node -> Entry]
           /\ \A k \in Node : list'[k] = None \/ (list'[k].state # "none"
                                   /\ list'[k].sig # Never /\ list'[k].ping # Never)
           /\ list'[n] = x /\ \A k \in Node \ {n} : list'[k] = list[k]
  <1>1. list'[n] = x /\ \A k \in Node \ {n} : list'[k] = list[k]
    BY DEF IndInv, TypeOK
  <1>2. ASSUME NEW k \in Node
        PROVE  Good(list'[k], now, spentAt, Own(k)', Checked(k)')
    <2>1. CASE k = n
      BY <1>1, <2>1
    <2>2. CASE k # n
      <3>1. Good(list[k], now, spentAt, Own(k), Checked(k))
        BY DEF IndInv, EntriesGood
      <3> QED BY <1>1, <2>2, <3>1, GoodWeaker
    <2> QED BY <2>1, <2>2
  <1>3. EntriesGood'
    BY <1>2 DEF EntriesGood
  <1>4. x \in Entry
    BY DEF Good
  <1>5. list' \in [Node -> Entry]
    BY <1>4 DEF IndInv, TypeOK
  <1>6. \A k \in Node : list'[k] = None \/ (list'[k].state # "none"
                                   /\ list'[k].sig # Never /\ list'[k].ping # Never)
    BY <1>2 DEF Good
  <1> QED BY <1>1, <1>3, <1>5, <1>6

\* No entry changes.
LEMMA SameEntries ==
    ASSUME IndInv, list' = list, now' = now, spentAt' = spentAt,
           \A k \in Node : (Own(k) => Own(k)') /\ (Checked(k)' => Checked(k))
    PROVE  EntriesGood'
  <1>1. ASSUME NEW k \in Node
        PROVE  Good(list'[k], now', spentAt', Own(k)', Checked(k)')
    <2>1. Good(list[k], now, spentAt, Own(k), Checked(k))
      BY DEF IndInv, EntriesGood
    <2> QED BY <2>1, GoodWeaker
  <1> QED BY <1>1 DEF EntriesGood

\* The parts of Past that a step may disturb.
SeenPast(seen, time) ==
    /\ seen \in [Node -> [Time -> 0 .. MaxTime]]
    /\ \A n \in Node, t \in Time : /\ seen[n][t] <= time
                                   /\ seen[n][t] # Never => t <= seen[n][t]
PingsPast(seen, time) ==
    /\ seen \in [Node -> SUBSET Time]
    /\ \A n \in Node : \A t \in seen[n] : t <= time
MsgsPast(ms, time) ==
    /\ ms \subseteq Message
    /\ \A m \in ms : m.kind # "dseg" => m.hash \in Time /\ m.hash <= time

LEMMA PastParts ==
    ASSUME IndInv
    PROVE  /\ SeenPast(seenMnb, now) /\ PingsPast(seenMnp, now) /\ MsgsPast(msgs, now)
           /\ now \in Nat /\ now \in Time /\ now \in 0 .. MaxTime /\ 1 <= now
           /\ spentAt \in Nat /\ spentAt <= now
           /\ \A n \in Node : Own(n) \in BOOLEAN /\ Checked(n) \in BOOLEAN
           /\ \A n \in Node : Good(list[n], now, spentAt, Own(n), Checked(n))
  BY Constants DEF IndInv, TypeOK, Past, SeenPast, PingsPast, MsgsPast, Time, EntriesGood,
                   Own, Checked

\* One broadcast is seen with a ping.
SeenSet(n, h, p) == [seenMnb EXCEPT ![n] = [seenMnb[n] EXCEPT ![h] = p]]

LEMMA SeenStep ==
    ASSUME SeenPast(seenMnb, now), now \in Nat, NEW n \in Node, NEW h \in Time,
           NEW p \in 0 .. MaxTime, p <= now, p # Never => h <= p,
           seenMnb' = SeenSet(n, h, p)
    PROVE  /\ SeenPast(seenMnb', now)
           /\ seenMnb'[n][h] = p
           /\ \A k \in Node, t \in Time : ~(k = n /\ t = h) => seenMnb'[k][t] = seenMnb[k][t]
  <1> DEFINE f == [seenMnb[n] EXCEPT ![h] = p]
  <1>1. seenMnb[n] \in [Time -> 0 .. MaxTime]
    BY DEF SeenPast
  <1>2. f \in [Time -> 0 .. MaxTime] /\ f[h] = p /\ \A t \in Time : t # h => f[t] = seenMnb[n][t]
    BY <1>1
  <1>3. seenMnb' = [seenMnb EXCEPT ![n] = f]
    BY DEF SeenSet
  <1> HIDE DEF f
  <1>4. /\ seenMnb' \in [Node -> [Time -> 0 .. MaxTime]]
        /\ seenMnb'[n] = f /\ \A k \in Node : k # n => seenMnb'[k] = seenMnb[k]
    BY <1>2, <1>3 DEF SeenPast
  <1>5. \A k \in Node, t \in Time : ~(k = n /\ t = h) => seenMnb'[k][t] = seenMnb[k][t]
    BY <1>2, <1>4
  <1>6. \A k \in Node, t \in Time : /\ seenMnb'[k][t] <= now
                                    /\ seenMnb'[k][t] # Never => t <= seenMnb'[k][t]
    BY <1>2, <1>4 DEF SeenPast
  <1> QED BY <1>2, <1>4, <1>5, <1>6 DEF SeenPast

\* What Relay sends.
LEMMA RelayPast ==
    ASSUME NEW n \in Node, NEW kind \in {"mnb", "mnp"}, NEW h \in Time, NEW time, h <= time
    PROVE  MsgsPast(Relay(n, kind, h), time)
  <1>1. h \in 0 .. MaxTime
    BY Constants DEF Time
  <1>2. ASSUME NEW k \in Node
        PROVE  /\ [kind |-> kind, to |-> k, from |-> n, hash |-> h] \in Message
               /\ [kind |-> kind, to |-> k, from |-> n, hash |-> h].hash = h
    BY <1>1 DEF Message
  <1>3. \A r \in Relay(n, kind, h) : \E k \in Node :
            r = [kind |-> kind, to |-> k, from |-> n, hash |-> h]
    BY DEF Relay
  <1> QED BY <1>2, <1>3 DEF MsgsPast

LEMMA AskingPast ==
    ASSUME NEW n \in Node, NEW k \in Node, NEW time
    PROVE  Asking(n, k) \in Message /\ Asking(n, k).kind = "dseg"
  BY Constants DEF Asking, Message, Never

\* A message and what it is about.
LEMMA MessageParts ==
    ASSUME IndInv, NEW m \in msgs
    PROVE  /\ m.to \in Node /\ m.from \in Node
           /\ m.kind # "dseg" => m.hash \in Time /\ m.hash <= now
           /\ m.kind # "dseg" => seenMnb[m.from][m.hash] \in 0 .. MaxTime
           /\ m.kind # "dseg" /\ seenMnb[m.from][m.hash] # Never =>
                  /\ seenMnb[m.from][m.hash] \in Time
                  /\ seenMnb[m.from][m.hash] <= now
                  /\ m.hash <= seenMnb[m.from][m.hash]
  <1>1. SeenPast(seenMnb, now) /\ MsgsPast(msgs, now)
    BY PastParts
  <1>2. m.to \in Node /\ m.from \in Node /\ (m.kind # "dseg" => m.hash \in Time /\ m.hash <= now)
    BY <1>1 DEF MsgsPast, Message
  <1>3. ASSUME m.kind # "dseg"
        PROVE  /\ seenMnb[m.from][m.hash] \in 0 .. MaxTime
               /\ seenMnb[m.from][m.hash] <= now
               /\ seenMnb[m.from][m.hash] # Never => m.hash <= seenMnb[m.from][m.hash]
    BY <1>1, <1>2, <1>3 DEF SeenPast
  <1> QED BY <1>2, <1>3, Constants DEF Time, Never

\* The invariant of the next state from its parts, for the steps in which
\* time and the collateral stay the same.
LEMMA Combine ==
    ASSUME IndInv, now' = now, spentAt' = spentAt,
           EntriesGood', list' \in [Node -> Entry],
           \A k \in Node : list'[k] = None \/ (list'[k].state # "none"
                                   /\ list'[k].sig # Never /\ list'[k].ping # Never),
           SeenPast(seenMnb', now), PingsPast(seenMnp', now), MsgsPast(msgs', now),
           asked' \in [Node -> 0 .. MaxTime + MinMnp],
           status' \in {"initial", "not_capable", "started"}, vin' \in BOOLEAN, Started',
           mode' \in [Node -> {"up", "suspended", "down"}],
           todo' \in [Node -> SUBSET {"check", "manage"}],
           sent' \subseteq Time, outages' \in 0 .. MaxOutages,
           SigSeen'
    PROVE  IndInv'
  <1>1. TypeOK'
    BY DEF IndInv, TypeOK, SeenPast, PingsPast, MsgsPast
  <1>2. Past'
    BY DEF IndInv, Past, SeenPast, PingsPast, MsgsPast
  <1> QED BY <1>1, <1>2 DEF IndInv

\* What NeverBackwards says of a step.
Forward(e, new) == e.sig <= new.sig /\ e.ping - MinMnp < new.ping
Forwards == \A n \in Node : list[n] # None /\ list'[n] # None => Forward(list[n], list'[n])

LEMMA SameForward ==
    ASSUME IndInv
    PROVE  \A n \in Node : Forward(list[n], list[n])
  <1>1. ASSUME NEW n \in Node
        PROVE  Forward(list[n], list[n])
    <2>1. list[n].sig \in Int /\ list[n].ping \in Int
      BY EntryParts DEF IndInv, TypeOK
    <2> QED BY <2>1, Constants DEF Forward
  <1> QED BY <1>1

-----------------------------------------------------------------------------
(* One lemma per action.                                                   *)

LEMMA IgnorePreserves ==
    ASSUME IndInv, NEW m \in msgs, IgnoreMnb(m) \/ IgnoreMnp(m)
    PROVE  IndInv' /\ Forwards
  <1>1. /\ msgs' = msgs \ {m}
        /\ UNCHANGED <<now, lists, active, spentAt, mode, todo, counters>>
    BY DEF IgnoreMnb, IgnoreMnp
  <1>2. EntriesGood'
    BY <1>1, SameEntries DEF lists, active, Own, Checked
  <1>3. MsgsPast(msgs', now)
    BY <1>1, PastParts DEF MsgsPast
  <1>4. IndInv'
    BY <1>1, <1>2, <1>3, PastParts, Combine
       DEF lists, active, counters, IndInv, TypeOK, Started, SigSeen
  <1> QED BY <1>1, <1>4, SameForward DEF Forwards, lists

LEMMA RefuseMnbPreserves ==
    ASSUME IndInv, NEW m \in msgs, RefuseMnb(m)
    PROVE  IndInv' /\ Forwards
  <1> DEFINE n == m.to
             ping == seenMnb[m.from][m.hash]
             h == m.hash
  <1>1. /\ m.kind = "mnb" /\ ping # Never
        /\ seenMnb' = SeenSet(n, h, ping)
        /\ msgs' = msgs \ {m}
        /\ UNCHANGED <<now, list, seenMnp, asked, active, spentAt, mode, todo, counters>>
    BY DEF RefuseMnb, SeenSet
  <1>2. /\ n \in Node /\ h \in Time /\ ping \in 0 .. MaxTime /\ ping <= now
        /\ h <= ping
    BY <1>1, MessageParts
  <1> HIDE DEF n, ping, h
  <1>3. /\ SeenPast(seenMnb', now) /\ seenMnb'[n][h] = ping
        /\ \A k \in Node, t \in Time :
               ~(k = n /\ t = h) => seenMnb'[k][t] = seenMnb[k][t]
    <2>1. SeenPast(seenMnb, now) /\ now \in Nat
      BY PastParts
    <2> QED BY <1>1, <1>2, <2>1, SeenStep
  <1>4. EntriesGood'
    BY <1>1, SameEntries DEF active, Own, Checked
  <1>5. MsgsPast(msgs', now)
    BY <1>1, PastParts DEF MsgsPast
  <1>6. SigSeen'
    <2> SUFFICES ASSUME NEW k \in Node, list[k] # None
                 PROVE  seenMnb'[k][list[k].sig] # Never \/ list[k].sig <= list[k].ping
      BY <1>1 DEF SigSeen
    <2>1. list[k].sig \in Time
      BY Constants DEF IndInv, TypeOK, Entry, Never, Time
    <2> QED BY <1>1, <1>3, <2>1 DEF IndInv, SigSeen
  <1>7. IndInv'
    BY <1>1, <1>3, <1>4, <1>5, <1>6, PastParts, Combine
       DEF active, counters, IndInv, TypeOK, Started
  <1> QED BY <1>1, <1>7, SameForward DEF Forwards

\* CheckAndUpdate of a broadcast at a node that lists the masternode.
LEMMA UpdatedGood ==
    ASSUME IndInv, NEW n \in Node, list[n] # None, NEW locked \in BOOLEAN,
           NEW sig \in Time, sig <= now, NEW ping \in Time, ping <= now,
           sig <= ping, Recent(ping)
    PROVE  LET e == UpdatedEntry(n, sig, ping, locked)
           IN  /\ Good(e, now, spentAt, Own(n), Checked(n))
               /\ e # None
               /\ list[n].sig <= e.sig /\ list[n].ping <= e.ping
               /\ e.sig = sig \/ (e.sig = list[n].sig /\ e.ping = list[n].ping)
               /\ e.ping = list[n].ping \/ e.ping = ping
               /\ Updates(n) /\ list[n].sig < sig => e.sig = sig
  <1>0. /\ now \in Nat /\ spentAt \in Nat /\ Own(n) \in BOOLEAN /\ Checked(n) \in BOOLEAN
        /\ Good(list[n], now, spentAt, Own(n), Checked(n))
    BY PastParts
  <1>1. list[n].sig \in Int /\ list[n].ping \in Int
    BY <1>0, EntryParts DEF Good
  <1>2. CASE ~Updates(n)
    <2>1. UpdatedEntry(n, sig, ping, locked) = list[n]
      BY <1>2 DEF UpdatedEntry
    <2> QED BY <1>0, <1>1, <1>2, <2>1
  <1>3. CASE Updates(n)
    <2> DEFINE u == UpdateFromNewBroadcast(list[n], sig, ping, locked)
    <2>1. list[n].state = "enabled"
      BY <1>3 DEF Updates, IsEnabled
    <2>2. /\ Good(u, now, spentAt, Own(n), Checked(n)) /\ u # None
          /\ list[n].sig <= u.sig /\ list[n].ping <= u.ping
          /\ u.sig = list[n].sig \/ u.sig = sig
          /\ list[n].sig < sig => u.sig = sig
          /\ u.sig = list[n].sig => u.ping = list[n].ping
          /\ u.ping = list[n].ping \/ u.ping = ping
      BY <1>0, <2>1, UpdateGood
    <2> HIDE DEF u
    <2> DEFINE c == Check(u, locked)
    <2>3. UpdatedEntry(n, sig, ping, locked) = c
      BY <1>3 DEF UpdatedEntry, u
    <2>4. Good(c, now, spentAt, Own(n), Checked(n)) /\ c # None
      BY <1>0, <2>2, CheckGood
    <2>5. u \in Entry
      BY <2>2 DEF Good
    <2>6. c.sig = u.sig /\ c.ping = u.ping
      BY <1>0, <2>5, CheckFacts
    <2> HIDE DEF c
    <2> QED BY <2>2, <2>3, <2>4, <2>6
  <1> QED BY <1>2, <1>3

LEMMA NoneNotUpdated ==
    ASSUME NEW n \in Node, list[n] = None, NEW sig, NEW ping, NEW locked
    PROVE  UpdatedEntry(n, sig, ping, locked) = None /\ ~Updates(n)
  BY NoneEntry DEF UpdatedEntry, Updates, IsEnabled

LEMMA KnownMnbPreserves ==
    ASSUME IndInv, NEW m \in msgs, NEW locked \in BOOLEAN, KnownMnb(m, locked)
    PROVE  IndInv' /\ Forwards
  <1> DEFINE n == m.to
             ping == seenMnb[m.from][m.hash]
             h == m.hash
             e == UpdatedEntry(n, h, ping, locked)
             relays == Updates(n) /\ IsEnabled(e)
             pinged == relays /\ Takes(list[n], ping)
  <1>1. /\ m.kind = "mnb" /\ ping # Never /\ MnbAccepted(n, h, ping)
        /\ list' = [list EXCEPT ![n] = e]
        /\ seenMnb' = SeenSet(n, h, ping)
        /\ seenMnp' = [seenMnp EXCEPT ![n] = @ \cup {t \in {ping} : pinged}]
        /\ msgs' = (msgs \ {m}) \cup {r \in Relay(n, "mnb", h) : relays}
                                \cup {r \in Relay(n, "mnp", ping) : pinged}
        /\ UNCHANGED <<now, asked, active, spentAt, mode, todo, counters>>
    BY DEF KnownMnb, SeenSet
  <1>2. /\ n \in Node /\ h \in Time /\ h <= now /\ ping \in 0 .. MaxTime /\ ping <= now
        /\ h <= ping /\ ping \in Time
    BY <1>1, MessageParts
  <1> HIDE DEF n, ping, h, e, relays, pinged
  <1>3. /\ SeenPast(seenMnb, now) /\ PingsPast(seenMnp, now) /\ MsgsPast(msgs, now)
        /\ now \in Nat /\ spentAt \in Nat
    BY PastParts
  <1>4. /\ SeenPast(seenMnb', now) /\ seenMnb'[n][h] = ping
        /\ \A k \in Node, t \in Time :
               ~(k = n /\ t = h) => seenMnb'[k][t] = seenMnb[k][t]
    BY <1>1, <1>2, <1>3, SeenStep
  <1>5. Recent(ping)
    BY <1>1 DEF MnbAccepted
  <1>6. ASSUME list[n] = None
        PROVE  e = None /\ Good(e, now, spentAt, Own(n), Checked(n))
    BY <1>2, <1>3, <1>6, NoneGood, NoneNotUpdated DEF e
  <1>7. ASSUME list[n] # None
        PROVE  /\ Good(e, now, spentAt, Own(n), Checked(n))
               /\ list[n].sig <= e.sig /\ list[n].ping <= e.ping
               /\ e.sig = h \/ (e.sig = list[n].sig /\ e.ping = list[n].ping)
    BY <1>2, <1>5, <1>7, UpdatedGood DEF e
  <1>8. /\ EntriesGood'
        /\ list' \in [Node -> Entry]
        /\ \A k \in Node : list'[k] = None \/ (list'[k].state # "none"
                                /\ list'[k].sig # Never /\ list'[k].ping # Never)
        /\ list'[n] = e /\ \A k \in Node \ {n} : list'[k] = list[k]
    <2>1. Good(e, now, spentAt, Own(n)', Checked(n)')
      BY <1>1, <1>6, <1>7 DEF active, Own, Checked
    <2>2. \A k \in Node \ {n} : (Own(k) => Own(k)') /\ (Checked(k)' => Checked(k))
      BY <1>1 DEF active, Own, Checked
    <2> QED BY <1>1, <1>2, <2>1, <2>2, EntryStep
  <1>9. Forwards
    <2> SUFFICES ASSUME NEW k \in Node, list[k] # None
                 PROVE  Forward(list[k], list'[k])
      BY DEF Forwards
    <2>1. list[k] \in Entry /\ list'[k] \in Entry
      BY <1>8 DEF IndInv, TypeOK
    <2> QED BY <1>7, <1>8, <2>1, EntryParts, Constants DEF Forward
  <1>10. SigSeen'
    <2> SUFFICES ASSUME NEW k \in Node, list'[k] # None
                 PROVE  seenMnb'[k][list'[k].sig] # Never \/ list'[k].sig <= list'[k].ping
      BY DEF SigSeen
    <2>1. list'[k].sig \in Time
      BY <1>8, Constants DEF Entry, Never, Time
    <2>2. CASE k # n
      BY <1>4, <1>8, <2>1, <2>2 DEF IndInv, SigSeen
    <2>3. CASE k = n
      <3>1. list[n] # None
        BY <1>6, <1>8, <2>3
      <3> QED BY <1>1, <1>4, <1>7, <1>8, <2>1, <2>3, <3>1 DEF IndInv, SigSeen
    <2> QED BY <2>2, <2>3
  <1>11. MsgsPast(msgs', now)
    <2>1. MsgsPast(Relay(n, "mnb", h), now) /\ MsgsPast(Relay(n, "mnp", ping), now)
      BY <1>2, RelayPast
    <2> QED BY <1>1, <1>3, <2>1 DEF MsgsPast
  <1>12. PingsPast(seenMnp', now)
    BY <1>1, <1>2, <1>3 DEF PingsPast
  <1>13. IndInv'
    BY <1>1, <1>4, <1>8, <1>10, <1>11, <1>12, Combine
       DEF active, counters, IndInv, TypeOK, Started
  <1> QED BY <1>9, <1>13

\* A broadcast that replaces an entry is newer, and its ping is not older by
\* MASTERNODE_MIN_MNP_SECONDS: the entry has become PRE_ENABLED by too early
\* a ping, or has been silent for longer than a ping may be old.
LEMMA ReplacedForward ==
    ASSUME IndInv, NEW n \in Node, list[n] # None, ~Own(n), spentAt = Never,
           NEW sig \in Time, sig <= now, NEW ping \in Time, ping <= now, sig <= ping,
           MnbAccepted(n, sig, ping), ~IsEnabled(UpdatedEntry(n, sig, ping, TRUE))
    PROVE  list[n].sig < sig /\ list[n].ping - MinMnp < ping
  <1> DEFINE e == UpdatedEntry(n, sig, ping, TRUE)
  <1>1. /\ Recent(ping) /\ list[n].sig < sig
    BY DEF MnbAccepted
  <1>2. /\ now \in Nat /\ Good(list[n], now, spentAt, Own(n), Checked(n))
        /\ list[n].sig \in Int /\ list[n].ping \in Int
    BY PastParts, EntryParts DEF Good
  <1>3. /\ Good(e, now, spentAt, Own(n), Checked(n)) /\ e # None
        /\ list[n].ping <= e.ping
        /\ e.ping = list[n].ping \/ e.ping = ping
        /\ Updates(n) => e.sig = sig
        /\ e.sig = sig \/ (e.sig = list[n].sig /\ e.ping = list[n].ping)
    BY <1>1, UpdatedGood
  <1>4. e.state # "enabled"
    BY DEF IsEnabled
  <1> HIDE DEF e
  <1>5. e \in Entry /\ e.state \in State /\ e.sig \in Int /\ e.ping \in Int
    BY <1>3, EntryParts DEF Good
  <1>6. e.state \in {"pre_enabled", "expired", "remove"}
    BY <1>3, <1>4, <1>5 DEF Good, State
  <1>7. CASE e.state = "pre_enabled"
    <2>1. e.ping - e.sig < MinMnp
      BY <1>3, <1>7 DEF Good
    <2> QED BY <1>1, <1>2, <1>3, <1>5, <2>1, Constants DEF Time
  <1>8. CASE e.state \in {"expired", "remove"}
    <2>1. now - e.ping >= Expiration
      BY <1>3, <1>8 DEF Good
    <2> QED BY <1>1, <1>2, <1>3, <1>5, <2>1, Constants DEF Time, Recent
  <1> QED BY <1>6, <1>7, <1>8

LEMMA AddMnbPreserves ==
    ASSUME IndInv, NEW m \in msgs, NEW locked \in BOOLEAN, AddMnb(m, locked)
    PROVE  IndInv' /\ Forwards
  <1> DEFINE n == m.to
             ping == seenMnb[m.from][m.hash]
             h == m.hash
             added == locked /\ spentAt = Never
             new == [sig |-> h, ping |-> ping, state |-> "enabled"]
             e == IF added THEN new ELSE None
             p == IF locked THEN ping ELSE Never
  <1>1. /\ m.kind = "mnb" /\ ping # Never /\ MnbAccepted(n, h, ping)
        /\ ~MnbDone(n, UpdatedEntry(n, h, ping, locked))
        /\ list' = [list EXCEPT ![n] = e]
        /\ seenMnb[n][h] = Never
        /\ seenMnb' = SeenSet(n, h, p)
        /\ status' = IF added /\ n = Hot THEN "started" ELSE status
        /\ vin' = (vin \/ (added /\ n = Hot))
        /\ msgs' = (msgs \ {m}) \cup {r \in Relay(n, "mnb", h) : added}
        /\ UNCHANGED <<now, seenMnp, asked, spentAt, mode, todo, counters>>
    BY DEF AddMnb, SeenSet
  <1>2. /\ n \in Node /\ h \in Time /\ h <= now /\ ping \in 0 .. MaxTime /\ ping <= now
        /\ h <= ping /\ ping \in Time
    BY <1>1, MessageParts
  <1> HIDE DEF n, ping, h
  <1>3. /\ SeenPast(seenMnb, now) /\ PingsPast(seenMnp, now) /\ MsgsPast(msgs, now)
        /\ now \in Nat /\ spentAt \in Nat
    BY PastParts
  <1>4. p \in 0 .. MaxTime /\ p <= now /\ (p # Never => h <= p) /\ (locked => p # Never)
    BY <1>1, <1>2, <1>3, Constants DEF Never
  <1> HIDE DEF p
  <1>5. /\ SeenPast(seenMnb', now) /\ seenMnb'[n][h] = p
        /\ \A k \in Node, t \in Time :
               ~(k = n /\ t = h) => seenMnb'[k][t] = seenMnb[k][t]
    BY <1>1, <1>2, <1>3, <1>4, SeenStep
  <1>6. Recent(ping)
    BY <1>1 DEF MnbAccepted
  <1>7. ASSUME NEW own, NEW checked, added
        PROVE  Good(new, now, spentAt, own, checked) /\ new # None /\ new.sig = h /\ new.ping = ping
    BY <1>2, <1>3, <1>6, <1>7, NewGood
  <1>8. ASSUME NEW own, NEW checked
        PROVE  Good(e, now, spentAt, own, checked)
    BY <1>3, <1>7, NoneGood
  <1>9. e # None => added /\ e.sig = h /\ e.ping = ping
    BY <1>7
  <1> HIDE DEF e, new
  <1>10. /\ EntriesGood'
         /\ list' \in [Node -> Entry]
         /\ \A k \in Node : list'[k] = None \/ (list'[k].state # "none"
                                /\ list'[k].sig # Never /\ list'[k].ping # Never)
         /\ list'[n] = e /\ \A k \in Node \ {n} : list'[k] = list[k]
    <2>1. Good(e, now, spentAt, Own(n)', Checked(n)')
      BY <1>8
    <2>2. \A k \in Node \ {n} : (Own(k) => Own(k)') /\ (Checked(k)' => Checked(k))
      BY <1>1 DEF Own, Checked
    <2> QED BY <1>1, <1>2, <2>1, <2>2, EntryStep
  <1>11. Forwards
    <2> SUFFICES ASSUME NEW k \in Node, list[k] # None, list'[k] # None
                 PROVE  Forward(list[k], list'[k])
      BY DEF Forwards
    <2>1. CASE k # n
      BY <1>10, <2>1, SameForward
    <2>2. CASE k = n
      <3>1. locked = TRUE /\ spentAt = Never /\ list'[n].sig = h /\ list'[n].ping = ping
        BY <1>9, <1>10, <2>2
      <3>2. ~Own(n) /\ ~IsEnabled(UpdatedEntry(n, h, ping, TRUE))
        BY <1>1, <3>1 DEF MnbDone, Own
      <3>3. list[n].sig < h /\ list[n].ping - MinMnp < ping
        BY <1>1, <1>2, <2>2, <3>1, <3>2, ReplacedForward
      <3>4. list[n].sig \in Int /\ h \in Int
        BY <1>2, EntryParts, Constants DEF IndInv, TypeOK, Time
      <3> QED BY <2>2, <3>1, <3>3, <3>4 DEF Forward
    <2> QED BY <2>1, <2>2
  <1>12. SigSeen'
    <2> SUFFICES ASSUME NEW k \in Node, list'[k] # None
                 PROVE  seenMnb'[k][list'[k].sig] # Never \/ list'[k].sig <= list'[k].ping
      BY DEF SigSeen
    <2>1. list'[k].sig \in Time
      BY <1>10, Constants DEF Entry, Never, Time
    <2>2. CASE k # n
      BY <1>5, <1>10, <2>1, <2>2 DEF IndInv, SigSeen
    <2>3. CASE k = n
      BY <1>2, <1>9, <1>10, <2>3
    <2> QED BY <2>2, <2>3
  <1>13. MsgsPast(msgs', now)
    <2>1. MsgsPast(Relay(n, "mnb", h), now)
      BY <1>2, RelayPast
    <2> QED BY <1>1, <1>3, <2>1 DEF MsgsPast
  <1>14. status' \in {"initial", "not_capable", "started"} /\ vin' \in BOOLEAN /\ Started'
    BY <1>1 DEF IndInv, TypeOK, Started
  <1>15. IndInv'
    BY <1>1, <1>3, <1>5, <1>10, <1>12, <1>13, <1>14, Combine
       DEF counters, IndInv, TypeOK
  <1> QED BY <1>11, <1>15

\* The copy of the entry's broadcast keeps up with the entry.
LEMMA SeenWithPingPast ==
    ASSUME IndInv, NEW n \in Node, NEW sig \in Time, NEW ping \in Time, ping <= now,
           sig <= ping,
           seenMnb' = [seenMnb EXCEPT ![n] = SeenWithPing(n, sig, ping)]
    PROVE  /\ SeenPast(seenMnb', now)
           /\ \A k \in Node, t \in Time : seenMnb[k][t] # Never => seenMnb'[k][t] # Never
  <1>1. SeenPast(seenMnb, now) /\ now \in Nat /\ ping \in 0 .. MaxTime /\ ping # Never
    BY PastParts, Constants DEF Time, Never
  <1>2. CASE seenMnb[n][sig] = Never
    <2>1. seenMnb' = [seenMnb EXCEPT ![n] = seenMnb[n]]
      BY <1>2 DEF SeenWithPing
    <2>2. seenMnb' = seenMnb
      BY <1>1, <2>1 DEF SeenPast
    <2> QED BY <1>1, <2>2
  <1>3. CASE seenMnb[n][sig] # Never
    <2>1. seenMnb' = SeenSet(n, sig, ping)
      BY <1>3 DEF SeenWithPing, SeenSet
    <2>2. /\ SeenPast(seenMnb', now) /\ seenMnb'[n][sig] = ping
          /\ \A k \in Node, t \in Time :
                 ~(k = n /\ t = sig) => seenMnb'[k][t] = seenMnb[k][t]
      BY <1>1, <2>1, SeenStep
    <2> QED BY <1>1, <2>2
  <1> QED BY <1>2, <1>3

LEMMA TakeMnpPreserves ==
    ASSUME IndInv, NEW m \in msgs, NEW locked \in BOOLEAN, TakeMnp(m, locked)
    PROVE  IndInv' /\ Forwards
  <1> DEFINE n == m.to
             h == m.hash
             e == list[n]
             new == Check([sig |-> e.sig, ping |-> h, state |-> e.state], locked)
  <1>1. /\ m.kind = "mnp" /\ IsEnabled(e) /\ Takes(e, h)
        /\ seenMnp' = [seenMnp EXCEPT ![n] = @ \cup {h}]
        /\ list' = [list EXCEPT ![n] = new]
        /\ seenMnb' = [seenMnb EXCEPT ![n] = SeenWithPing(n, e.sig, h)]
        /\ msgs' = (msgs \ {m}) \cup {r \in Relay(n, "mnp", h) : IsEnabled(new)}
        /\ UNCHANGED <<now, asked, active, spentAt, mode, todo, counters>>
    BY DEF TakeMnp, WithPing
  <1>2. n \in Node /\ h \in Time /\ h <= now
    BY <1>1, MessageParts
  <1> HIDE DEF n, h
  <1>3. /\ SeenPast(seenMnb, now) /\ PingsPast(seenMnp, now) /\ MsgsPast(msgs, now)
        /\ now \in Nat /\ spentAt \in Nat /\ Own(n) \in BOOLEAN /\ Checked(n) \in BOOLEAN
        /\ Good(e, now, spentAt, Own(n), Checked(n))
    BY <1>2, PastParts
  <1>4. e # None /\ e.state = "enabled"
    BY <1>1, NoneEntry DEF IsEnabled
  <1>5. /\ e.sig \in Time /\ e.sig <= now /\ e.ping \in Int /\ e.sig \in Int
        /\ e.sig < e.ping + PingGap
    BY <1>3, <1>4, EntryParts, Constants DEF Good, Time, Never
  <1>6. Recent(h) /\ h - e.ping >= PingGap /\ e.sig <= h
    BY <1>1, <1>2, <1>5, Constants DEF Takes, IsPingedWithin, Time
  <1>7. /\ Good(new, now, spentAt, Own(n), Checked(n))
        /\ new # None /\ new.sig = e.sig /\ new.ping = h
    <2>1. e.sig < h + PingGap
      BY <1>2, <1>5, <1>6, Constants DEF Time
    <2> QED BY <1>2, <1>3, <1>4, <1>5, <1>6, <2>1, PingGood
  <1> HIDE DEF new
  <1>8. /\ SeenPast(seenMnb', now)
        /\ \A k \in Node, t \in Time : seenMnb[k][t] # Never => seenMnb'[k][t] # Never
    BY <1>1, <1>2, <1>5, <1>6, SeenWithPingPast
  <1>9. /\ EntriesGood'
        /\ list' \in [Node -> Entry]
        /\ \A k \in Node : list'[k] = None \/ (list'[k].state # "none"
                               /\ list'[k].sig # Never /\ list'[k].ping # Never)
        /\ list'[n] = new /\ \A k \in Node \ {n} : list'[k] = list[k]
    <2>1. Good(new, now, spentAt, Own(n)', Checked(n)')
      BY <1>1, <1>7 DEF active, Own, Checked
    <2>2. \A k \in Node \ {n} : (Own(k) => Own(k)') /\ (Checked(k)' => Checked(k))
      BY <1>1 DEF active, Own, Checked
    <2> QED BY <1>1, <1>2, <2>1, <2>2, EntryStep
  <1>10. Forwards
    <2> SUFFICES ASSUME NEW k \in Node
                 PROVE  Forward(list[k], list'[k])
      BY DEF Forwards
    <2>1. CASE k # n
      BY <1>9, <2>1, SameForward
    <2>2. CASE k = n
      BY <1>2, <1>5, <1>6, <1>7, <1>9, <2>2, Constants DEF Forward, Time
    <2> QED BY <2>1, <2>2
  <1>11. SigSeen'
    <2> SUFFICES ASSUME NEW k \in Node, list'[k] # None
                 PROVE  seenMnb'[k][list'[k].sig] # Never \/ list'[k].sig <= list'[k].ping
      BY DEF SigSeen
    <2>1. list'[k].sig \in Time
      BY <1>9, Constants DEF Entry, Never, Time
    <2>2. CASE k # n
      BY <1>8, <1>9, <2>1, <2>2 DEF IndInv, SigSeen
    <2>3. CASE k = n
      BY <1>6, <1>7, <1>9, <2>3
    <2> QED BY <2>2, <2>3
  <1>12. MsgsPast(msgs', now)
    <2>1. MsgsPast(Relay(n, "mnp", h), now)
      BY <1>2, RelayPast
    <2> QED BY <1>1, <1>3, <2>1 DEF MsgsPast
  <1>13. PingsPast(seenMnp', now)
    BY <1>1, <1>2, <1>3 DEF PingsPast
  <1>14. IndInv'
    BY <1>1, <1>8, <1>9, <1>11, <1>12, <1>13, Combine
       DEF active, counters, IndInv, TypeOK, Started
  <1> QED BY <1>10, <1>14

LEMMA RefuseMnpPreserves ==
    ASSUME IndInv, NEW m \in msgs, RefuseMnp(m)
    PROVE  IndInv' /\ Forwards
  <1> DEFINE n == m.to
             asks == (list[n] = None \/ ~Recent(m.hash)) /\ asked[n] <= now
  <1>1. /\ m.kind = "mnp"
        /\ seenMnp' = [seenMnp EXCEPT ![n] = @ \cup {m.hash}]
        /\ asked' = [asked EXCEPT ![n] = IF asks THEN now + MinMnp ELSE @]
        /\ msgs' = (msgs \ {m}) \cup {r \in {Asking(n, m.from)} : asks}
        /\ UNCHANGED <<now, list, seenMnb, active, spentAt, mode, todo, counters>>
    BY DEF RefuseMnp
  <1>2. n \in Node /\ m.from \in Node /\ m.hash \in Time /\ m.hash <= now
    BY <1>1, MessageParts
  <1> HIDE DEF n, asks
  <1>3. /\ SeenPast(seenMnb, now) /\ PingsPast(seenMnp, now) /\ MsgsPast(msgs, now)
        /\ now \in 0 .. MaxTime
    BY PastParts
  <1>4. EntriesGood'
    BY <1>1, SameEntries DEF active, Own, Checked
  <1>5. MsgsPast(msgs', now)
    <2>1. Asking(n, m.from) \in Message /\ Asking(n, m.from).kind = "dseg"
      BY <1>2, AskingPast
    <2> QED BY <1>1, <1>3, <2>1 DEF MsgsPast
  <1>6. PingsPast(seenMnp', now)
    BY <1>1, <1>2, <1>3 DEF PingsPast
  <1>7. asked' \in [Node -> 0 .. MaxTime + MinMnp]
    BY <1>1, <1>2, <1>3, Constants DEF IndInv, TypeOK
  <1>8. IndInv'
    BY <1>1, <1>3, <1>4, <1>5, <1>6, <1>7, Combine
       DEF active, counters, IndInv, TypeOK, Started, SigSeen
  <1> QED BY <1>1, <1>8, SameForward DEF Forwards

LEMMA ProcessDsegPreserves ==
    ASSUME IndInv, NEW m \in msgs, ProcessDseg(m)
    PROVE  IndInv' /\ Forwards
  <1> DEFINE n == m.to
             e == list[n]
  <1>1. UNCHANGED <<now, list, seenMnp, asked, active, spentAt, mode, todo, counters>>
    BY DEF ProcessDseg
  <1>2. n \in Node /\ m.from \in Node
    BY MessageParts
  <1> HIDE DEF n
  <1>3. /\ SeenPast(seenMnb, now) /\ PingsPast(seenMnp, now) /\ MsgsPast(msgs, now)
        /\ now \in Nat /\ Good(e, now, spentAt, Own(n), Checked(n))
    BY <1>2, PastParts
  <1>4. SeenPast(seenMnb', now) /\ MsgsPast(msgs', now)
        /\ \A k \in Node, t \in Time : seenMnb[k][t] # Never => seenMnb'[k][t] # Never
    <2>1. CASE ~IsEnabled(e)
      <3>1. msgs' = msgs \ {m} /\ seenMnb' = seenMnb
        BY <2>1 DEF ProcessDseg, n
      <3> QED BY <1>3, <3>1 DEF MsgsPast
    <2>2. CASE IsEnabled(e)
      <3> DEFINE r == [kind |-> "mnb", to |-> m.from, from |-> n, hash |-> e.sig]
      <3>1. /\ msgs' = (msgs \ {m}) \cup {r}
            /\ seenMnb' = [seenMnb EXCEPT ![n] =
                               IF seenMnb[n][e.sig] = Never
                               THEN [seenMnb[n] EXCEPT ![e.sig] = e.ping] ELSE seenMnb[n]]
        BY <2>2 DEF ProcessDseg, n
      <3>2. e # None
        BY <2>2, NoneEntry DEF IsEnabled
      <3>3. /\ e.sig \in Time /\ e.sig <= now /\ e.ping \in 0 .. MaxTime /\ e.ping <= now
            /\ e.sig \in 0 .. MaxTime /\ e.ping # Never
        BY <1>3, <3>2, EntryParts, Constants DEF Good, Time, Never
      <3>4. r \in Message /\ r.hash = e.sig
        BY <1>2, <3>3 DEF Message
      <3>5. MsgsPast(msgs', now)
        BY <1>3, <3>1, <3>3, <3>4 DEF MsgsPast
      <3>6. CASE seenMnb[n][e.sig] = Never
        <4>1. seenMnb' = SeenSet(n, e.sig, e.ping)
          BY <3>1, <3>6 DEF SeenSet
        <4>2. e.sig <= e.ping
          BY <1>2, <3>2, <3>6 DEF IndInv, SigSeen
        <4>3. /\ SeenPast(seenMnb', now) /\ seenMnb'[n][e.sig] = e.ping
              /\ \A k \in Node, t \in Time :
                     ~(k = n /\ t = e.sig) => seenMnb'[k][t] = seenMnb[k][t]
          BY <1>2, <1>3, <3>3, <4>1, <4>2, SeenStep
        <4> QED BY <3>3, <3>5, <4>3
      <3>7. CASE seenMnb[n][e.sig] # Never
        <4>1. seenMnb' = [seenMnb EXCEPT ![n] = seenMnb[n]]
          BY <3>1, <3>7
        <4>2. seenMnb' = seenMnb
          BY <1>3, <4>1 DEF SeenPast
        <4> QED BY <1>3, <3>5, <4>2
      <3> QED BY <3>6, <3>7
    <2> QED BY <2>1, <2>2
  <1>5. EntriesGood'
    BY <1>1, SameEntries DEF active, Own, Checked
  <1>6. SigSeen'
    <2> SUFFICES ASSUME NEW k \in Node, list[k] # None
                 PROVE  seenMnb'[k][list[k].sig] # Never \/ list[k].sig <= list[k].ping
      BY <1>1 DEF SigSeen
    <2>1. list[k].sig \in Time
      BY Constants DEF IndInv, TypeOK, Entry, Never, Time
    <2> QED BY <1>4, <2>1 DEF IndInv, SigSeen
  <1>7. IndInv'
    BY <1>1, <1>3, <1>4, <1>5, <1>6, Combine
       DEF active, counters, IndInv, TypeOK, Started
  <1> QED BY <1>1, <1>7, SameForward DEF Forwards

\* CheckAndRemove with cs_main leaves an entry that is Good whatever is asked
\* of it, and without cs_main one that is as Good as it was.
LEMMA CheckAndRemoveStep ==
    ASSUME IndInv, NEW n \in Node, NEW force \in BOOLEAN, NEW locked \in BOOLEAN,
           CheckAndRemove(n, force, locked),
           now' = now, spentAt' = spentAt,
           locked \/ (Own(n)' = Own(n) /\ Checked(n)' = Checked(n)),
           \A k \in Node \ {n} : (Own(k) => Own(k)') /\ (Checked(k)' => Checked(k))
    PROVE  /\ EntriesGood'
           /\ list' \in [Node -> Entry]
           /\ \A k \in Node : list'[k] = None \/ (list'[k].state # "none"
                                   /\ list'[k].sig # Never /\ list'[k].ping # Never)
           /\ SeenPast(seenMnb', now) /\ PingsPast(seenMnp', now)
           /\ asked' \in [Node -> 0 .. MaxTime + MinMnp]
           /\ SigSeen'
           /\ Forwards
  <1> DEFINE e == Check(list[n], locked)
             gone == list[n] # None /\ ~Kept(e, force)
             x == IF list[n] = None \/ gone THEN None ELSE e
             g == [t \in Time |-> IF gone \/ Old(seenMnb[n][t]) THEN Never ELSE seenMnb[n][t]]
  <1>1. /\ list' = [list EXCEPT ![n] = x]
        /\ seenMnb' = [seenMnb EXCEPT ![n] = g]
        /\ seenMnp' = [seenMnp EXCEPT ![n] = {t \in seenMnp[n] : ~Old(t)}]
        /\ asked' = [asked EXCEPT ![n] = IF gone THEN 0 ELSE @]
    BY DEF CheckAndRemove
  <1>2. /\ SeenPast(seenMnb, now) /\ PingsPast(seenMnp, now)
        /\ now \in Nat /\ spentAt \in Nat
        /\ Own(n) \in BOOLEAN /\ Checked(n) \in BOOLEAN
        /\ Good(list[n], now, spentAt, Own(n), Checked(n))
    BY PastParts
  <1>3. list[n] \in Entry /\ list[n].sig \in Int /\ list[n].ping \in Int
    BY <1>2, EntryParts DEF Good
  <1>4. ASSUME x # None
        PROVE  /\ list[n] # None /\ ~gone /\ x.sig = list[n].sig /\ x.ping = list[n].ping
               /\ now - list[n].ping < Removal
               /\ Good(x, now, spentAt, Own(n)', Checked(n)')
    <2>1. list[n] # None /\ ~gone /\ Kept(e, force) /\ x = e
      BY <1>4
    <2>2. /\ e \in Entry /\ e.sig = list[n].sig /\ e.ping = list[n].ping
          /\ e.state \in {"pre_enabled", "enabled", "expired"} => now - list[n].ping < Removal
      BY <1>2, <1>3, CheckFacts
    <2>3. e.state \in {"pre_enabled", "enabled", "expired"}
      BY <2>1 DEF Kept
    <2>4. CASE locked
      <3>1. /\ list[n].state # "none" => e.state # "none"
            /\ e.state = "enabled" => now - list[n].ping < Expiration
            /\ e.state = "pre_enabled" => list[n].ping - list[n].sig < MinMnp
            /\ e.state \in {"expired", "remove"} => now - list[n].ping >= Expiration
            /\ e.state = "vin_spent" => list[n].state = "vin_spent" \/ spentAt # Never
            /\ e.state = "enabled" => spentAt = Never
        BY <1>2, <1>3, <2>4, CheckFacts
      <3> HIDE DEF e, x
      <3>2. ASSUME NEW own, NEW checked
            PROVE  Good(e, now, spentAt, own, checked)
        BY <1>2, <1>3, <2>1, <2>2, <2>3, <3>1 DEF Good
      <3> QED BY <2>1, <2>2, <2>3, <3>2
    <2>5. CASE ~locked
      <3>1. Good(e, now, spentAt, Own(n), Checked(n))
        BY <1>2, <2>1, CheckGood
      <3> HIDE DEF e, x
      <3> QED BY <2>1, <2>2, <2>3, <2>5, <3>1
    <2> QED BY <2>4, <2>5
  <1>5. Good(x, now, spentAt, Own(n)', Checked(n)')
    <2> HIDE DEF x
    <2> QED BY <1>2, <1>4, NoneGood
  <1> HIDE DEF x, e
  <1>6. /\ EntriesGood'
        /\ list' \in [Node -> Entry]
        /\ \A k \in Node : list'[k] = None \/ (list'[k].state # "none"
                               /\ list'[k].sig # Never /\ list'[k].ping # Never)
        /\ list'[n] = x /\ \A k \in Node \ {n} : list'[k] = list[k]
    BY <1>1, <1>5, EntryStep
  <1>7. /\ g \in [Time -> 0 .. MaxTime]
        /\ \A t \in Time : /\ g[t] <= now
                           /\ g[t] # Never => t <= g[t]
                           /\ ~gone => g[t] = seenMnb[n][t] \/ Old(seenMnb[n][t])
    BY <1>2, Constants DEF SeenPast, Never
  <1> HIDE DEF g, gone
  <1>8. /\ SeenPast(seenMnb', now)
        /\ seenMnb'[n] = g /\ \A k \in Node \ {n} : seenMnb'[k] = seenMnb[k]
    <2>1. /\ seenMnb' \in [Node -> [Time -> 0 .. MaxTime]]
          /\ seenMnb'[n] = g /\ \A k \in Node \ {n} : seenMnb'[k] = seenMnb[k]
      BY <1>1, <1>2, <1>7 DEF SeenPast
    <2>2. \A k \in Node, t \in Time : /\ seenMnb'[k][t] <= now
                                      /\ seenMnb'[k][t] # Never => t <= seenMnb'[k][t]
      BY <1>2, <1>7, <2>1 DEF SeenPast
    <2> QED BY <2>1, <2>2 DEF SeenPast
  <1>9. PingsPast(seenMnp', now)
    BY <1>1, <1>2 DEF PingsPast
  <1>10. asked' \in [Node -> 0 .. MaxTime + MinMnp]
    BY <1>1, Constants DEF IndInv, TypeOK
  <1>11. SigSeen'
    <2> SUFFICES ASSUME NEW k \in Node, list'[k] # None
                 PROVE  seenMnb'[k][list'[k].sig] # Never \/ list'[k].sig <= list'[k].ping
      BY DEF SigSeen
    <2>1. list'[k].sig \in Time
      BY <1>6, Constants DEF Entry, Never, Time
    <2>2. CASE k # n
      BY <1>6, <1>8, <2>1, <2>2 DEF IndInv, SigSeen
    <2>3. CASE k = n
      <3> DEFINE t == list[n].sig
      <3>1. /\ list[n] # None /\ ~gone /\ list'[n].sig = t /\ list'[n].ping = list[n].ping
            /\ now - list[n].ping < Removal /\ t \in Time /\ t \in Int
        BY <1>3, <1>4, <1>6, <2>1, <2>3
      <3>2. seenMnb'[n][t] = seenMnb[n][t] \/ Old(seenMnb[n][t])
        BY <1>7, <1>8, <3>1
      <3>3. /\ seenMnb[n][t] \in Int /\ (seenMnb[n][t] # Never => t <= seenMnb[n][t])
            /\ seenMnb[n][t] # Never \/ t <= list[n].ping
        BY <1>2, <3>1, Constants DEF SeenPast, IndInv, SigSeen
      <3> HIDE DEF t
      <3> QED BY <1>2, <1>3, <2>3, <3>1, <3>2, <3>3, Constants DEF Old
    <2> QED BY <2>2, <2>3
  <1>12. Forwards
    <2> SUFFICES ASSUME NEW k \in Node, list[k] # None, list'[k] # None
                 PROVE  Forward(list[k], list'[k])
      BY DEF Forwards
    <2>1. CASE k # n
      BY <1>6, <2>1, SameForward
    <2>2. CASE k = n
      BY <1>3, <1>4, <1>6, <2>2, Constants DEF Forward
    <2> QED BY <2>1, <2>2
  <1> QED BY <1>6, <1>8, <1>9, <1>10, <1>11, <1>12

LEMMA ThreadChecksPreserves ==
    ASSUME IndInv, NEW n \in Node, ThreadChecks(n)
    PROVE  IndInv' /\ Forwards
  <1>1. /\ CheckAndRemove(n, FALSE, TRUE)
        /\ todo' = [todo EXCEPT ![n] = @ \ {"check"}]
        /\ UNCHANGED <<now, active, spentAt, msgs, mode, counters>>
    BY DEF ThreadChecks
  <1>2. \A k \in Node \ {n} : (Own(k) => Own(k)') /\ (Checked(k)' => Checked(k))
    BY <1>1 DEF active, Own, Checked, IndInv, TypeOK
  <1>3. todo' \in [Node -> SUBSET {"check", "manage"}]
    BY <1>1 DEF IndInv, TypeOK
  <1>4. /\ EntriesGood'
        /\ list' \in [Node -> Entry]
        /\ \A k \in Node : list'[k] = None \/ (list'[k].state # "none"
                               /\ list'[k].sig # Never /\ list'[k].ping # Never)
        /\ SeenPast(seenMnb', now) /\ PingsPast(seenMnp', now)
        /\ asked' \in [Node -> 0 .. MaxTime + MinMnp]
        /\ SigSeen' /\ Forwards
    BY <1>1, <1>2, CheckAndRemoveStep
  <1>5. MsgsPast(msgs', now)
    BY <1>1, PastParts
  <1>6. IndInv'
    BY <1>1, <1>3, <1>4, <1>5, Combine DEF active, counters, IndInv, TypeOK, Started
  <1> QED BY <1>4, <1>6

LEMMA ThreadChecksBusyPreserves ==
    ASSUME IndInv, NEW n \in Node, ThreadChecksBusy(n)
    PROVE  IndInv' /\ Forwards
  <1>1. /\ CheckAndRemove(n, FALSE, FALSE)
        /\ UNCHANGED <<now, active, spentAt, msgs, mode, todo, counters>>
    BY DEF ThreadChecksBusy
  <1>2. \A k \in Node : Own(k)' = Own(k) /\ Checked(k)' = Checked(k)
    BY <1>1 DEF active, Own, Checked
  <1>3. /\ EntriesGood'
        /\ list' \in [Node -> Entry]
        /\ \A k \in Node : list'[k] = None \/ (list'[k].state # "none"
                               /\ list'[k].sig # Never /\ list'[k].ping # Never)
        /\ SeenPast(seenMnb', now) /\ PingsPast(seenMnp', now)
        /\ asked' \in [Node -> 0 .. MaxTime + MinMnp]
        /\ SigSeen' /\ Forwards
    BY <1>1, <1>2, CheckAndRemoveStep
  <1>4. MsgsPast(msgs', now)
    BY <1>1, PastParts
  <1>5. IndInv'
    BY <1>1, <1>3, <1>4, Combine DEF active, counters, IndInv, TypeOK, Started
  <1> QED BY <1>3, <1>5

LEMMA AsksPast ==
    ASSUME IndInv, NEW n \in Node, msgs' = msgs \cup Asks(n)
    PROVE  MsgsPast(msgs', now)
  <1>1. MsgsPast(msgs, now)
    BY PastParts
  <1>2. \A r \in Asks(n) : r \in Message /\ r.kind = "dseg"
    BY AskingPast DEF Asks
  <1> QED BY <1>1, <1>2 DEF MsgsPast

LEMMA StartPreserves ==
    ASSUME IndInv, NEW n \in Node, Start(n)
    PROVE  IndInv' /\ Forwards
  <1>1. /\ mode' = [mode EXCEPT ![n] = "up"]
        /\ CheckAndRemove(n, TRUE, TRUE)
        /\ IF n = Hot THEN status' = "initial" /\ vin' = FALSE ELSE UNCHANGED active
        /\ msgs' = msgs \cup Asks(n)
        /\ UNCHANGED <<now, spentAt, todo, counters>>
    BY DEF Start
  <1>2. \A k \in Node \ {n} : (Own(k) => Own(k)') /\ (Checked(k)' => Checked(k))
    BY <1>1 DEF active, Own, Checked
  <1>3. /\ EntriesGood'
        /\ list' \in [Node -> Entry]
        /\ \A k \in Node : list'[k] = None \/ (list'[k].state # "none"
                               /\ list'[k].sig # Never /\ list'[k].ping # Never)
        /\ SeenPast(seenMnb', now) /\ PingsPast(seenMnp', now)
        /\ asked' \in [Node -> 0 .. MaxTime + MinMnp]
        /\ SigSeen' /\ Forwards
    BY <1>1, <1>2, CheckAndRemoveStep
  <1>4. MsgsPast(msgs', now)
    BY <1>1, AsksPast
  <1>5. /\ status' \in {"initial", "not_capable", "started"} /\ vin' \in BOOLEAN /\ Started'
        /\ mode' \in [Node -> {"up", "suspended", "down"}]
    BY <1>1 DEF active, IndInv, TypeOK, Started
  <1>6. IndInv'
    BY <1>1, <1>3, <1>4, <1>5, Combine DEF counters, IndInv, TypeOK
  <1> QED BY <1>3, <1>6

LEMMA StartMasternodePreserves ==
    ASSUME IndInv, StartMasternode
    PROVE  IndInv' /\ Forwards
  <1> DEFINE e == list[Cold]
             new == [sig |-> now, ping |-> now, state |-> "enabled"]
             x == IF e = None THEN new ELSE UpdateFromNewBroadcast(e, now, now, TRUE)
  <1>1. /\ now \notin sent /\ sent' = sent \cup {now}
        /\ spentAt = Never
        /\ seenMnp' = [seenMnp EXCEPT ![Cold] = @ \cup {now}]
        /\ seenMnb' = SeenSet(Cold, now, now)
        /\ list' = [list EXCEPT ![Cold] = x]
        /\ msgs' = msgs \cup Relay(Cold, "mnb", now)
        /\ UNCHANGED <<now, asked, active, spentAt, mode, todo, outages>>
    BY DEF StartMasternode, SeenSet
  <1>2. /\ SeenPast(seenMnb, now) /\ PingsPast(seenMnp, now) /\ MsgsPast(msgs, now)
        /\ now \in Nat /\ now \in Time /\ now \in 0 .. MaxTime /\ spentAt \in Nat
        /\ Own(Cold) \in BOOLEAN /\ Checked(Cold) \in BOOLEAN
        /\ Good(e, now, spentAt, Own(Cold), Checked(Cold))
    BY PastParts, Constants
  <1>3. now <= now /\ Recent(now)
    BY <1>2, Constants DEF Recent
  <1>4. ASSUME e = None
        PROVE  Good(x, now, spentAt, Own(Cold), Checked(Cold)) /\ x # None /\ x.sig = now
               /\ x.ping = now
    <2>1. Good(new, now, Never, Own(Cold), Checked(Cold)) /\ new # None /\ new.sig = now
          /\ new.ping = now
      BY <1>2, <1>3, NewGood
    <2> QED BY <1>1, <1>4, <2>1
  <1>5. ASSUME e # None
        PROVE  /\ Good(x, now, spentAt, Own(Cold), Checked(Cold)) /\ x # None
               /\ e.sig <= x.sig /\ e.ping <= x.ping
               /\ x.sig = now \/ (x.sig = e.sig /\ x.ping = e.ping)
    <2> DEFINE u == UpdateFromNewBroadcast(e, now, now, TRUE)
    <2>1. /\ Good(u, now, spentAt, Own(Cold), Checked(Cold)) /\ u # None
          /\ e.sig <= u.sig /\ e.ping <= u.ping
          /\ u.sig = e.sig \/ u.sig = now
          /\ u.sig = e.sig => u.ping = e.ping
      <3>1. ASSUME NEW t \in Time, t <= now, Recent(t), NEW locked \in BOOLEAN,
                   e.state = "enabled" \/ locked
            PROVE  LET v == UpdateFromNewBroadcast(e, t, t, locked)
                   IN  /\ Good(v, now, spentAt, Own(Cold), Checked(Cold)) /\ v # None
                       /\ e.sig <= v.sig /\ e.ping <= v.ping
                       /\ v.sig = e.sig \/ v.sig = t
                       /\ v.sig = e.sig => v.ping = e.ping
        <4>1. t <= t
          BY Constants DEF Time
        <4>2. /\ now \in Nat /\ spentAt \in Nat
              /\ Own(Cold) \in BOOLEAN /\ Checked(Cold) \in BOOLEAN
              /\ Good(e, now, spentAt, Own(Cold), Checked(Cold))
          BY <1>2
        <4> QED BY <1>5, <3>1, <4>1, <4>2, UpdateGood
      <3> QED BY <1>2, <1>3, <3>1
    <2> QED BY <1>5, <2>1
  <1> HIDE DEF x, new
  <1>6. /\ EntriesGood'
        /\ list' \in [Node -> Entry]
        /\ \A k \in Node : list'[k] = None \/ (list'[k].state # "none"
                               /\ list'[k].sig # Never /\ list'[k].ping # Never)
        /\ list'[Cold] = x /\ \A k \in Node \ {Cold} : list'[k] = list[k]
    <2>1. Good(x, now, spentAt, Own(Cold)', Checked(Cold)')
      BY <1>1, <1>4, <1>5 DEF active, Own, Checked
    <2>2. \A k \in Node \ {Cold} : (Own(k) => Own(k)') /\ (Checked(k)' => Checked(k))
      BY <1>1 DEF active, Own, Checked
    <2> QED BY <1>1, <2>1, <2>2, EntryStep, Constants
  <1>7. /\ SeenPast(seenMnb', now) /\ seenMnb'[Cold][now] = now
        /\ \A k \in Node, t \in Time :
               ~(k = Cold /\ t = now) => seenMnb'[k][t] = seenMnb[k][t]
    BY <1>1, <1>2, <1>3, Constants, SeenStep
  <1>8. Forwards
    <2> SUFFICES ASSUME NEW k \in Node, list[k] # None
                 PROVE  Forward(list[k], list'[k])
      BY DEF Forwards
    <2>1. list[k] \in Entry /\ list'[k] \in Entry
      BY <1>6 DEF IndInv, TypeOK
    <2> QED BY <1>5, <1>6, <2>1, EntryParts, Constants DEF Forward
  <1>9. SigSeen'
    <2> SUFFICES ASSUME NEW k \in Node, list'[k] # None
                 PROVE  seenMnb'[k][list'[k].sig] # Never \/ list'[k].sig <= list'[k].ping
      BY DEF SigSeen
    <2>1. list'[k].sig \in Time
      BY <1>6, Constants DEF Entry, Never, Time
    <2>2. CASE k # Cold
      BY <1>6, <1>7, <2>1, <2>2 DEF IndInv, SigSeen
    <2>3. CASE k = Cold
      <3>1. now # Never
        BY <1>2, Constants DEF Time, Never
      <3>2. CASE list'[k].sig = now
        BY <1>7, <2>3, <3>1, <3>2
      <3>3. CASE list'[k].sig # now
        <4>1. e # None /\ list'[k].sig = e.sig /\ list'[k].ping = e.ping
          BY <1>4, <1>5, <1>6, <2>3, <3>3
        <4> QED BY <1>7, <2>1, <2>3, <3>3, <4>1, Constants DEF IndInv, SigSeen
      <3> QED BY <3>2, <3>3
    <2> QED BY <2>2, <2>3
  <1>10. MsgsPast(msgs', now)
    <2>1. MsgsPast(Relay(Cold, "mnb", now), now)
      BY <1>2, <1>3, RelayPast, Constants
    <2> QED BY <1>1, <1>2, <2>1 DEF MsgsPast
  <1>11. PingsPast(seenMnp', now)
    BY <1>1, <1>2, <1>3, Constants DEF PingsPast
  <1>12. sent' \subseteq Time
    BY <1>1, PastParts DEF IndInv, TypeOK
  <1>13. IndInv'
    BY <1>1, <1>6, <1>7, <1>9, <1>10, <1>11, <1>12, Combine
       DEF active, IndInv, TypeOK, Started
  <1> QED BY <1>8, <1>13

\* The collateral is spent in this tick, not before it.
LEMMA SpendPreserves ==
    ASSUME IndInv, Spend
    PROVE  IndInv' /\ Forwards
  <1>1. /\ spentAt' = now
        /\ UNCHANGED <<now, lists, active, msgs, mode, todo, counters>>
    BY DEF Spend
  <1>2. now \in 0 .. MaxTime /\ now # Never /\ now \in Int
    BY PastParts DEF Never
  <1>3. EntriesGood'
    <2> SUFFICES ASSUME NEW k \in Node
                 PROVE  Good(list[k], now, now, Own(k), Checked(k))
      BY <1>1 DEF EntriesGood, Own, Checked, lists, active
    <2>1. Good(list[k], now, spentAt, Own(k), Checked(k))
      BY PastParts
    <2> QED BY <1>2, <2>1 DEF Good
  <1>4. TypeOK'
    BY <1>1, <1>2 DEF IndInv, TypeOK, lists, active, counters
  <1>5. Past' /\ Started' /\ SigSeen'
    BY <1>1, <1>2 DEF IndInv, Past, Started, SigSeen, lists, active
  <1> QED BY <1>1, <1>3, <1>4, <1>5, SameForward DEF IndInv, Forwards, lists

LEMMA ManageActivatesPreserves ==
    ASSUME IndInv, NEW locked \in BOOLEAN, ManageActivates(locked)
    PROVE  IndInv' /\ Forwards
  <1> DEFINE e == list[Hot]
             new == Check(list[Hot], locked)
  <1>1. /\ e # None
        /\ list' = [list EXCEPT ![Hot] = new]
        /\ status' = "started" /\ vin' = TRUE
        /\ UNCHANGED <<now, seenMnb, seenMnp, asked, spentAt, msgs, mode, todo, counters>>
    BY DEF ManageActivates
  <1>2. /\ SeenPast(seenMnb, now) /\ PingsPast(seenMnp, now) /\ MsgsPast(msgs, now)
        /\ now \in Nat /\ spentAt \in Nat
        /\ Own(Hot) \in BOOLEAN /\ Checked(Hot) \in BOOLEAN
        /\ Good(e, now, spentAt, Own(Hot), Checked(Hot))
    BY PastParts, Constants
  <1>3. Good(new, now, spentAt, Own(Hot), Checked(Hot)) /\ new # None
    BY <1>1, <1>2, CheckGood
  <1>4. e \in Entry /\ new.sig = e.sig /\ new.ping = e.ping
    BY <1>2, CheckFacts DEF Good
  <1> HIDE DEF new
  <1>5. /\ EntriesGood'
        /\ list' \in [Node -> Entry]
        /\ \A k \in Node : list'[k] = None \/ (list'[k].state # "none"
                               /\ list'[k].sig # Never /\ list'[k].ping # Never)
        /\ list'[Hot] = new /\ \A k \in Node \ {Hot} : list'[k] = list[k]
    <2>1. Good(new, now, spentAt, Own(Hot)', Checked(Hot)')
      <3>1. (Own(Hot) => Own(Hot)') /\ (Checked(Hot)' => Checked(Hot))
        BY <1>1 DEF Own, Checked
      <3> QED BY <1>3, <3>1, GoodWeaker
    <2>2. \A k \in Node \ {Hot} : (Own(k) => Own(k)') /\ (Checked(k)' => Checked(k))
      BY <1>1 DEF Own, Checked
    <2> QED BY <1>1, <2>1, <2>2, EntryStep, Constants
  <1>6. \A k \in Node : /\ list[k] # None \/ list'[k] = None
                        /\ list'[k].sig = list[k].sig /\ list'[k].ping = list[k].ping
    BY <1>1, <1>4, <1>5
  <1>7. Forwards
    BY <1>6, SameForward DEF Forwards, Forward
  <1>8. SigSeen'
    BY <1>1, <1>6 DEF IndInv, SigSeen
  <1>9. Started'
    BY <1>1 DEF Started
  <1>10. IndInv'
    BY <1>1, <1>2, <1>5, <1>8, <1>9, Combine DEF counters, IndInv, TypeOK
  <1> QED BY <1>7, <1>10

LEMMA ManageWaitsPreserves ==
    ASSUME IndInv, NEW locked \in BOOLEAN, ManageWaits(locked)
    PROVE  IndInv' /\ Forwards
  <1> DEFINE e == list[Hot]
             checks == status = "initial" /\ e # None
             new == IF checks THEN Check(e, locked) ELSE e
  <1>1. /\ status' = "not_capable"
        /\ todo' = [todo EXCEPT ![Hot] = @ \ {"manage"}]
        /\ UNCHANGED <<now, seenMnb, seenMnp, asked, vin, spentAt, msgs, mode, counters>>
    BY DEF ManageWaits
  <1>2. /\ SeenPast(seenMnb, now) /\ PingsPast(seenMnp, now) /\ MsgsPast(msgs, now)
        /\ now \in Nat /\ spentAt \in Nat
        /\ Own(Hot) \in BOOLEAN /\ Checked(Hot) \in BOOLEAN
        /\ Good(e, now, spentAt, Own(Hot), Checked(Hot))
    BY PastParts, Constants
  <1>3. list' = [list EXCEPT ![Hot] = new]
    <2>1. CASE checks
      BY <2>1 DEF ManageWaits
    <2>2. CASE ~checks
      BY <2>2, Constants DEF ManageWaits, IndInv, TypeOK
    <2> QED BY <2>1, <2>2
  <1>4. Good(new, now, spentAt, Own(Hot), Checked(Hot)) /\ (e # None \/ new = None)
    BY <1>2, CheckGood
  <1>5. e \in Entry /\ new.sig = e.sig /\ new.ping = e.ping
    BY <1>2, CheckFacts DEF Good
  <1> HIDE DEF new
  <1>6. \A k \in Node : (Own(k) => Own(k)') /\ (Checked(k)' => Checked(k))
    BY <1>1, Constants DEF Own, Checked, IndInv, TypeOK
  <1>7. /\ EntriesGood'
        /\ list' \in [Node -> Entry]
        /\ \A k \in Node : list'[k] = None \/ (list'[k].state # "none"
                               /\ list'[k].sig # Never /\ list'[k].ping # Never)
        /\ list'[Hot] = new /\ \A k \in Node \ {Hot} : list'[k] = list[k]
    <2>1. Good(new, now, spentAt, Own(Hot)', Checked(Hot)')
      BY <1>4, <1>6, GoodWeaker, Constants
    <2> QED BY <1>1, <1>3, <1>6, <2>1, EntryStep, Constants
  <1>8. \A k \in Node : /\ list[k] # None \/ list'[k] = None
                        /\ list'[k].sig = list[k].sig /\ list'[k].ping = list[k].ping
    BY <1>4, <1>5, <1>7
  <1>9. Forwards
    BY <1>8, SameForward DEF Forwards, Forward
  <1>10. SigSeen' /\ Started'
    BY <1>1, <1>8 DEF IndInv, SigSeen, Started
  <1>11. todo' \in [Node -> SUBSET {"check", "manage"}]
    BY <1>1, Constants DEF IndInv, TypeOK
  <1>12. IndInv'
    BY <1>1, <1>2, <1>7, <1>10, <1>11, Combine DEF counters, IndInv, TypeOK
  <1> QED BY <1>9, <1>12

\* The active masternode gives its own entry a ping without a Check.
LEMMA SendMasternodePingPreserves ==
    ASSUME IndInv, SendMasternodePing
    PROVE  IndInv' /\ Forwards
  <1> DEFINE e == list[Hot]
             new == [sig |-> e.sig, ping |-> now, state |-> e.state]
  <1>1. /\ status = "started" /\ e # None
        /\ todo' = [todo EXCEPT ![Hot] = @ \ {"manage"}]
        /\ UNCHANGED <<now, asked, active, spentAt, mode, counters>>
    BY DEF SendMasternodePing
  <1>2. /\ SeenPast(seenMnb, now) /\ PingsPast(seenMnp, now) /\ MsgsPast(msgs, now)
        /\ now \in Nat /\ now \in Time /\ now \in 0 .. MaxTime
        /\ Good(e, now, spentAt, Own(Hot), Checked(Hot))
    BY PastParts, Constants
  <1>3. \A k \in Node : (Own(k) => Own(k)') /\ (Checked(k)' => Checked(k))
    BY <1>1, Constants DEF active, Own, Checked, IndInv, TypeOK
  <1>4. todo' \in [Node -> SUBSET {"check", "manage"}]
    BY <1>1, Constants DEF IndInv, TypeOK
  <1>5. CASE IsPingedWithin(e, PingEvery, now)
    <2>1. UNCHANGED <<list, seenMnb, seenMnp, msgs>>
      BY <1>5 DEF SendMasternodePing
    <2>2. EntriesGood'
      BY <1>1, <1>3, <2>1, SameEntries
    <2>3. IndInv'
      BY <1>1, <1>2, <1>4, <2>1, <2>2, Combine
         DEF active, counters, IndInv, TypeOK, Started, SigSeen
    <2> QED BY <2>1, <2>3, SameForward DEF Forwards
  <1>6. CASE ~IsPingedWithin(e, PingEvery, now)
    <2>1. /\ list' = [list EXCEPT ![Hot] = new]
          /\ seenMnp' = [seenMnp EXCEPT ![Hot] = @ \cup {now}]
          /\ seenMnb' = [seenMnb EXCEPT ![Hot] = SeenWithPing(Hot, e.sig, now)]
          /\ msgs' = msgs \cup Relay(Hot, "mnp", now)
      BY <1>6 DEF SendMasternodePing
    <2>2. /\ e.sig \in Time /\ e.sig <= now /\ e.sig \in Int /\ e.ping \in Int
          /\ e.ping <= now /\ e.state \in State /\ now # Never
      BY <1>1, <1>2, EntryParts, Constants DEF Good, Time, Never
    <2>3. new \in Entry /\ new.sig = e.sig /\ new.ping = now /\ new.state = e.state
      BY <1>2, <2>2, Constants DEF Entry, Time
    <2> HIDE DEF new
    <2>4. new # None
      BY <1>1, <1>2, <2>3, NoneEntry DEF Good
    <2>5. Own(Hot)
      BY <1>1 DEF IndInv, Started, Own
    <2>6. Good(new, now, spentAt, Own(Hot), Checked(Hot))
      BY <1>1, <1>2, <2>2, <2>3, <2>4, <2>5, Constants DEF Good
    <2>7. /\ EntriesGood'
          /\ list' \in [Node -> Entry]
          /\ \A k \in Node : list'[k] = None \/ (list'[k].state # "none"
                                 /\ list'[k].sig # Never /\ list'[k].ping # Never)
          /\ list'[Hot] = new /\ \A k \in Node \ {Hot} : list'[k] = list[k]
      <3>1. Good(new, now, spentAt, Own(Hot)', Checked(Hot)')
        BY <1>3, <2>6, GoodWeaker, Constants
      <3> QED BY <1>1, <1>3, <2>1, <3>1, EntryStep, Constants
    <2>8. /\ SeenPast(seenMnb', now)
          /\ \A k \in Node, t \in Time : seenMnb[k][t] # Never => seenMnb'[k][t] # Never
      <3>1. now <= now
        BY <1>2
      <3> QED BY <1>2, <2>1, <2>2, <3>1, SeenWithPingPast, Constants
    <2>9. Forwards
      <3> SUFFICES ASSUME NEW k \in Node
                   PROVE  Forward(list[k], list'[k])
        BY DEF Forwards
      <3>1. CASE k # Hot
        BY <2>7, <3>1, SameForward
      <3>2. CASE k = Hot
        BY <1>2, <2>2, <2>3, <2>7, <3>2, Constants DEF Forward
      <3> QED BY <3>1, <3>2
    <2>10. SigSeen'
      <3> SUFFICES ASSUME NEW k \in Node, list'[k] # None
                   PROVE  seenMnb'[k][list'[k].sig] # Never \/ list'[k].sig <= list'[k].ping
        BY DEF SigSeen
      <3>1. list'[k].sig \in Time
        BY <2>7, Constants DEF Entry, Never, Time
      <3>2. CASE k # Hot
        BY <2>7, <2>8, <3>1, <3>2 DEF IndInv, SigSeen
      <3>3. CASE k = Hot
        BY <2>2, <2>3, <2>7, <3>3
      <3> QED BY <3>2, <3>3
    <2>11. MsgsPast(msgs', now)
      <3>1. now <= now
        BY <1>2
      <3>2. MsgsPast(Relay(Hot, "mnp", now), now)
        BY <1>2, <3>1, RelayPast, Constants
      <3> QED BY <1>2, <2>1, <3>2 DEF MsgsPast
    <2>12. PingsPast(seenMnp', now)
      BY <1>2, <2>1, Constants DEF PingsPast
    <2>13. IndInv'
      BY <1>1, <1>4, <2>7, <2>8, <2>10, <2>11, <2>12, Combine
         DEF active, counters, IndInv, TypeOK, Started
    <2> QED BY <2>9, <2>13
  <1> QED BY <1>5, <1>6

LEMMA StopPingingPreserves ==
    ASSUME IndInv, StopPinging
    PROVE  IndInv' /\ Forwards
  <1>1. /\ status' = "not_capable"
        /\ todo' = [todo EXCEPT ![Hot] = @ \ {"manage"}]
        /\ UNCHANGED <<now, lists, vin, spentAt, msgs, mode, counters>>
    BY DEF StopPinging
  <1>2. \A k \in Node : (Own(k) => Own(k)') /\ (Checked(k)' => Checked(k))
    BY <1>1, Constants DEF Own, Checked, IndInv, TypeOK
  <1>3. EntriesGood'
    BY <1>1, <1>2, SameEntries DEF lists
  <1>4. todo' \in [Node -> SUBSET {"check", "manage"}]
    BY <1>1, Constants DEF IndInv, TypeOK
  <1>5. IndInv'
    BY <1>1, <1>3, <1>4, PastParts, Combine
       DEF lists, counters, IndInv, TypeOK, Started, SigSeen
  <1> QED BY <1>1, <1>5, SameForward DEF Forwards, lists

LEMMA OutagePreserves ==
    ASSUME IndInv, NEW n \in Node, NEW how \in {"down", "suspended"}, Outage(n, how)
    PROVE  IndInv' /\ Forwards
  <1>1. /\ outages < MaxOutages
        /\ mode' = [mode EXCEPT ![n] = how]
        /\ outages' = outages + 1
        /\ UNCHANGED <<now, lists, active, spentAt, msgs, todo, sent>>
    BY DEF Outage
  <1>2. EntriesGood'
    BY <1>1, SameEntries DEF lists, active, Own, Checked
  <1>3. mode' \in [Node -> {"up", "suspended", "down"}] /\ outages' \in 0 .. MaxOutages
    BY <1>1, Constants DEF IndInv, TypeOK
  <1>4. IndInv'
    BY <1>1, <1>2, <1>3, PastParts, Combine
       DEF lists, active, IndInv, TypeOK, Started, SigSeen
  <1> QED BY <1>1, <1>4, SameForward DEF Forwards, lists

LEMMA ResumePreserves ==
    ASSUME IndInv, NEW n \in Node, Resume(n)
    PROVE  IndInv' /\ Forwards
  <1>1. /\ mode' = [mode EXCEPT ![n] = "up"]
        /\ msgs' = msgs \cup Asks(n)
        /\ UNCHANGED <<now, lists, active, spentAt, todo, counters>>
    BY DEF Resume
  <1>2. EntriesGood'
    BY <1>1, SameEntries DEF lists, active, Own, Checked
  <1>3. MsgsPast(msgs', now)
    BY <1>1, AsksPast
  <1>4. mode' \in [Node -> {"up", "suspended", "down"}]
    BY <1>1 DEF IndInv, TypeOK
  <1>5. IndInv'
    BY <1>1, <1>2, <1>3, <1>4, PastParts, Combine
       DEF lists, active, counters, IndInv, TypeOK, Started, SigSeen
  <1> QED BY <1>1, <1>5, SameForward DEF Forwards, lists

\* After a tick every node has its check to do again.
LEMMA TickPreserves ==
    ASSUME IndInv, Tick
    PROVE  IndInv' /\ Forwards
  <1>1. /\ now < MaxTime /\ now' = now + 1 /\ msgs' = {}
        /\ todo' = [n \in Node |-> Work(n)]
        /\ UNCHANGED <<lists, active, spentAt, mode, counters>>
    BY DEF Tick
  <1>2. now \in Nat /\ now' \in Nat /\ now' \in 0 .. MaxTime /\ spentAt \in Nat
    BY <1>1, PastParts, Constants
  <1>3. /\ todo' \in [Node -> SUBSET {"check", "manage"}]
        /\ \A k \in Node : ~Checked(k)'
    BY <1>1 DEF Work, Checked
  <1>4. EntriesGood'
    <2> SUFFICES ASSUME NEW k \in Node
                 PROVE  Good(list[k], now + 1, spentAt, Own(k), Checked(k)')
      BY <1>1 DEF EntriesGood, Own, lists, active
    <2>1. Good(list[k], now, spentAt, Own(k), Checked(k))
      BY PastParts
    <2>2. list[k].sig \in Int /\ list[k].ping \in Int
      BY <2>1, EntryParts DEF Good
    <2>3. ~Checked(k)'
      BY <1>3
    <2> QED BY <1>2, <2>1, <2>2, <2>3, Constants DEF Good
  <1>5. TypeOK'
    BY <1>1, <1>2, <1>3 DEF IndInv, TypeOK, lists, active, counters
  <1>6. Past'
    <2>1. SeenPast(seenMnb, now) /\ PingsPast(seenMnp, now) /\ spentAt <= now /\ 1 <= now
      BY PastParts
    <2>2. \A n \in Node, t \in Time : seenMnb[n][t] \in Int
      BY <2>1, Constants DEF SeenPast
    <2>3. \A n \in Node : \A t \in seenMnp[n] : t \in Int
      BY <2>1, Constants DEF PingsPast, Time
    <2> QED BY <1>1, <1>2, <2>1, <2>2, <2>3 DEF Past, SeenPast, PingsPast, lists
  <1>7. Started' /\ SigSeen'
    BY <1>1 DEF IndInv, Started, SigSeen, lists, active
  <1> QED BY <1>1, <1>4, <1>5, <1>6, <1>7, SameForward DEF IndInv, Forwards, lists

-----------------------------------------------------------------------------
(* The theorems.                                                           *)

LEMMA InitEstablishes ==
    ASSUME Init
    PROVE  IndInv
  <1> USE DEF Init
  <1>1. now \in Nat /\ now = 1 /\ \A n \in Node : list[n] = None
    OBVIOUS
  <1>2. EntriesGood
    BY <1>1, NoneGood DEF EntriesGood
  <1>3. 1 \in 0 .. MaxTime
    BY Constants
  <1>4. TypeOK
    <2>1. list \in [Node -> Entry] /\ seenMnb \in [Node -> [Time -> 0 .. MaxTime]]
      BY NoneEntry, Constants DEF Never
    <2>2. asked \in [Node -> 0 .. MaxTime + MinMnp] /\ spentAt \in 0 .. MaxTime
      BY Constants DEF Never
    <2>3. /\ mode \in [Node -> {"up", "suspended", "down"}]
          /\ todo \in [Node -> SUBSET {"check", "manage"}]
      BY DEF Work
    <2>4. sent \subseteq Time /\ outages \in 0 .. MaxOutages
      BY Constants
    <2> QED BY <1>1, <1>3, <2>1, <2>2, <2>3, <2>4 DEF TypeOK
  <1>5. Past
    BY Constants DEF Past, Never, Time
  <1>6. Started /\ SigSeen
    BY <1>1 DEF Started, SigSeen
  <1> QED BY <1>2, <1>4, <1>5, <1>6 DEF IndInv

LEMMA ReceivePreserves ==
    ASSUME IndInv, NEW m \in msgs, Receive(m)
    PROVE  IndInv' /\ Forwards
  BY IgnorePreserves, RefuseMnbPreserves, KnownMnbPreserves, AddMnbPreserves,
     TakeMnpPreserves, RefuseMnpPreserves, ProcessDsegPreserves DEF Receive

LEMMA NextPreserves ==
    ASSUME IndInv, Next
    PROVE  IndInv' /\ Forwards
  <1>1. CASE \E m \in msgs : Receive(m)
    BY <1>1, ReceivePreserves
  <1>2. CASE StartMasternode
    BY <1>2, StartMasternodePreserves
  <1>3. CASE Spend
    BY <1>3, SpendPreserves
  <1>4. CASE \E n \in Node : ThreadChecks(n) \/ ThreadChecksBusy(n)
    BY <1>4, ThreadChecksPreserves, ThreadChecksBusyPreserves
  <1>5. CASE \E locked \in BOOLEAN : ManageActivates(locked)
    BY <1>5, ManageActivatesPreserves
  <1>6. CASE \E locked \in BOOLEAN : ManageWaits(locked)
    BY <1>6, ManageWaitsPreserves
  <1>7. CASE SendMasternodePing
    BY <1>7, SendMasternodePingPreserves
  <1>8. CASE StopPinging
    BY <1>8, StopPingingPreserves
  <1>9. CASE \E n \in Node : Outage(n, "down") \/ Outage(n, "suspended")
    BY <1>9, OutagePreserves
  <1>10. CASE \E n \in Node : Start(n)
    BY <1>10, StartPreserves
  <1>11. CASE \E n \in Node : Resume(n)
    BY <1>11, ResumePreserves
  <1>12. CASE Tick
    BY <1>12, TickPreserves
  <1> QED BY <1>1, <1>2, <1>3, <1>4, <1>5, <1>6, <1>7, <1>8, <1>9, <1>10, <1>11, <1>12
          DEF Next

LEMMA StutterPreserves ==
    ASSUME IndInv, UNCHANGED vars
    PROVE  IndInv'
  BY DEF vars, lists, active, counters, IndInv, TypeOK, EntriesGood, Past, Started, SigSeen,
         Own, Checked

\* The inductive invariant holds in every behaviour of the lists.
THEOREM Invariance == Spec => []IndInv
  <1>1. Init => IndInv
    BY InitEstablishes
  <1>2. IndInv /\ [Next]_vars => IndInv'
    BY NextPreserves, StutterPreserves
  <1> QED BY <1>1, <1>2, PTL DEF Spec

\* The lists, the seen messages and the state of the active masternode keep
\* their types: an entry always has a broadcast, a ping and a state.
THEOREM TypeCorrect == Spec => []TypeOK
  <1>1. IndInv => TypeOK
    BY DEF IndInv
  <1> QED BY <1>1, Invariance, PTL

\* CheckAndRemove: no node that has gone round its loop lists a masternode
\* that has been silent for too long, or has it enabled.
THEOREM SilentRemoved == Spec => []SilentGone
  <1>1. ASSUME IndInv
        PROVE  SilentGone
    <2> SUFFICES ASSUME NEW n \in Node, Checked(n), list[n] # None
                 PROVE  /\ now - list[n].ping < Removal
                        /\ IsEnabled(list[n]) => now - list[n].ping < Expiration
      BY DEF SilentGone, Checked
    <2>1. Good(list[n], now, spentAt, Own(n), Checked(n))
      BY <1>1 DEF IndInv, EntriesGood
    <2> QED BY <2>1 DEF Good, IsEnabled
  <1>2. IndInv => SilentGone
    BY <1>1
  <1> QED BY <1>2, Invariance, PTL

\* CMasternode::Check: no broadcast and no ping enables a masternode whose
\* collateral is spent.
THEOREM SpentStaysDisabled == Spec => []SpentNotEnabled
  <1>1. ASSUME IndInv
        PROVE  SpentNotEnabled
    <2> SUFFICES ASSUME NEW n \in Node, Checked(n), spentAt # Never, spentAt < now
                 PROVE  ~IsEnabled(list[n])
      BY DEF SpentNotEnabled, Checked
    <2>1. Good(list[n], now, spentAt, Own(n), Checked(n))
      BY <1>1 DEF IndInv, EntriesGood
    <2> QED BY <2>1 DEF Good, IsEnabled
  <1>2. IndInv => SpentNotEnabled
    BY <1>1
  <1> QED BY <1>2, Invariance, PTL

\* Broadcasts and pings, in any order and however late, never take an entry
\* back to an older broadcast, nor its ping by MASTERNODE_MIN_MNP_SECONDS.
THEOREM NeverGoesBack == Spec => NeverBackwards
  <1> DEFINE A == \A n \in Node : list[n] # None /\ list'[n] # None =>
                      list[n].sig <= list'[n].sig /\ list[n].ping - MinMnp < list'[n].ping
  <1>1. ASSUME IndInv, Next
        PROVE  A
    BY <1>1, NextPreserves DEF Forwards, Forward
  <1>2. IndInv /\ [Next]_vars => [A]_vars
    BY <1>1
  <1>3. NeverBackwards <=> [][A]_vars
    BY PTL DEF NeverBackwards
  <1> QED BY <1>2, <1>3, Invariance, PTL DEF Spec

-----------------------------------------------------------------------------
(* The newest broadcast.                                                   *)

\* Nothing but what the owner sent is seen or listed.
OnlySent ==
    /\ \A n \in Node, t \in Time : seenMnb[n][t] # Never => t \in sent
    /\ \A n \in Node : list[n] # None => list[n].sig \in sent
    /\ \A t \in sent : t \in Time /\ t <= now

\* A node that has seen the newest broadcast lists it, or it was too late.
Listed(n, t) == list[n] # None /\ list[n].sig = t
NewestListed ==
    Patient /\ spentAt = Never =>
        \A n \in Node \ {Hot}, t \in Time :
            Newest(t) /\ seenMnb[n][t] # Never => ~Recent(seenMnb[n][t]) \/ Listed(n, t)

\* Steps that change the list and the broadcasts of one node.
LEMMA OneNodeListed ==
    ASSUME OnlySent, NewestListed, UNCHANGED <<now, spentAt, sent>>, NEW n \in Node,
           \A k \in Node : k # n => list'[k] = list[k] /\ seenMnb'[k] = seenMnb[k],
           \A t \in Time : seenMnb'[n][t] # Never => t \in sent,
           list'[n] # None => list'[n].sig \in sent,
           Patient /\ spentAt = Never /\ n # Hot =>
               \A t \in Time : Newest(t) /\ seenMnb'[n][t] # Never =>
                   ~Recent(seenMnb'[n][t]) \/ (list'[n] # None /\ list'[n].sig = t)
    PROVE  OnlySent' /\ NewestListed'
  <1>1. OnlySent'
    BY DEF OnlySent
  <1>2. NewestListed'
    BY DEF NewestListed, Patient, Newest, Listed, Recent
  <1> QED BY <1>1, <1>2

\* A message with a broadcast is about one that was sent, and what its
\* receiver lists is older or newer.
LEMMA BroadcastSent ==
    ASSUME IndInv, OnlySent, NewestListed, NEW m \in msgs, m.kind = "mnb",
           seenMnb[m.from][m.hash] # Never
    PROVE  /\ m.to \in Node /\ m.hash \in Time /\ m.hash \in sent
           /\ \A t \in Time : Newest(t) => m.hash <= t
           /\ /\ list[m.to] = None \/ list[m.to].sig < m.hash
              /\ Patient /\ spentAt = Never /\ m.to # Hot
              => \A t \in Time : Newest(t) /\ t # m.hash /\ seenMnb[m.to][t] # Never =>
                     ~Recent(seenMnb[m.to][t])
  <1>1. m.to \in Node /\ m.from \in Node /\ m.hash \in Time
    BY MessageParts
  <1>2. m.hash \in sent
    BY <1>1 DEF OnlySent
  <1>3. \A t \in Time : Newest(t) => m.hash <= t
    BY <1>2 DEF Newest
  <1>4. ASSUME list[m.to] = None \/ list[m.to].sig < m.hash, Patient, spentAt = Never,
               m.to # Hot, NEW t \in Time, Newest(t), t # m.hash, seenMnb[m.to][t] # Never
        PROVE  ~Recent(seenMnb[m.to][t])
    <2>1. m.hash <= t /\ t \in Nat /\ m.hash \in Nat /\ list[m.to].sig \in Int
      BY <1>1, <1>3, <1>4, EntryParts DEF Time, IndInv, TypeOK
    <2>2. ~Listed(m.to, t)
      BY <1>4, <2>1 DEF Listed
    <2> QED BY <1>1, <1>4, <2>2 DEF NewestListed
  <1> QED BY <1>1, <1>2, <1>3, <1>4

\* A broadcast that is refused is late, or the node lists one as new.
LEMMA RefuseMnbListed ==
    ASSUME IndInv, OnlySent, NewestListed, NEW m \in msgs, RefuseMnb(m)
    PROVE  OnlySent' /\ NewestListed'
  <1> DEFINE n == m.to
             h == m.hash
             ping == seenMnb[m.from][h]
  <1>1. /\ m.kind = "mnb" /\ ping # Never /\ ~MnbAccepted(n, h, ping)
        /\ seenMnb' = SeenSet(n, h, ping)
        /\ UNCHANGED <<now, list, spentAt, sent>>
    BY DEF RefuseMnb, SeenSet, counters
  <1>2. /\ n \in Node /\ h \in Time /\ h \in sent /\ \A t \in Time : Newest(t) => h <= t
    BY <1>1, BroadcastSent
  <1>3. /\ seenMnb'[n][h] = ping
        /\ \A k \in Node, t \in Time : ~(k = n /\ t = h) => seenMnb'[k][t] = seenMnb[k][t]
        /\ \A k \in Node : k # n => seenMnb'[k] = seenMnb[k]
    <2>1. SeenPast(seenMnb, now) /\ now \in Nat
      BY PastParts
    <2>2. \A k \in Node : k # n => seenMnb'[k] = seenMnb[k]
      BY <1>1, <1>2, <2>1 DEF SeenSet, SeenPast
    <2> QED BY <1>1, <1>2, <2>1, <2>2, MessageParts, SeenStep
  <1>4. \A t \in Time : seenMnb'[n][t] # Never => t \in sent
    BY <1>2, <1>3 DEF OnlySent
  <1>5. ASSUME Patient, spentAt = Never, n # Hot, NEW t \in Time, Newest(t), seenMnb'[n][t] # Never
        PROVE  ~Recent(seenMnb'[n][t]) \/ (list'[n] # None /\ list'[n].sig = t)
    <2>1. CASE t # h
      BY <1>1, <1>2, <1>3, <1>5, <2>1 DEF NewestListed, Listed
    <2>2. CASE t = h
      <3>1. CASE ~Recent(ping)
        BY <1>3, <2>2, <3>1
      <3>2. CASE list[n] # None /\ ~(list[n].sig < h)
        <4>1. list[n].sig \in sent /\ list[n].sig \in Int /\ h \in Int
          BY <1>2, <3>2, EntryParts DEF OnlySent, IndInv, TypeOK, Time
        <4>2. list[n].sig <= h
          BY <1>5, <2>2, <4>1 DEF Newest
        <4> QED BY <1>1, <2>2, <3>2, <4>1, <4>2
      <3> QED BY <1>1, <3>1, <3>2 DEF MnbAccepted
    <2> QED BY <2>1, <2>2
  <1>6. \A k \in Node : k # n => list'[k] = list[k] /\ seenMnb'[k] = seenMnb[k]
    BY <1>1, <1>3
  <1>7. list'[n] # None => list'[n].sig \in sent
    BY <1>1, <1>2 DEF OnlySent
  <1> HIDE DEF n, h, ping
  <1> QED BY <1>1, <1>2, <1>4, <1>5, <1>6, <1>7, OneNodeListed

\* A broadcast that is taken for known: its sigTime is listed then, since an
\* enabled entry is updated when the owner was patient.
LEMMA KnownMnbListed ==
    ASSUME IndInv, OnlySent, NewestListed, NEW m \in msgs, NEW locked \in BOOLEAN,
           KnownMnb(m, locked)
    PROVE  OnlySent' /\ NewestListed'
  <1> DEFINE n == m.to
             h == m.hash
             ping == seenMnb[m.from][h]
             e == UpdatedEntry(n, h, ping, locked)
  <1>1. /\ m.kind = "mnb" /\ ping # Never /\ MnbAccepted(n, h, ping) /\ MnbDone(n, e)
        /\ seenMnb' = SeenSet(n, h, ping) /\ list' = [list EXCEPT ![n] = e]
        /\ UNCHANGED <<now, spentAt, sent>>
    BY DEF KnownMnb, SeenSet, counters
  <1>2. /\ n \in Node /\ h \in Time /\ h \in sent /\ \A t \in Time : Newest(t) => h <= t
        /\ /\ list[n] = None \/ list[n].sig < h
           /\ Patient /\ spentAt = Never /\ n # Hot
           => \A t \in Time : Newest(t) /\ t # h /\ seenMnb[n][t] # Never =>
                  ~Recent(seenMnb[n][t])
    BY <1>1, BroadcastSent
  <1>3. /\ seenMnb'[n][h] = ping
        /\ \A k \in Node, t \in Time : ~(k = n /\ t = h) => seenMnb'[k][t] = seenMnb[k][t]
        /\ \A k \in Node : k # n => seenMnb'[k] = seenMnb[k]
    <2>1. SeenPast(seenMnb, now) /\ now \in Nat
      BY PastParts
    <2>2. \A k \in Node : k # n => seenMnb'[k] = seenMnb[k]
      BY <1>1, <1>2, <2>1 DEF SeenSet, SeenPast
    <2> QED BY <1>1, <1>2, <2>1, <2>2, MessageParts, SeenStep
  <1>4. /\ list'[n] = e /\ \A k \in Node : k # n => list'[k] = list[k]
        /\ list[n] \in Entry /\ list[n].sig \in Int /\ h \in Int /\ now \in Nat /\ h <= now
    BY <1>1, <1>2, EntryParts DEF IndInv, TypeOK, Time, OnlySent
  <1>5. \A t \in Time : seenMnb'[n][t] # Never => t \in sent
    BY <1>2, <1>3 DEF OnlySent
  <1>6. CASE list[n] = None
    <2>1. e = None
      BY <1>6, NoneEntry DEF UpdatedEntry, Updates, IsEnabled
    <2>2. n = Hot
      BY <1>1, <2>1, NoneEntry DEF MnbDone, IsEnabled
    <2> HIDE DEF n, h, ping, e
    <2> QED BY <1>1, <1>2, <1>3, <1>4, <1>5, <2>1, <2>2, OneNodeListed
  <1>7. CASE list[n] # None
    <2>1. list[n].sig < h /\ list[n].sig \in sent
      BY <1>1, <1>2, <1>7 DEF MnbAccepted, OnlySent
    <2>2. CASE Updates(n)
      <3> DEFINE u == UpdateFromNewBroadcast(list[n], h, ping, locked)
      <3>1. e = Check(u, locked) /\ u \in Entry /\ u.sig = h
        <4>1. ping \in 0 .. MaxTime /\ h \in 0 .. MaxTime
          BY <1>1, <1>2, MessageParts, Constants DEF Time
        <4>2. list[n].ping \in 0 .. MaxTime /\ list[n].state \in State
          BY <1>4, EntryParts
        <4>3. [sig |-> h, ping |-> list[n].ping, state |-> list[n].state] \in Entry
          BY <4>1, <4>2 DEF Entry
        <4>4. [sig |-> h, ping |-> ping, state |-> list[n].state] \in Entry
          BY <4>1, <4>2 DEF Entry
        <4>5. ~(h <= list[n].sig)
          BY <1>4, <2>1
        <4>6. u = IF Takes(list[n], ping)
                  THEN Check([sig |-> h, ping |-> ping, state |-> list[n].state], locked)
                  ELSE [sig |-> h, ping |-> list[n].ping, state |-> list[n].state]
          BY <4>5 DEF UpdateFromNewBroadcast, WithPing
        <4>7. /\ Check([sig |-> h, ping |-> ping, state |-> list[n].state], locked) \in Entry
              /\ Check([sig |-> h, ping |-> ping, state |-> list[n].state], locked).sig = h
          BY <1>4, <4>4, CheckFacts
        <4> QED BY <2>2, <4>3, <4>6, <4>7 DEF UpdatedEntry
      <3>2. e.sig = h
        BY <1>4, <3>1, CheckFacts
      <3>3. e # None
        BY <1>2, <3>2, NoneEntry DEF Time
      <3> HIDE DEF n, h, ping, e
      <3>4. Patient /\ spentAt = Never /\ n # Hot =>
               \A t \in Time : Newest(t) /\ seenMnb'[n][t] # Never =>
                   ~Recent(seenMnb'[n][t]) \/ (list'[n] # None /\ list'[n].sig = t)
        BY <1>2, <1>3, <1>4, <2>1, <3>2, <3>3
      <3> QED BY <1>1, <1>2, <1>3, <1>4, <1>5, <3>2, <3>4, OneNodeListed
    <2>3. CASE ~Updates(n)
      <3>1. e = list[n]
        BY <2>3 DEF UpdatedEntry
      <3>2. n # Hot => ~Patient
        <4>1. SUFFICES ASSUME n # Hot PROVE ~Patient
          OBVIOUS
        <4>2. ~(now - list[n].sig >= MinMnb)
          BY <1>1, <2>3, <3>1, <4>1 DEF MnbDone, Updates
        <4>3. ~(h - list[n].sig >= MinMnb)
          BY <1>4, <4>2, Constants
        <4> QED BY <1>2, <2>1, <4>3 DEF Patient
      <3> HIDE DEF n, h, ping, e
      <3> QED BY <1>1, <1>2, <1>3, <1>4, <1>5, <2>1, <3>1, <3>2, OneNodeListed
    <2> QED BY <2>2, <2>3
  <1> QED BY <1>6, <1>7

\* A broadcast that is added is listed; one that cs_main was too busy for is
\* not kept as seen.
LEMMA AddMnbListed ==
    ASSUME IndInv, OnlySent, NewestListed, NEW m \in msgs, NEW locked \in BOOLEAN,
           AddMnb(m, locked)
    PROVE  OnlySent' /\ NewestListed'
  <1> DEFINE n == m.to
             h == m.hash
             ping == seenMnb[m.from][h]
             added == locked /\ spentAt = Never
             kept == IF locked THEN ping ELSE Never
             e == IF added THEN [sig |-> h, ping |-> ping, state |-> "enabled"] ELSE None
  <1>1. /\ m.kind = "mnb" /\ ping # Never /\ MnbAccepted(n, h, ping)
        /\ seenMnb' = SeenSet(n, h, kept) /\ list' = [list EXCEPT ![n] = e]
        /\ UNCHANGED <<now, spentAt, sent>>
    BY DEF AddMnb, SeenSet, counters
  <1>2. /\ n \in Node /\ h \in Time /\ h \in sent /\ \A t \in Time : Newest(t) => h <= t
        /\ /\ list[n] = None \/ list[n].sig < h
           /\ Patient /\ spentAt = Never /\ n # Hot
           => \A t \in Time : Newest(t) /\ t # h /\ seenMnb[n][t] # Never =>
                  ~Recent(seenMnb[n][t])
    BY <1>1, BroadcastSent
  <1>3. /\ seenMnb'[n][h] = kept
        /\ \A k \in Node, t \in Time : ~(k = n /\ t = h) => seenMnb'[k][t] = seenMnb[k][t]
        /\ \A k \in Node : k # n => seenMnb'[k] = seenMnb[k]
    <2>1. SeenPast(seenMnb, now) /\ now \in Nat
      BY PastParts
    <2>2. \A k \in Node : k # n => seenMnb'[k] = seenMnb[k]
      BY <1>1, <1>2, <2>1 DEF SeenSet, SeenPast
    <2>3. kept \in 0 .. MaxTime /\ kept <= now /\ (kept # Never => h <= kept)
      BY <1>1, <2>1, MessageParts, Constants DEF Never
    <2> HIDE DEF kept
    <2> QED BY <1>1, <1>2, <2>1, <2>2, <2>3, SeenStep
  <1>4. list'[n] = e /\ \A k \in Node : k # n => list'[k] = list[k]
    BY <1>1, <1>2 DEF IndInv, TypeOK
  <1>5. e # None => e.sig = h
    OBVIOUS
  <1>6. added => e # None /\ e.sig = h
    BY <1>2, NoneEntry DEF Time
  <1>7. spentAt = Never => added \/ kept = Never
    OBVIOUS
  <1>8. list[n] = None \/ list[n].sig < h
    BY <1>1 DEF MnbAccepted
  <1> HIDE DEF n, h, ping, added, kept, e
  <1>9. \A t \in Time : seenMnb'[n][t] # Never => t \in sent
    BY <1>2, <1>3 DEF OnlySent
  <1>10. Patient /\ spentAt = Never /\ n # Hot =>
             \A t \in Time : Newest(t) /\ seenMnb'[n][t] # Never =>
                 ~Recent(seenMnb'[n][t]) \/ (list'[n] # None /\ list'[n].sig = t)
    BY <1>2, <1>3, <1>4, <1>6, <1>7, <1>8
  <1> QED BY <1>1, <1>2, <1>3, <1>4, <1>5, <1>9, <1>10, OneNodeListed

\* The ping of an entry that takes it, and what is kept of its broadcast.
LEMMA SeenWithPingListed ==
    ASSUME IndInv, OnlySent, NewestListed, NEW n \in Node, list[n] # None,
           NEW ping, NEW e, e # None, e.sig = list[n].sig,
           list' = [list EXCEPT ![n] = e],
           seenMnb' = [seenMnb EXCEPT ![n] = SeenWithPing(n, list[n].sig, ping)],
           UNCHANGED <<now, spentAt, sent>>
    PROVE  OnlySent' /\ NewestListed'
  <1> DEFINE s == list[n].sig
  <1>1. s \in Time /\ s \in sent
    BY DEF OnlySent
  <1>2. seenMnb \in [Node -> [Time -> 0 .. MaxTime]] /\ list \in [Node -> Entry]
    BY DEF IndInv, TypeOK
  <1>3. \A t \in Time : t # s => SeenWithPing(n, s, ping)[t] = seenMnb[n][t]
    BY <1>1, <1>2 DEF SeenWithPing
  <1>4. /\ list'[n] = e /\ \A k \in Node : k # n => list'[k] = list[k]
        /\ seenMnb'[n] = SeenWithPing(n, s, ping)
        /\ \A k \in Node : k # n => seenMnb'[k] = seenMnb[k]
    BY <1>2
  <1> HIDE DEF s
  <1>5. \A t \in Time : seenMnb'[n][t] # Never => t \in sent
    BY <1>1, <1>3, <1>4 DEF OnlySent
  <1>6. Patient /\ spentAt = Never /\ n # Hot =>
            \A t \in Time : Newest(t) /\ seenMnb'[n][t] # Never =>
                ~Recent(seenMnb'[n][t]) \/ (list'[n] # None /\ list'[n].sig = t)
    BY <1>3, <1>4 DEF NewestListed, Listed, s
  <1>7. list'[n] # None => list'[n].sig \in sent
    BY <1>1, <1>4 DEF s
  <1> QED BY <1>4, <1>5, <1>6, <1>7, OneNodeListed

LEMMA TakeMnpListed ==
    ASSUME IndInv, OnlySent, NewestListed, NEW m \in msgs, NEW locked \in BOOLEAN,
           TakeMnp(m, locked)
    PROVE  OnlySent' /\ NewestListed'
  <1> DEFINE n == m.to
             e == list[n]
             new == WithPing(e, m.hash, locked)
  <1>1. /\ m.kind = "mnp" /\ IsEnabled(e) /\ list' = [list EXCEPT ![n] = new]
        /\ seenMnb' = [seenMnb EXCEPT ![n] = SeenWithPing(n, e.sig, m.hash)]
        /\ UNCHANGED <<now, spentAt, sent>>
    BY DEF TakeMnp, counters
  <1>2. n \in Node /\ m.hash \in 0 .. MaxTime /\ e \in Entry /\ now \in Nat
    <2>1. n \in Node /\ m.hash \in Time
      BY <1>1, MessageParts
    <2>2. list \in [Node -> Entry] /\ now \in Nat
      BY DEF IndInv, TypeOK
    <2>3. m.hash \in 0 .. MaxTime
      BY <2>1, Constants DEF Time
    <2> HIDE DEF n
    <2> QED BY <2>1, <2>2, <2>3
  <1>3. e # None
    BY <1>1, NoneEntry DEF IsEnabled
  <1>4. [sig |-> e.sig, ping |-> m.hash, state |-> e.state] \in Entry
    BY <1>2, EntryParts DEF Entry
  <1>5. new.sig = e.sig /\ new.state # "none"
    BY <1>1, <1>2, <1>4, CheckFacts DEF WithPing, IsEnabled
  <1>6. new # None
    BY <1>5, NoneEntry
  <1> HIDE DEF n, new
  <1> QED BY <1>1, <1>2, <1>3, <1>5, <1>6, SeenWithPingListed

LEMMA ProcessDsegListed ==
    ASSUME IndInv, OnlySent, NewestListed, NEW m \in msgs, ProcessDseg(m)
    PROVE  OnlySent' /\ NewestListed'
  <1> DEFINE n == m.to
             e == list[n]
  <1>0. n \in Node /\ seenMnb \in [Node -> [Time -> 0 .. MaxTime]]
    BY MessageParts DEF IndInv, TypeOK
  <1>1. UNCHANGED <<now, list, spentAt, sent>>
    BY DEF ProcessDseg, counters
  <1>2. CASE UNCHANGED seenMnb
    BY <1>1, <1>2 DEF OnlySent, NewestListed, Patient, Newest, Listed, Recent
  <1>3. CASE /\ IsEnabled(e) /\ seenMnb[n][e.sig] = Never
             /\ seenMnb' = SeenSet(n, e.sig, e.ping)
    <2>1. e # None /\ e.sig \in sent /\ e.sig \in Time
      BY <1>0, <1>3, NoneEntry DEF IsEnabled, OnlySent
    <2>2. /\ \A k \in Node : k # n => seenMnb'[k] = seenMnb[k]
          /\ \A t \in Time : t # e.sig => seenMnb'[n][t] = seenMnb[n][t]
      BY <1>0, <1>3, <2>1 DEF SeenSet
    <2>3. \A t \in Time : seenMnb'[n][t] # Never => t \in sent
      BY <1>0, <2>1, <2>2 DEF OnlySent
    <2>4. Patient /\ spentAt = Never /\ n # Hot =>
              \A t \in Time : Newest(t) /\ seenMnb'[n][t] # Never =>
                  ~Recent(seenMnb'[n][t]) \/ (list'[n] # None /\ list'[n].sig = t)
      BY <1>0, <1>1, <2>1, <2>2 DEF NewestListed, Listed
    <2> HIDE DEF n
    <2> QED BY <1>0, <1>1, <2>1, <2>2, <2>3, <2>4, OneNodeListed
  <1>4. \/ UNCHANGED seenMnb
        \/ /\ IsEnabled(e) /\ seenMnb[n][e.sig] = Never
           /\ seenMnb' = SeenSet(n, e.sig, e.ping)
    <2>1. CASE ~IsEnabled(e)
      BY <2>1 DEF ProcessDseg
    <2>2. CASE IsEnabled(e) /\ seenMnb[n][e.sig] = Never
      BY <2>2 DEF ProcessDseg, SeenSet
    <2>3. CASE IsEnabled(e) /\ seenMnb[n][e.sig] # Never
      <3>1. seenMnb' = [seenMnb EXCEPT ![n] = seenMnb[n]]
        BY <2>3 DEF ProcessDseg
      <3> QED BY <1>0, <3>1
    <2> QED BY <2>1, <2>2, <2>3
  <1> QED BY <1>2, <1>3, <1>4

\* A new broadcast: no node but Cold has seen it, and Cold lists it.
LEMMA StartMasternodeListed ==
    ASSUME IndInv, OnlySent, NewestListed, StartMasternode
    PROVE  OnlySent' /\ NewestListed'
  <1> DEFINE e == list[Cold]
             new == [sig |-> now, ping |-> now, state |-> "enabled"]
             x == IF e = None THEN new ELSE UpdateFromNewBroadcast(e, now, now, TRUE)
  <1>1. /\ now \notin sent /\ sent' = sent \cup {now}
        /\ seenMnb' = SeenSet(Cold, now, now)
        /\ list' = [list EXCEPT ![Cold] = x]
        /\ UNCHANGED <<now, spentAt>>
    BY DEF StartMasternode, SeenSet
  <1>2. /\ now \in Time /\ now \in Nat /\ Cold \in Node /\ e \in Entry /\ now \in 0 .. MaxTime
        /\ seenMnb \in [Node -> [Time -> 0 .. MaxTime]] /\ list \in [Node -> Entry]
    BY PastParts, Constants DEF IndInv, TypeOK
  <1>3. x.sig = now
    <2>1. CASE e = None
      BY <2>1
    <2>2. CASE e # None
      <3>1. e.sig \in Int /\ e.sig < now
        <4>1. e.sig \in sent
          BY <1>2, <2>2 DEF OnlySent
        <4>2. e.sig <= now /\ e.sig # now
          BY <1>1, <4>1 DEF OnlySent
        <4>3. e.sig \in Int
          BY <1>2, EntryParts
        <4> QED BY <1>2, <4>2, <4>3
      <3>2. [sig |-> now, ping |-> now, state |-> e.state] \in Entry
        BY <1>2, EntryParts DEF Entry
      <3>3. Check([sig |-> now, ping |-> now, state |-> e.state], TRUE).sig = now
        BY <1>2, <3>2, CheckFacts
      <3>4. UpdateFromNewBroadcast(e, now, now, TRUE)
               = IF Takes(e, now)
                 THEN Check([sig |-> now, ping |-> now, state |-> e.state], TRUE)
                 ELSE [sig |-> now, ping |-> e.ping, state |-> e.state]
        <4>1. ~(now <= e.sig)
          BY <1>2, <3>1
        <4> HIDE DEF e
        <4> QED BY <4>1 DEF UpdateFromNewBroadcast, WithPing
      <3>5. x = UpdateFromNewBroadcast(e, now, now, TRUE)
        BY <2>2
      <3> HIDE DEF x
      <3>6. CASE Takes(e, now)
        BY <3>3, <3>4, <3>5, <3>6
      <3>7. CASE ~Takes(e, now)
        <4>1. x = [sig |-> now, ping |-> e.ping, state |-> e.state]
          BY <3>4, <3>5, <3>7
        <4> QED BY <4>1
      <3> QED BY <3>6, <3>7
    <2> QED BY <2>1, <2>2
  <1> HIDE DEF x
  <1>4. x # None
    <2>1. now # 0
      BY PastParts
    <2> QED BY <1>3, <2>1, NoneEntry
  <1>5. /\ list'[Cold] = x /\ \A k \in Node : k # Cold => list'[k] = list[k]
        /\ \A k \in Node, t \in Time : ~(k = Cold /\ t = now) => seenMnb'[k][t] = seenMnb[k][t]
    BY <1>1, <1>2 DEF SeenSet
  <1>6. OnlySent'
    BY <1>1, <1>2, <1>3, <1>5 DEF OnlySent
  <1>7. \A t \in Time : Newest(t)' => t = now
    BY <1>1, <1>2 DEF Newest, OnlySent, Time
  <1>8. NewestListed'
    BY <1>1, <1>2, <1>3, <1>4, <1>5, <1>7 DEF NewestListed, Listed, OnlySent
  <1> QED BY <1>6, <1>8

\* An entry that is removed takes the broadcasts with it.
LEMMA CheckAndRemoveListed ==
    ASSUME IndInv, OnlySent, NewestListed, NEW n \in Node, NEW forced \in BOOLEAN,
           NEW locked \in BOOLEAN, CheckAndRemove(n, forced, locked),
           UNCHANGED <<now, spentAt, sent>>
    PROVE  OnlySent' /\ NewestListed'
  <1> DEFINE e == Check(list[n], locked)
             gone == list[n] # None /\ ~Kept(e, forced)
             seen == [t \in Time |-> IF gone \/ Old(seenMnb[n][t]) THEN Never
                                     ELSE seenMnb[n][t]]
             x == IF list[n] = None \/ gone THEN None ELSE e
  <1>1. list' = [list EXCEPT ![n] = x] /\ seenMnb' = [seenMnb EXCEPT ![n] = seen]
    BY DEF CheckAndRemove
  <1>2. /\ seenMnb \in [Node -> [Time -> 0 .. MaxTime]] /\ list \in [Node -> Entry]
        /\ list[n] \in Entry /\ now \in Nat
    BY DEF IndInv, TypeOK
  <1>3. list[n] # None => e.sig = list[n].sig /\ e # None
    <2>1. list[n] # None => list[n].state # "none"
      BY DEF IndInv, TypeOK
    <2> QED BY <1>2, <2>1, CheckFacts, NoneEntry
  <1>4. /\ x # None => list[n] # None /\ x.sig = list[n].sig
        /\ \A t \in Time : seen[t] # Never => seen[t] = seenMnb[n][t] /\ ~gone
        /\ ~gone /\ list[n] # None => x # None
    BY <1>3
  <1> HIDE DEF x, seen, gone, e
  <1>5. /\ list'[n] = x /\ \A k \in Node : k # n => list'[k] = list[k]
        /\ seenMnb'[n] = seen /\ \A k \in Node : k # n => seenMnb'[k] = seenMnb[k]
    BY <1>1, <1>2
  <1>6. \A t \in Time : seenMnb'[n][t] # Never => t \in sent
    BY <1>4, <1>5 DEF OnlySent
  <1>7. list'[n] # None => list'[n].sig \in sent
    BY <1>4, <1>5 DEF OnlySent
  <1>8. Patient /\ spentAt = Never /\ n # Hot =>
            \A t \in Time : Newest(t) /\ seenMnb'[n][t] # Never =>
                ~Recent(seenMnb'[n][t]) \/ (list'[n] # None /\ list'[n].sig = t)
    BY <1>4, <1>5 DEF NewestListed, Listed
  <1> QED BY <1>5, <1>6, <1>7, <1>8, OneNodeListed

\* ManageStatus gives the own entry another state.
LEMMA ManageListed ==
    ASSUME IndInv, OnlySent, NewestListed, NEW locked \in BOOLEAN,
           ManageActivates(locked) \/ ManageWaits(locked)
    PROVE  OnlySent' /\ NewestListed'
  <1>1. /\ UNCHANGED <<now, seenMnb, spentAt, sent>>
        /\ \/ UNCHANGED list
           \/ list[Hot] # None /\ list' = [list EXCEPT ![Hot] = Check(list[Hot], locked)]
    BY DEF ManageActivates, ManageWaits, counters
  <1>2. Hot \in Node /\ list \in [Node -> Entry] /\ list[Hot] \in Entry /\ now \in Nat
    BY Constants DEF IndInv, TypeOK
  <1>3. Check(list[Hot], locked).sig = list[Hot].sig
    BY <1>2, CheckFacts
  <1>4. /\ \A k \in Node : k # Hot => list'[k] = list[k]
        /\ list'[Hot] # None => list'[Hot].sig = list[Hot].sig /\ list[Hot] # None
    BY <1>1, <1>2, <1>3
  <1>5. list'[Hot] # None => list'[Hot].sig \in sent
    BY <1>2, <1>4 DEF OnlySent
  <1>6. \A t \in Time : seenMnb'[Hot][t] # Never => t \in sent
    BY <1>1, <1>2 DEF OnlySent
  <1> QED BY <1>1, <1>2, <1>4, <1>5, <1>6, OneNodeListed

LEMMA SendMasternodePingListed ==
    ASSUME IndInv, OnlySent, NewestListed, SendMasternodePing
    PROVE  OnlySent' /\ NewestListed'
  <1> DEFINE e == list[Hot]
             new == [sig |-> e.sig, ping |-> now, state |-> e.state]
  <1>1. /\ e # None /\ UNCHANGED <<now, spentAt, sent>>
        /\ \/ UNCHANGED <<list, seenMnb>>
           \/ /\ list' = [list EXCEPT ![Hot] = new]
              /\ seenMnb' = [seenMnb EXCEPT ![Hot] = SeenWithPing(Hot, e.sig, now)]
    BY DEF SendMasternodePing, counters
  <1>2. Hot \in Node /\ now # 0
    BY Constants, PastParts
  <1>3. new.sig = e.sig /\ new # None
    BY <1>2, NoneEntry
  <1>4. CASE UNCHANGED <<list, seenMnb>>
    BY <1>1, <1>4 DEF OnlySent, NewestListed, Patient, Newest, Listed, Recent
  <1> HIDE DEF new
  <1>5. CASE /\ list' = [list EXCEPT ![Hot] = new]
             /\ seenMnb' = [seenMnb EXCEPT ![Hot] = SeenWithPing(Hot, e.sig, now)]
    BY <1>1, <1>2, <1>3, <1>5, SeenWithPingListed
  <1> QED BY <1>1, <1>4, <1>5

\* What was late stays late; once the collateral is spent nothing is claimed.
LEMMA OtherListed ==
    ASSUME IndInv, OnlySent, NewestListed, UNCHANGED <<list, seenMnb, sent>>,
           now' \in Nat, now <= now', spentAt' = spentAt \/ spentAt' # Never
    PROVE  OnlySent' /\ NewestListed'
  <1>1. now \in Nat /\ seenMnb \in [Node -> [Time -> 0 .. MaxTime]] /\ sent \subseteq Time
    BY DEF IndInv, TypeOK
  <1>2. OnlySent'
    BY <1>1 DEF OnlySent, Time
  <1>3. ASSUME NEW n \in Node, NEW t \in Time, ~Recent(seenMnb[n][t])
        PROVE  ~(seenMnb[n][t] > now' - Window)
    <2>1. seenMnb[n][t] \in Int /\ ~(seenMnb[n][t] > now - Window)
      BY <1>1, <1>3 DEF Recent
    <2> QED BY <1>1, <2>1, Constants
  <1>4. NewestListed'
    BY <1>3 DEF NewestListed, Patient, Newest, Listed, Recent
  <1> QED BY <1>2, <1>4

LEMMA NextListed ==
    ASSUME IndInv, OnlySent, NewestListed, [Next]_vars
    PROVE  OnlySent' /\ NewestListed'
  <1>0. now \in Nat /\ 1 <= now /\ now <= now
    BY PastParts
  <1>1. ASSUME NEW m \in msgs, Receive(m) PROVE OnlySent' /\ NewestListed'
    <2>1. CASE IgnoreMnb(m) \/ IgnoreMnp(m) \/ RefuseMnp(m)
      BY <1>0, <2>1, OtherListed DEF IgnoreMnb, IgnoreMnp, RefuseMnp, lists, counters
    <2> QED BY <1>1, <2>1, RefuseMnbListed, KnownMnbListed, AddMnbListed, TakeMnpListed,
               ProcessDsegListed DEF Receive
  <1>2. CASE StartMasternode
    BY <1>2, StartMasternodeListed
  <1>3. CASE Spend
    BY <1>0, <1>3, OtherListed DEF Spend, lists, counters, Never
  <1>4. ASSUME NEW n \in Node, ThreadChecks(n) \/ ThreadChecksBusy(n) \/ Start(n)
        PROVE  OnlySent' /\ NewestListed'
    BY <1>4, CheckAndRemoveListed DEF ThreadChecks, ThreadChecksBusy, Start, counters
  <1>5. CASE \E locked \in BOOLEAN : ManageActivates(locked) \/ ManageWaits(locked)
    BY <1>5, ManageListed
  <1>6. CASE SendMasternodePing
    BY <1>6, SendMasternodePingListed
  <1>7. CASE StopPinging
    BY <1>0, <1>7, OtherListed DEF StopPinging, lists, counters
  <1>8. ASSUME NEW n \in Node, Outage(n, "down") \/ Outage(n, "suspended") \/ Resume(n)
        PROVE  OnlySent' /\ NewestListed'
    BY <1>0, <1>8, OtherListed DEF Outage, Resume, lists, counters
  <1>9. CASE Tick
    <2>1. now' \in Nat /\ now <= now'
      BY <1>0, <1>9 DEF Tick
    <2> QED BY <1>9, <2>1, OtherListed DEF Tick, lists, counters
  <1>10. CASE UNCHANGED vars
    BY <1>0, <1>10, OtherListed DEF vars, lists, counters
  <1> QED BY <1>1, <1>2, <1>3, <1>4, <1>5, <1>6, <1>7, <1>8, <1>9, <1>10 DEF Next

\* The newest broadcast of a patient owner is never lost: a node that ignores
\* it as already seen (mapSeenMasternodeBroadcast) lists the masternode, or got
\* the broadcast with a ping that was too old; a busy cs_main in
\* CheckInputsAndAdd, removals and restarts do not shut it out.
THEOREM NewestCanBeAdded == Spec => []NewestNotShutOut
  <1>1. Init => OnlySent /\ NewestListed
    BY DEF Init, OnlySent, NewestListed, Newest
  <1>2. IndInv /\ OnlySent /\ NewestListed /\ [Next]_vars => OnlySent' /\ NewestListed'
    BY NextListed
  <1>3. NewestListed => NewestNotShutOut
    BY DEF NewestListed, NewestNotShutOut, Listed
  <1> QED BY <1>1, <1>2, <1>3, Invariance, PTL DEF Spec
=============================================================================
