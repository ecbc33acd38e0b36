------------------------------- MODULE Spork -------------------------------
(***************************************************************************)
(* The spork manager (src/src/spork.cpp): network parameters signed by the *)
(* holders of the spork key and gossiped to every node.                    *)
(*                                                                         *)
(* Every node runs two threads that touch the manager: the message handler *)
(* (ProcessSpork) and an RPC thread (UpdateSpork).  CSporkManager::cs is   *)
(* released between the freshness test and the store, and it is not held   *)
(* when the handler writes the spork database, so both are several steps   *)
(* here.  Memory is volatile, the database (sporkdb.cpp) survives Restart. *)
(***************************************************************************)
EXTENDS Naturals, FiniteSets

CONSTANTS
  Node,        \* the nodes of the network
  Signer,      \* the nodes started with -sporkkey
  SporkId,     \* spork identifiers
  Value,       \* spork values
  Default,     \* sporkDefs: the value used when no spork message is known
  Skew,        \* [Node -> Nat]: how far a node's clock is ahead
  MaxFuture,   \* the "2 * 60 * 60" of ProcessSpork
  MaxTime,     \* bound: the clock stops here
  MaxSigned,   \* bound: number of different sporks ever signed
  MaxRestart,  \* bound: number of restarts of all nodes together
  None         \* "no such entry"

ASSUME SporkAssumption ==
  /\ Signer \subseteq Node
  /\ Default \in [SporkId -> Value]
  /\ Skew \in [Node -> Nat]
  /\ MaxFuture \in Nat /\ MaxTime \in Nat
  /\ MaxSigned \in Nat /\ MaxRestart \in Nat

\* A CSporkMessage: nSporkID, nValue, nTimeSigned and nMessVersion ("str" is
\* MESS_VER_STRMESS, "hash" is MESS_VER_HASH).
Msg == [id : SporkId, value : Value, time : Nat, ver : {"str", "hash"}]

ASSUME NoneAssumption == None \notin Msg

VARIABLES
  now,      \* the true time; node n reads now + Skew[n]
  era,      \* "old": before the message-signature fork; "new": after it;
            \* "enforced": 600 blocks later, old signatures are refused
  active,   \* mapSporksActive of every node
  mapSporks,\* every spork a node has stored, one per hash: what AlreadyHave
            \* looks up and what getdata is served from
  db,       \* the spork database of every node
  hpc,      \* where the message handler is in ProcessSpork
  hmsg,     \* the spork it is working on
  rpc,      \* the spork UpdateSpork has relayed and not yet stored
  net,      \* under way: hashes announced by inv, sporks pushed by getsporks
  syncing,  \* nodes that still ask their peers with getsporks
  signed,   \* history: every spork ever signed
  lost,     \* history: sporks of which a message was not delivered, or
            \* refused as too far in the future
  restarts  \* number of restarts so far

vars == <<now, era, active, mapSporks, db, hpc, hmsg, rpc, net, syncing, signed,
          lost, restarts>>

----------------------------------------------------------------------------
Clock(n) == now + Skew[n]

\* (Mutants of a definition stand right before it.)
\* GetHash covers id, value and time, not the signature or its version.
HashNoTime(m) == <<m.id, m.value>>
Hash(m) == <<m.id, m.value, m.time>>

\* Relay: every peer hears of the spork and fetches it if it does not have it.
Relay(n, m) ==
  {[from |-> n, to |-> p, via |-> "inv", what |-> Hash(m)] : p \in Node \ {n}}

\* mapSporks[m.GetHash()] = m
Store(n, m) ==
  mapSporks' = [mapSporks EXCEPT
                  ![n] = {x \in @ : Hash(x) # Hash(m)} \cup {m}]

\* CSporkDB::WriteSpork: the value of the database after it.
SaveOnce(n, m) == [db EXCEPT ![n][m.id] = IF @ = None THEN m ELSE @]
Save(n, m) == [db EXCEPT ![n][m.id] = m]

\* The sporks that a getdata for the announced hash, or the push itself, brings.
Content(p) ==
  IF p.via = "push" THEN {p.what}
                    ELSE {m \in mapSporks[p.from] : Hash(m) = p.what}

AlreadyHaveId(n, h) == \E m \in mapSporks[n] : m.id = h[1]
AlreadyHave(n, h) == \E m \in mapSporks[n] : Hash(m) = h

\* GetSporkValue: the value in memory, or the default of sporkDefs.
GetSporkValue(n, s) ==
  IF active[n][s] = None THEN Default[s] ELSE active[n][s].value

\* The tests of ProcessSpork that drop a message before its signature is
\* checked: signed too far in the future, signed in a format that is refused
\* by now, or not newer than the spork in memory.
TooFarInFuture(n, m) == m.time > Clock(n) + MaxFuture
OldSignature(m) == m.ver = "str" /\ era = "enforced"
NotNewerStrict(n, m) == active[n][m.id] # None /\ active[n][m.id].time > m.time
NotNewer(n, m) == active[n][m.id] # None /\ active[n][m.id].time >= m.time

Fresh(n, m) ==
  /\ ~ TooFarInFuture(n, m)
  /\ ~ OldSignature(m)
  /\ ~ NotNewer(n, m)

----------------------------------------------------------------------------
Init ==
  /\ now = 0
  /\ era = "old"
  /\ active = [n \in Node |-> [s \in SporkId |-> None]]
  /\ mapSporks = [n \in Node |-> {}]
  /\ db = [n \in Node |-> [s \in SporkId |-> None]]
  /\ hpc = [n \in Node |-> "idle"]
  /\ hmsg = [n \in Node |-> None]
  /\ rpc = [n \in Node |-> None]
  /\ net = {}
  /\ syncing = {}
  /\ signed = {}
  /\ lost = {}
  /\ restarts = 0

Tick ==
  /\ now < MaxTime
  /\ now' = now + 1
  /\ UNCHANGED <<era, active, mapSporks, db, hpc, hmsg, rpc, net, syncing,
                 signed, lost, restarts>>

\* The chain passes the fork height, and then 600 more blocks.
AdvanceEra ==
  /\ era # "enforced"
  /\ era' = IF era = "old" THEN "new" ELSE "enforced"
  /\ UNCHANGED <<now, active, mapSporks, db, hpc, hmsg, rpc, net, syncing,
                 signed, lost, restarts>>

\* UpdateSpork, first half: sign a message at the node's own time and relay it.
UpdateSporkRelay(n, s, v) ==
  LET m == [id |-> s, value |-> v, time |-> Clock(n),
            ver |-> IF era = "old" THEN "str" ELSE "hash"]
  IN  /\ n \in Signer
      /\ rpc[n] = None
      /\ Cardinality(signed \cup {m}) <= MaxSigned
      /\ rpc' = [rpc EXCEPT ![n] = m]
      /\ net' = net \cup Relay(n, m)
      /\ signed' = signed \cup {m}
      /\ UNCHANGED <<now, era, active, mapSporks, db, hpc, hmsg, syncing, lost,
                     restarts>>

\* UpdateSpork, second half, under cs: memory and database, whatever is there.
UpdateSporkStore(n) ==
  LET m == rpc[n]
  IN  /\ m # None
      /\ active' = [active EXCEPT ![n][m.id] = m]
      /\ Store(n, m)
      /\ db' = Save(n, m)
      /\ rpc' = [rpc EXCEPT ![n] = None]
      /\ UNCHANGED <<now, era, hpc, hmsg, net, syncing, signed, lost, restarts>>

\* An announced spork that n has already is not asked for.  One that the
\* announcing node does not have (yet) is answered with "notfound".
IgnoreInv(n, p) ==
  /\ p \in net /\ p.to = n /\ p.via = "inv"
  /\ AlreadyHave(n, p.what) \/ Content(p) = {}
  /\ net' = net \ {p}
  /\ lost' = IF AlreadyHave(n, p.what) THEN lost ELSE lost \cup {p.what[1]}
  /\ UNCHANGED <<now, era, active, mapSporks, db, hpc, hmsg, rpc, syncing,
                 signed, restarts>>

\* ProcessSpork up to the release of cs: the message is dropped, or its
\* signature is checked next.
ReceiveSpork(n, p, m) ==
  /\ hpc[n] = "idle"
  /\ p \in net /\ p.to = n
  /\ p.via = "inv" => ~ AlreadyHave(n, p.what)
  /\ net' = net \ {p}
  /\ IF Fresh(n, m)
       THEN /\ hpc' = [hpc EXCEPT ![n] = "checked"]
            /\ hmsg' = [hmsg EXCEPT ![n] = m]
       ELSE UNCHANGED <<hpc, hmsg>>
  /\ lost' = IF TooFarInFuture(n, m) THEN lost \cup {m.id} ELSE lost
  /\ UNCHANGED <<now, era, active, mapSporks, db, rpc, syncing, signed, restarts>>

\* ProcessSpork, second critical section: store in memory, then relay.
StoreSpork(n) ==
  LET m == hmsg[n]
  IN  /\ hpc[n] = "checked"
      /\ active' = [active EXCEPT ![n][m.id] = m]
      /\ Store(n, m)
      /\ net' = net \cup Relay(n, m)
      /\ hpc' = [hpc EXCEPT ![n] = "stored"]
      /\ UNCHANGED <<now, era, db, hmsg, rpc, syncing, signed, lost, restarts>>

\* ProcessSpork, last line: the database write, outside cs.
WriteSpork(n) ==
  LET m == hmsg[n]
  IN  /\ hpc[n] = "stored"
      /\ db' = Save(n, m)
      /\ hpc' = [hpc EXCEPT ![n] = "idle"]
      /\ hmsg' = [hmsg EXCEPT ![n] = None]
      /\ UNCHANGED <<now, era, active, mapSporks, rpc, net, syncing, signed, lost,
                     restarts>>

\* A restarted node asks p with getsporks, and p pushes what it has active.
GetSporks(n, p) ==
  /\ n \in syncing /\ p # n
  /\ hpc[p] = "idle"
  /\ net' = net \cup {[from |-> p, to |-> n, via |-> "push",
                       what |-> active[p][s]] :
                        s \in {t \in SporkId : active[p][t] # None}}
  /\ syncing' = syncing \ {n}
  /\ UNCHANGED <<now, era, active, mapSporks, db, hpc, hmsg, rpc, signed, lost,
                 restarts>>

\* The sporks a packet of the network is about.
Subject(p) == IF p.via = "push" THEN p.what.id ELSE p.what[1]

\* The node stops at any point, which closes its connections, and starts
\* again with LoadSporksFromDB.
Restart(n) ==
  LET cut == {p \in net : n \in {p.from, p.to}}
  IN  /\ restarts < MaxRestart
      /\ restarts' = restarts + 1
      /\ active' = [active EXCEPT ![n] = db[n]]
      /\ mapSporks' = [mapSporks EXCEPT ![n] = {db[n][s] : s \in SporkId} \ {None}]
      /\ hpc' = [hpc EXCEPT ![n] = "idle"]
      /\ hmsg' = [hmsg EXCEPT ![n] = None]
      /\ rpc' = [rpc EXCEPT ![n] = None]
      /\ net' = net \ cut
      /\ lost' = lost \cup {Subject(p) : p \in cut}
      /\ syncing' = syncing \cup {n}
      /\ UNCHANGED <<now, era, db, signed>>

Deliver(n) ==
  \E p \in net :
    \/ IgnoreInv(n, p)
    \/ \E m \in Content(p) : ReceiveSpork(n, p, m)

Handler(n) == StoreSpork(n) \/ WriteSpork(n)

Next ==
  \/ Tick
  \/ AdvanceEra
  \/ \E n \in Node :
       \/ \E s \in SporkId, v \in Value : UpdateSporkRelay(n, s, v)
       \/ UpdateSporkStore(n)
       \/ Deliver(n)
       \/ Handler(n)
       \/ \E p \in Node : GetSporks(n, p)
       \/ Restart(n)

Spec == Init /\ [][Next]_vars

\* TCP delivers what is sent between running nodes, the two threads of a node
\* keep running, and a restarted node goes through its sync.  The signer's
\* RPC calls, the clock, the chain and restarts are not fair.
Fairness ==
  \A n \in Node :
    /\ WF_vars(Deliver(n))
    /\ WF_vars(Handler(n))
    /\ WF_vars(UpdateSporkStore(n))
    /\ WF_vars(\E p \in Node : GetSporks(n, p))

FairSpec == Spec /\ Fairness

----------------------------------------------------------------------------
TypeOK ==
  /\ now \in 0..MaxTime
  /\ era \in {"old", "new", "enforced"}
  /\ active \in [Node -> [SporkId -> Msg \cup {None}]]
  /\ mapSporks \in [Node -> SUBSET Msg]
  /\ db \in [Node -> [SporkId -> Msg \cup {None}]]
  /\ hpc \in [Node -> {"idle", "checked", "stored"}]
  /\ hmsg \in [Node -> Msg \cup {None}]
  /\ rpc \in [Node -> Msg \cup {None}]
  /\ net \subseteq
       [from : Node, to : Node, via : {"inv"}, what : SporkId \X Value \X Nat]
         \cup [from : Node, to : Node, via : {"push"}, what : Msg]
  /\ syncing \subseteq Node
  /\ signed \subseteq Msg
  /\ lost \subseteq SporkId
  /\ restarts \in 0..MaxRestart

\* A node without the spork key has in its database what it has in memory
\* whenever its message handler is between two messages, so that a clean
\* restart there brings back the values in force (LoadSporksFromDB).
MemoryMatchesDB ==
  \A n \in Node \ Signer : hpc[n] = "idle" => active[n] = db[n]

\* The inductive form: on a node without the key only the handler writes, so a
\* spork that passed the freshness test is still newer when it is stored, and
\* until the handler's last line the database lags behind by exactly that spork.
HandlerInv ==
  /\ \A n \in Node : hpc[n] # "idle" => hmsg[n] \in Msg
  /\ \A n \in Node \ Signer :
       /\ rpc[n] = None
       /\ hpc[n] # "stored" => active[n] = db[n]
       /\ hpc[n] = "checked" => ~ NotNewer(n, hmsg[n])
       /\ hpc[n] = "stored" =>
            active[n] = [db[n] EXCEPT ![hmsg[n].id] = hmsg[n]]

\* The same of every node, those with the spork key included: "on startup load
\* spork values from previous session" (spork.cpp:46).
SignerMemoryMatchesDB ==
  \A n \in Node : hpc[n] = "idle" /\ rpc[n] = None => active[n] = db[n]

\* On a node without the spork key no step replaces the spork in force by one
\* signed at the same time or earlier, although ProcessSpork tests this in one
\* critical section and stores in another; only a restart may go back.
NeverOlder ==
  [][\A n \in Node \ Signer, s \in SporkId :
       active'[n][s] # active[n][s] /\ active[n][s] # None
         => \/ restarts' # restarts
            \/ active'[n][s].time > active[n][s].time]_vars

AgreeOn(s) == \A n, p \in Node : GetSporkValue(n, s) = GetSporkValue(p, s)

\* Two sporks signed within one second with different values.
Tie(s) ==
  \E m1, m2 \in signed :
    m1.id = s /\ m2.id = s /\ m1.time = m2.time /\ m1.value # m2.value

\* A spork signed in the old format is still around when nodes refuse it.
Stranded(s) == era = "enforced" /\ \E m \in signed : m.id = s /\ m.ver = "str"

\* With one signer, the nodes end up with the same value for a spork, unless a
\* message about it got lost or was refused as too far in the future, the
\* signer signed two values in one second, or the old signature format ran out
\* before it had reached everyone.
Convergence ==
  <>[](\A s \in SporkId : s \in lost \/ Tie(s) \/ Stranded(s) \/ AgreeOn(s))
=============================================================================
