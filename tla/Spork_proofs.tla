---------------------------- MODULE Spork_proofs ----------------------------
(***************************************************************************)
(* Invariance proofs for the spork manager, for any number of nodes,       *)
(* signers, sporks and values, any clock skew and any number of restarts.  *)
(***************************************************************************)
EXTENDS Spork, TLAPS

Inv == TypeOK /\ HandlerInv

\* The initial state satisfies the invariant.
LEMMA InitInv == Init => Inv
  BY SporkAssumption DEF Init, Inv, TypeOK, HandlerInv

\* A spork found in a packet is a well-formed message.
LEMMA ContentType ==
  ASSUME TypeOK, NEW p \in net, NEW m \in Content(p)
  PROVE  m \in Msg
  BY DEF TypeOK, Content

\* What a node announces is well formed.
LEMMA RelayType ==
  ASSUME NEW n \in Node, NEW m \in Msg
  PROVE  Relay(n, m) \subseteq
           [from : Node, to : Node, via : {"inv"}, what : SporkId \X Value \X Nat]
  BY DEF Relay, Hash, Msg

\* mapSporks[hash] = m keeps mapSporks a set of messages on every node.
LEMMA StoreType ==
  ASSUME TypeOK, NEW n \in Node, NEW m \in Msg, Store(n, m)
  PROVE  mapSporks' \in [Node -> SUBSET Msg]
  BY DEF TypeOK, Store

\* Signing and relaying a new spork (UpdateSpork up to Relay).
LEMMA UpdateSporkRelayInv ==
  ASSUME Inv, NEW n \in Node, NEW s \in SporkId, NEW v \in Value,
         UpdateSporkRelay(n, s, v)
  PROVE  Inv'
<1> DEFINE m == [id |-> s, value |-> v, time |-> Clock(n),
                 ver |-> IF era = "old" THEN "str" ELSE "hash"]
<1>1. m \in Msg
  BY SporkAssumption DEF Inv, TypeOK, Msg, Clock
<1>2. /\ n \in Signer
      /\ rpc' = [rpc EXCEPT ![n] = m]
      /\ net' = net \cup Relay(n, m)
      /\ signed' = signed \cup {m}
      /\ UNCHANGED <<now, era, active, mapSporks, db, hpc, hmsg, syncing, lost,
                     restarts>>
  BY DEF UpdateSporkRelay
<1> HIDE DEF m
<1>3. TypeOK'
  BY <1>1, <1>2, RelayType DEF Inv, TypeOK
<1>4. HandlerInv'
  BY <1>2 DEF Inv, TypeOK, HandlerInv, NotNewer
<1> QED
  BY <1>3, <1>4 DEF Inv

\* Storing it in memory and in the database (the rest of UpdateSpork).
LEMMA UpdateSporkStoreInv ==
  ASSUME Inv, NEW n \in Node, UpdateSporkStore(n)
  PROVE  Inv'
<1>1. rpc[n] \in Msg /\ n \in Signer
  BY DEF Inv, TypeOK, HandlerInv, UpdateSporkStore
<1>2. rpc[n].id \in SporkId
  BY <1>1 DEF Msg
<1>3. Store(n, rpc[n])
  BY DEF UpdateSporkStore
<1>4. mapSporks' \in [Node -> SUBSET Msg]
  BY <1>1, <1>3, StoreType DEF Inv
<1>5. TypeOK'
  BY <1>1, <1>2, <1>4 DEF Inv, TypeOK, UpdateSporkStore, Save
<1>6. HandlerInv'
  BY <1>1, <1>2 DEF Inv, TypeOK, HandlerInv, UpdateSporkStore, Save, NotNewer
<1> QED
  BY <1>5, <1>6 DEF Inv

\* The first critical section of ProcessSpork.
LEMMA ReceiveSporkInv ==
  ASSUME Inv, NEW n \in Node, NEW p \in net, NEW m \in Content(p),
         ReceiveSpork(n, p, m)
  PROVE  Inv'
<1>1. m \in Msg
  BY ContentType DEF Inv
<1>2. lost' \subseteq SporkId
  BY <1>1 DEF Inv, TypeOK, ReceiveSpork, Msg
<1>3. CASE Fresh(n, m)
  <2>1. TypeOK'
    BY <1>1, <1>2, <1>3 DEF Inv, TypeOK, ReceiveSpork
  <2>2. ~ NotNewer(n, m)
    BY <1>3 DEF Fresh
  <2>3. /\ hpc' = [hpc EXCEPT ![n] = "checked"]
        /\ hmsg' = [hmsg EXCEPT ![n] = m]
        /\ hpc[n] = "idle"
        /\ UNCHANGED <<active, db, rpc>>
    BY <1>3 DEF ReceiveSpork
  <2>4. HandlerInv'
    BY <1>1, <2>2, <2>3 DEF Inv, TypeOK, HandlerInv, NotNewer
  <2> QED
    BY <2>1, <2>4 DEF Inv
<1>4. CASE ~ Fresh(n, m)
  <2>1. TypeOK'
    BY <1>2, <1>4 DEF Inv, TypeOK, ReceiveSpork
  <2>2. HandlerInv'
    BY <1>4 DEF Inv, TypeOK, HandlerInv, ReceiveSpork, NotNewer
  <2> QED
    BY <2>1, <2>2 DEF Inv
<1> QED
  BY <1>3, <1>4

\* The second critical section of ProcessSpork.
LEMMA StoreSporkInv ==
  ASSUME Inv, NEW n \in Node, StoreSpork(n)
  PROVE  Inv'
<1>1. hmsg[n] \in Msg
  BY DEF Inv, HandlerInv, StoreSpork
<1>2. hmsg[n].id \in SporkId
  BY <1>1 DEF Msg
<1>3. mapSporks' \in [Node -> SUBSET Msg]
  BY <1>1, StoreType DEF Inv, StoreSpork
<1>4. TypeOK'
  BY <1>1, <1>2, <1>3, RelayType DEF Inv, TypeOK, StoreSpork
<1>5. HandlerInv'
  BY <1>1, <1>2 DEF Inv, TypeOK, HandlerInv, StoreSpork, NotNewer
<1> QED
  BY <1>4, <1>5 DEF Inv

\* The handler's write to the database.
LEMMA WriteSporkInv ==
  ASSUME Inv, NEW n \in Node, WriteSpork(n)
  PROVE  Inv'
<1>1. hmsg[n] \in Msg
  BY DEF Inv, HandlerInv, WriteSpork
<1>2. hmsg[n].id \in SporkId
  BY <1>1 DEF Msg
<1>3. TypeOK'
  BY <1>1, <1>2 DEF Inv, TypeOK, WriteSpork, Save
<1>4. HandlerInv'
  BY <1>1, <1>2 DEF Inv, TypeOK, HandlerInv, WriteSpork, Save, NotNewer
<1> QED
  BY <1>3, <1>4 DEF Inv

\* A restart at any point of either thread.
LEMMA RestartInv ==
  ASSUME Inv, NEW n \in Node, Restart(n)
  PROVE  Inv'
<1>1. \A p \in net : Subject(p) \in SporkId
  BY DEF Inv, TypeOK, Subject, Msg
<1>2. lost' \subseteq SporkId
  BY <1>1 DEF Inv, TypeOK, Restart
<1>3. restarts' \in 0..MaxRestart
  BY SporkAssumption DEF Inv, TypeOK, Restart
<1>4. mapSporks' \in [Node -> SUBSET Msg]
  BY DEF Inv, TypeOK, Restart
<1>5. TypeOK'
  BY <1>2, <1>3, <1>4 DEF Inv, TypeOK, Restart
<1>6. HandlerInv'
  BY DEF Inv, TypeOK, HandlerInv, Restart, NotNewer
<1> QED
  BY <1>5, <1>6 DEF Inv

\* The steps that touch no spork in memory: time, the chain, announcements
\* that are ignored, and answers to getsporks.
LEMMA OtherInv ==
  ASSUME Inv,
         \/ Tick
         \/ AdvanceEra
         \/ \E n \in Node, p \in net : IgnoreInv(n, p)
         \/ \E n, p \in Node : GetSporks(n, p)
  PROVE  Inv'
<1>1. UNCHANGED <<active, db, hpc, hmsg, rpc>>
  BY DEF Tick, AdvanceEra, IgnoreInv, GetSporks
<1>2. HandlerInv'
  BY <1>1 DEF Inv, HandlerInv, NotNewer
<1>3. CASE Tick
  BY <1>2, <1>3, SporkAssumption DEF Inv, TypeOK, Tick
<1>4. CASE AdvanceEra
  BY <1>2, <1>4 DEF Inv, TypeOK, AdvanceEra
<1>5. ASSUME NEW n \in Node, NEW p \in net, IgnoreInv(n, p) PROVE Inv'
  <2>1. p.what[1] \in SporkId
    BY <1>5 DEF Inv, TypeOK, IgnoreInv
  <2> QED
    BY <1>2, <1>5, <2>1 DEF Inv, TypeOK, IgnoreInv
<1>6. ASSUME NEW n \in Node, NEW p \in Node, GetSporks(n, p) PROVE Inv'
  BY <1>2, <1>6 DEF Inv, TypeOK, GetSporks
<1> QED
  BY <1>3, <1>4, <1>5, <1>6

\* Every step preserves the invariant.
LEMMA StepInv == Inv /\ [Next]_vars => Inv'
<1> SUFFICES ASSUME Inv, [Next]_vars PROVE Inv'
  OBVIOUS
<1>1. CASE UNCHANGED vars
  BY <1>1 DEF Inv, TypeOK, HandlerInv, NotNewer, vars
<1>2. CASE Next
  BY <1>2, OtherInv, UpdateSporkRelayInv, UpdateSporkStoreInv, ReceiveSporkInv,
     StoreSporkInv, WriteSporkInv, RestartInv
     DEF Next, Deliver, Handler
<1> QED
  BY <1>1, <1>2

\* The variables keep their types (all of spork.cpp's state).
THEOREM TypeCorrect == Spec => []TypeOK
<1>1. Inv => TypeOK
  BY DEF Inv
<1> QED
  BY InitInv, StepInv, <1>1, PTL DEF Spec

\* On a node without the spork key, memory and spork database agree whenever
\* the message handler is idle: a restart there loses nothing.
THEOREM DatabaseFollowsMemory == Spec => []MemoryMatchesDB
<1>1. Inv => MemoryMatchesDB
  BY DEF Inv, HandlerInv, MemoryMatchesDB
<1> QED
  BY InitInv, StepInv, <1>1, PTL DEF Spec

\* On such a node no step but a restart replaces a spork by one that was not
\* signed later, although the test and the store are separate critical
\* sections.
THEOREM SporksNeverGetOlder == Spec => NeverOlder
<1> DEFINE A == \A n \in Node \ Signer, s \in SporkId :
                  active'[n][s] # active[n][s] /\ active[n][s] # None
                    => \/ restarts' # restarts
                       \/ active'[n][s].time > active[n][s].time
<1>1. ASSUME Inv, Next PROVE A
  <2>1. ASSUME NEW n \in Node, UpdateSporkStore(n) PROVE A
    <3>1. n \in Signer
      BY <1>1, <2>1 DEF Inv, HandlerInv, UpdateSporkStore
    <3> QED
      BY <1>1, <2>1, <3>1 DEF Inv, TypeOK, UpdateSporkStore
  <2>2. ASSUME NEW n \in Node, StoreSpork(n) PROVE A
    <3>1. hmsg[n] \in Msg /\ hmsg[n].id \in SporkId /\ hmsg[n].time \in Nat
      BY <1>1, <2>2 DEF Inv, HandlerInv, StoreSpork, Msg
    <3>2. SUFFICES ASSUME NEW k \in Node \ Signer, NEW s \in SporkId,
                          active'[k][s] # active[k][s], active[k][s] # None
                   PROVE  active'[k][s].time > active[k][s].time
      OBVIOUS
    <3>3. k = n /\ s = hmsg[n].id /\ active'[k][s] = hmsg[n]
      BY <1>1, <2>2, <3>1, <3>2 DEF Inv, TypeOK, StoreSpork
    <3>4. ~ NotNewer(n, hmsg[n])
      BY <1>1, <2>2, <3>2, <3>3 DEF Inv, HandlerInv, StoreSpork
    <3>5. active[n][s] \in Msg
      BY <1>1, <3>2, <3>3 DEF Inv, TypeOK
    <3>6. active[n][s].time \in Nat
      BY <3>5 DEF Msg
    <3> QED
      BY <3>1, <3>2, <3>3, <3>4, <3>6 DEF NotNewer
  <2>3. ASSUME NEW n \in Node, Restart(n) PROVE A
    BY <1>1, <2>3 DEF Inv, TypeOK, Restart
  <2>4. ASSUME active' = active PROVE A
    BY <2>4
  <2> QED
    BY <1>1, <2>1, <2>2, <2>3, <2>4
       DEF Next, Deliver, Handler, Tick, AdvanceEra, UpdateSporkRelay, IgnoreInv,
           ReceiveSpork, WriteSpork, GetSporks
<1>2. Inv /\ [Next]_vars => [A]_vars
  BY <1>1
<1> QED
  BY InitInv, StepInv, <1>2, PTL DEF Spec, NeverOlder
=============================================================================
