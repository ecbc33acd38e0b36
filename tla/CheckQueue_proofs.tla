-------------------------- MODULE CheckQueue_proofs --------------------------
(***************************************************************************)
(* Proofs about CheckQueue, for every number of workers, batch size and    *)
(* number of checks.                                                       *)
(*                                                                         *)
(* The argument: nTodo is the number of checks in the queue plus those the *)
(* threads took and have not accounted for (TodoExact), so that nTodo = 0  *)
(* means that no thread holds a batch; nTotal and nIdle count the threads  *)
(* in Loop and in cond.wait, an interrupted one forever (LoopCounted); and *)
(* a failing check that was added leaves its mark somewhere, in the queue, *)
(* in a batch, in a thread's result or in fAllOk, until Wait returns       *)
(* (FailureKept).                                                          *)
(*                                                                         *)
(* The sum over the threads' batches is the cardinality of a set of pairs, *)
(* since a recursive sum is out of the provers' reach.                     *)
(***************************************************************************)
EXTENDS CheckQueue, FiniteSetTheorems, SequenceTheorems, TLAPS

Busy == {"working", "done"}
InWait == {"waiting", "woken", "gone"}

\* The checks that threads took and did not subtract from nTodo yet, as pairs
\* of a thread and a number.
TakenBy(p, n) == {x \in Thread \X (1 .. nBatchSize) : p[x[1]] \in Busy /\ x[2] <= n[x[1]]}
Taken == TakenBy(pc, nNow)

TodoExact ==
    /\ nTodo = Len(queue) + Cardinality(Taken)
    /\ nTodo <= added
    /\ \A t \in Thread : pc[t] \in Busy => nNow[t] >= 1

\* How many threads are at one of the places S.
CountAt(p, S) == Cardinality({t \in Thread : p[t] \in S})

LoopCounted ==
    /\ nIdle = CountAt(pc, InWait)
    /\ nTotal = CountAt(pc, InWait \cup Busy)

NoBatchLeft == \A t \in Thread : pc[t] # "working" => vChecks[t] = <<>>

\* Between two controls nothing is queued and no result is left behind.
Quiet == pc[Master] = "outside" => queue = <<>> /\ nTodo = 0 /\ fAllOk

Untainted ==
    /\ fAllOk
    /\ All(queue)
    /\ \A t \in Thread : pc[t] \in Busy => fOk[t] /\ All(vChecks[t])

FailureKept == pc[Master] # "outside" => (bad <=> ~Untainted)

IndInv ==
    /\ TypeOK
    /\ TodoExact
    /\ LoopCounted
    /\ NoBatchLeft
    /\ Quiet
    /\ FailureKept
    /\ VerdictExact

-----------------------------------------------------------------------------
(* Counting.                                                               *)

LEMMA ThreadFinite == IsFiniteSet(Thread) /\ Master \in Thread
  BY CheckQueueAssumption, FS_Union, FS_Singleton DEF Thread

LEMMA CountType ==
    ASSUME NEW p, NEW S
    PROVE  CountAt(p, S) \in 0 .. Cardinality(Thread)
  <1>1. {t \in Thread : p[t] \in S} \in SUBSET Thread
    OBVIOUS
  <1> QED
    BY <1>1, ThreadFinite, FS_Subset, FS_CardinalityType DEF CountAt

\* One thread moves: it alone changes the count.
LEMMA CountStep ==
    ASSUME NEW p, NEW q, NEW S, NEW t \in Thread,
           \A u \in Thread \ {t} : q[u] \in S <=> p[u] \in S
    PROVE  CountAt(q, S) = CountAt(p, S) + (IF q[t] \in S THEN 1 ELSE 0)
                                         - (IF p[t] \in S THEN 1 ELSE 0)
  <1> DEFINE rest == {u \in Thread : u # t /\ p[u] \in S}
             P == {u \in Thread : p[u] \in S}
             Q == {u \in Thread : q[u] \in S}
  <1>1. IsFiniteSet(rest) /\ Cardinality(rest) \in Nat /\ t \notin rest
    <2>1. rest \in SUBSET Thread
      OBVIOUS
    <2> QED BY <2>1, ThreadFinite, FS_Subset, FS_CardinalityType
  <1>2. P = IF p[t] \in S THEN rest \cup {t} ELSE rest
    OBVIOUS
  <1>3. Q = IF q[t] \in S THEN rest \cup {t} ELSE rest
    OBVIOUS
  <1>4. Cardinality(rest \cup {t}) = Cardinality(rest) + 1
    BY <1>1, FS_AddElement
  <1> HIDE DEF rest, P, Q
  <1>5. Cardinality(Q) = Cardinality(P) + (IF q[t] \in S THEN 1 ELSE 0)
                                        - (IF p[t] \in S THEN 1 ELSE 0)
    BY <1>1, <1>2, <1>3, <1>4
  <1> QED
    BY <1>5 DEF CountAt, P, Q

\* The checks taken are those of thread t and those of the others.
LEMMA TakenSplit ==
    ASSUME NEW p, NEW n \in [Thread -> 0 .. nBatchSize], NEW t \in Thread
    PROVE  LET others == {x \in TakenBy(p, n) : x[1] # t}
           IN  /\ IsFiniteSet(TakenBy(p, n)) /\ Cardinality(TakenBy(p, n)) \in Nat
               /\ Cardinality(others) \in Nat
               /\ Cardinality(TakenBy(p, n))
                    = Cardinality(others) + IF p[t] \in Busy THEN n[t] ELSE 0
  <1> DEFINE all == TakenBy(p, n)
             others == {x \in all : x[1] # t}
             own == {t} \X (1 .. n[t])
  <1>1. IsFiniteSet(all) /\ Cardinality(all) \in Nat
    <2>1. IsFiniteSet(1 .. nBatchSize)
      BY CheckQueueAssumption, FS_Interval
    <2>2. IsFiniteSet(Thread \X (1 .. nBatchSize))
      BY <2>1, ThreadFinite, FS_Product
    <2>3. all \in SUBSET (Thread \X (1 .. nBatchSize))
      BY DEF TakenBy
    <2> QED BY <2>2, <2>3, FS_Subset, FS_CardinalityType
  <1>2. IsFiniteSet(others) /\ Cardinality(others) \in Nat
    <2>1. others \in SUBSET all
      OBVIOUS
    <2> QED BY <1>1, <2>1, FS_Subset, FS_CardinalityType
  <1>3. IsFiniteSet(own) /\ Cardinality(own) = n[t]
    <2>1. n[t] \in Nat
      BY CheckQueueAssumption
    <2>2. IsFiniteSet(1 .. n[t]) /\ Cardinality(1 .. n[t]) = n[t]
      BY <2>1, FS_Interval
    <2>3. IsFiniteSet({t}) /\ Cardinality({t}) = 1
      BY FS_Singleton
    <2>4. /\ IsFiniteSet(own)
          /\ Cardinality(own) = Cardinality({t}) * Cardinality(1 .. n[t])
      BY <2>2, <2>3, FS_Product
    <2> QED BY <2>1, <2>2, <2>3, <2>4
  <1>4. CASE p[t] \in Busy
    <2>1. all = others \cup own
      <3>1. ASSUME NEW x \in all PROVE x \in others \cup own
        <4>1. CASE x[1] # t
          BY <4>1
        <4>2. CASE x[1] = t
          <5>1. x \in Thread \X (1 .. nBatchSize) /\ x[2] <= n[x[1]]
            BY DEF TakenBy
          <5>2. x = <<x[1], x[2]>> /\ x[2] \in 1 .. n[t]
            BY <4>2, <5>1, CheckQueueAssumption
          <5> QED BY <4>2, <5>2
        <4> QED BY <4>1, <4>2
      <3>2. ASSUME NEW x \in own PROVE x \in all
        <4>1. x[1] = t /\ x[2] \in 1 .. n[t] /\ x = <<x[1], x[2]>>
          OBVIOUS
        <4>2. x \in Thread \X (1 .. nBatchSize)
          BY <4>1, CheckQueueAssumption
        <4>3. x[2] <= n[x[1]] /\ p[x[1]] \in Busy
          BY <1>4, <4>1, CheckQueueAssumption
        <4> QED BY <4>2, <4>3 DEF TakenBy
      <3> QED BY <3>1, <3>2
    <2>2. others \cap own = {}
      OBVIOUS
    <2> HIDE DEF all, others, own
    <2>3. Cardinality(all) = Cardinality(others) + Cardinality(own) - Cardinality({})
      BY <1>2, <1>3, <2>1, <2>2, FS_Union
    <2>4. n[t] \in Nat
      BY CheckQueueAssumption
    <2>5. Cardinality(all) = Cardinality(others) + n[t]
      BY <1>2, <1>3, <2>3, <2>4, FS_EmptySet
    <2> QED BY <1>1, <1>2, <1>4, <2>5 DEF all, others
  <1>5. CASE p[t] \notin Busy
    <2>1. all = others
      BY <1>5 DEF TakenBy
    <2>2. Cardinality(all) = Cardinality(others) + 0
      BY <1>2, <2>1
    <2> HIDE DEF all, others
    <2> QED BY <1>1, <1>2, <1>5, <2>2 DEF all, others
  <1> QED BY <1>4, <1>5

\* A step of t alone changes what t took.
LEMMA TakenStep ==
    ASSUME NEW p, NEW n \in [Thread -> 0 .. nBatchSize],
           NEW q, NEW m \in [Thread -> 0 .. nBatchSize], NEW t \in Thread,
           \A u \in Thread \ {t} : m[u] = n[u] /\ (q[u] \in Busy <=> p[u] \in Busy)
    PROVE  /\ Cardinality(TakenBy(p, n)) \in Nat
           /\ Cardinality(TakenBy(q, m)) \in Nat
           /\ Cardinality(TakenBy(q, m))
                = Cardinality(TakenBy(p, n)) + (IF q[t] \in Busy THEN m[t] ELSE 0)
                                             - (IF p[t] \in Busy THEN n[t] ELSE 0)
           /\ p[t] \in Busy => n[t] <= Cardinality(TakenBy(p, n))
  <1> DEFINE rest == {x \in TakenBy(p, n) : x[1] # t}
  <1>1. {x \in TakenBy(q, m) : x[1] # t} = rest
    BY DEF TakenBy
  <1>2. /\ Cardinality(TakenBy(p, n)) \in Nat
        /\ Cardinality(rest) \in Nat
        /\ Cardinality(TakenBy(p, n)) = Cardinality(rest) + IF p[t] \in Busy THEN n[t] ELSE 0
    BY TakenSplit
  <1>3. /\ Cardinality(TakenBy(q, m)) \in Nat
        /\ Cardinality(TakenBy(q, m)) = Cardinality(rest) + IF q[t] \in Busy THEN m[t] ELSE 0
    BY <1>1, TakenSplit
  <1>4. n[t] \in Nat /\ m[t] \in Nat
    BY CheckQueueAssumption
  <1> HIDE DEF rest
  <1> QED BY <1>2, <1>3, <1>4

\* Nothing is taken: no thread is busy.
LEMMA NobodyBusy ==
    ASSUME NEW p, NEW n \in [Thread -> 0 .. nBatchSize],
           \A t \in Thread : p[t] \in Busy => n[t] >= 1,
           Cardinality(TakenBy(p, n)) = 0
    PROVE  \A t \in Thread : p[t] \notin Busy
  <1> SUFFICES ASSUME NEW t \in Thread, p[t] \in Busy PROVE FALSE
    OBVIOUS
  <1>1. n[t] <= Cardinality(TakenBy(p, n))
    BY TakenStep
  <1>2. n[t] >= 1 /\ n[t] \in Nat
    BY CheckQueueAssumption
  <1> QED BY <1>1, <1>2

LEMMA NothingTaken ==
    ASSUME TypeOK, TodoExact, nTodo = 0
    PROVE  queue = <<>> /\ \A t \in Thread : pc[t] \notin Busy
  <1>1. nNow \in [Thread -> 0 .. nBatchSize] /\ queue \in Seq(BOOLEAN)
    BY DEF TypeOK
  <1>2. Len(queue) \in Nat /\ Cardinality(Taken) \in Nat
    <2>1. Cardinality(TakenBy(pc, nNow)) \in Nat
      BY <1>1, ThreadFinite, TakenSplit
    <2> QED BY <1>1, <2>1 DEF Taken
  <1>3. Len(queue) = 0 /\ Cardinality(TakenBy(pc, nNow)) = 0
    BY <1>2 DEF TodoExact, Taken
  <1> QED BY <1>1, <1>3, NobodyBusy DEF TodoExact

-----------------------------------------------------------------------------
(* Batches.                                                                *)

LEMMA BatchesType ==
    ASSUME NEW checks \in Batches
    PROVE  checks \in Seq(BOOLEAN)
  BY CheckQueueAssumption DEF Batches

LEMMA AllConcat ==
    ASSUME NEW s \in Seq(BOOLEAN), NEW c \in Seq(BOOLEAN)
    PROVE  All(s \o c) <=> All(s) /\ All(c)
  <1>1. /\ DOMAIN s = 1 .. Len(s) /\ DOMAIN c = 1 .. Len(c)
        /\ DOMAIN (s \o c) = 1 .. (Len(s) + Len(c))
        /\ Len(s) \in Nat /\ Len(c) \in Nat
    OBVIOUS
  <1>2. \A i \in 1 .. (Len(s) + Len(c)) :
            (s \o c)[i] = IF i <= Len(s) THEN s[i] ELSE c[i - Len(s)]
    OBVIOUS
  <1>3. ASSUME All(s \o c), NEW i \in 1 .. Len(s) PROVE s[i]
    BY <1>1, <1>2, <1>3 DEF All
  <1>4. ASSUME All(s \o c), NEW i \in 1 .. Len(c) PROVE c[i]
    <2>1. Len(s) + i \in 1 .. (Len(s) + Len(c)) /\ ~(Len(s) + i <= Len(s))
      BY <1>1
    <2>2. (s \o c)[Len(s) + i] = c[(Len(s) + i) - Len(s)]
      BY <1>2, <2>1
    <2>3. (Len(s) + i) - Len(s) = i
      BY <1>1
    <2> QED BY <1>1, <1>4, <2>1, <2>2, <2>3 DEF All
  <1>5. ASSUME All(s), All(c), NEW i \in 1 .. (Len(s) + Len(c)) PROVE (s \o c)[i]
    <2>1. CASE i <= Len(s)
      BY <1>1, <1>2, <1>5, <2>1 DEF All
    <2>2. CASE ~(i <= Len(s))
      <3>1. i - Len(s) \in 1 .. Len(c)
        BY <1>1, <2>2
      <3> QED BY <1>1, <1>2, <1>5, <2>2, <3>1 DEF All
    <2> QED BY <2>1, <2>2
  <1> QED BY <1>1, <1>3, <1>4, <1>5 DEF All

\* Taking a batch from the back of the queue: every check stays in the queue
\* or is in the batch.
LEMMA AllSplit ==
    ASSUME NEW q \in Seq(BOOLEAN), NEW k \in 0 .. Len(q)
    PROVE  /\ SubSeq(q, 1, k) \in Seq(BOOLEAN) /\ Len(SubSeq(q, 1, k)) = k
           /\ SubSeq(q, k + 1, Len(q)) \in Seq(BOOLEAN)
           /\ Len(SubSeq(q, k + 1, Len(q))) = Len(q) - k
           /\ All(q) <=> All(SubSeq(q, 1, k)) /\ All(SubSeq(q, k + 1, Len(q)))
  <1> DEFINE a == SubSeq(q, 1, k)
             b == SubSeq(q, k + 1, Len(q))
  <1>1. Len(q) \in Nat /\ k \in Nat /\ k <= Len(q)
    OBVIOUS
  <1>2. a \in Seq(BOOLEAN) /\ Len(a) = k
    BY <1>1
  <1>3. b \in Seq(BOOLEAN) /\ Len(b) = Len(q) - k
    BY <1>1
  <1>4. q = a \o b
    <2>1. /\ 1 \in 1 .. Len(q) + 1 /\ k \in 1 - 1 .. Len(q)
          /\ Len(q) \in k .. Len(q)
      BY <1>1
    <2>2. SubSeq(q, 1, k) \o SubSeq(q, k + 1, Len(q)) = SubSeq(q, 1, Len(q))
      BY <2>1, ConcatAdjacentSubSeq
    <2> QED BY <2>2, SubSeqFull
  <1> HIDE DEF a, b
  <1>5. All(q) <=> All(a) /\ All(b)
    BY <1>2, <1>3, <1>4, AllConcat
  <1> QED BY <1>2, <1>3, <1>5 DEF a, b

LEMMA AllEmpty == All(<<>>)
  BY DEF All

LEMMA DivBound ==
    ASSUME NEW n \in Nat, NEW d \in Nat, d >= 1
    PROVE  n \div d \in Nat /\ n \div d <= n
  <1> DEFINE q == n \div d
             r == n % d
  <1>1. n = d * q + r /\ q \in Int /\ r \in 0 .. d - 1
    OBVIOUS
  <1> HIDE DEF q, r
  <1>2. q >= 0
    BY <1>1
  <1>3. q <= d * q
    BY <1>1, <1>2
  <1> QED BY <1>1, <1>2, <1>3 DEF q

\* A thread takes at least one check, and no more than there are.
LEMMA BatchSize ==
    ASSUME TypeOK, LoopCounted, NEW t \in Thread, queue # <<>>
    PROVE  BatchOf(t) \in 1 .. nBatchSize /\ BatchOf(t) <= Len(queue)
  <1> DEFINE d == TotalAfter(t) + IdleAfter(t) + 1
             share == Len(queue) \div d
  <1>1. Len(queue) \in Nat /\ Len(queue) >= 1 /\ nBatchSize \in Nat /\ nBatchSize >= 1
    BY CheckQueueAssumption DEF TypeOK
  <1>2. d \in Nat /\ d >= 1
    <2>1. nTotal \in Nat /\ nIdle \in Nat
      BY ThreadFinite, FS_CardinalityType DEF TypeOK
    <2>2. pc[t] = "woken" => nIdle >= 1
      <3>1. SUFFICES ASSUME pc[t] = "woken" PROVE nIdle # 0
        BY <2>1
      <3>2. {u \in Thread : pc[u] \in InWait} \in SUBSET Thread
        OBVIOUS
      <3>3. t \in {u \in Thread : pc[u] \in InWait}
        BY <3>1 DEF InWait
      <3> QED BY <3>2, <3>3, ThreadFinite, FS_Subset, FS_EmptySet DEF LoopCounted, CountAt
    <2> QED BY <2>1, <2>2 DEF TotalAfter, IdleAfter
  <1>3. share \in Nat /\ share <= Len(queue)
    BY <1>1, <1>2, DivBound
  <1> HIDE DEF share, d
  <1>4. BatchOf(t) = Most(1, Least(nBatchSize, share))
    BY DEF BatchOf, share, d
  <1> QED BY <1>1, <1>3, <1>4 DEF Most, Least

-----------------------------------------------------------------------------
(* What a critical section of Loop does to the counters.                   *)

LoopEntry == {"enter", "woken", "done"}

\* The other threads stay where they are, but for a master that is notified.
LEMMA PlacedAt ==
    ASSUME TypeOK, NEW t \in Thread, NEW place \in Place
    PROVE  /\ Placed(t, place) \in [Thread -> Place]
           /\ Placed(t, place)[t] = place
           /\ \A u \in Thread \ {t} :
                 \/ Placed(t, place)[u] = pc[u]
                 \/ pc[u] = "waiting" /\ Placed(t, place)[u] = "woken"
  BY DEF TypeOK, Placed, NotifiesMaster, Place

\* nTodo after the clean-up, when t goes on with m[t] checks or without any.
LEMMA LoopTodo ==
    ASSUME TypeOK, TodoExact, NEW t \in Thread, pc[t] \in LoopEntry,
           NEW q, NEW m \in [Thread -> 0 .. nBatchSize],
           \A u \in Thread \ {t} : m[u] = nNow[u] /\ (q[u] \in Busy <=> pc[u] \in Busy)
    PROVE  /\ TodoAfter(t) \in Nat /\ TodoAfter(t) <= nTodo
           /\ Cardinality(TakenBy(q, m)) \in Nat
           /\ TodoAfter(t) + (IF q[t] \in Busy THEN m[t] ELSE 0)
                = Len(queue) + Cardinality(TakenBy(q, m))
  <1>1. /\ nNow \in [Thread -> 0 .. nBatchSize] /\ Len(queue) \in Nat /\ nTodo \in Nat
        /\ nNow[t] \in Nat /\ m[t] \in Nat
    BY CheckQueueAssumption DEF TypeOK
  <1> DEFINE a == Cardinality(TakenBy(pc, nNow))
             b == Cardinality(TakenBy(q, m))
  <1>2. /\ a \in Nat /\ b \in Nat
        /\ b = a + (IF q[t] \in Busy THEN m[t] ELSE 0)
                 - (IF pc[t] \in Busy THEN nNow[t] ELSE 0)
        /\ pc[t] \in Busy => nNow[t] <= a
    BY <1>1, TakenStep
  <1>3. nTodo = Len(queue) + a
    BY DEF TodoExact, Taken
  <1>4. pc[t] \in Busy <=> pc[t] = "done"
    BY DEF Busy, LoopEntry
  <1> HIDE DEF a, b
  <1>5. TodoAfter(t) = nTodo - IF pc[t] \in Busy THEN nNow[t] ELSE 0
    BY <1>1, <1>4 DEF TodoAfter
  <1>6. /\ TodoAfter(t) \in Nat /\ TodoAfter(t) <= nTodo
        /\ TodoAfter(t) + (IF q[t] \in Busy THEN m[t] ELSE 0) = Len(queue) + b
    BY <1>1, <1>2, <1>3, <1>5
  <1> QED BY <1>2, <1>6 DEF b

\* nIdle and nTotal, when t goes to a place of q.
LEMMA LoopCounts ==
    ASSUME TypeOK, LoopCounted, NEW t \in Thread, pc[t] \in LoopEntry, NEW q,
           \A u \in Thread \ {t} : /\ q[u] \in InWait <=> pc[u] \in InWait
                                   /\ q[u] \in Busy <=> pc[u] \in Busy
    PROVE  /\ CountAt(q, InWait) = IdleAfter(t) + IF q[t] \in InWait THEN 1 ELSE 0
           /\ CountAt(q, InWait \cup Busy)
                = (TotalAfter(t) - 1) + IF q[t] \in InWait \cup Busy THEN 1 ELSE 0
           /\ CountAt(q, InWait) \in 0 .. Cardinality(Thread)
           /\ CountAt(q, InWait \cup Busy) \in 0 .. Cardinality(Thread)
  <1>1. CountAt(q, InWait) = CountAt(pc, InWait) + (IF q[t] \in InWait THEN 1 ELSE 0)
                                                 - (IF pc[t] \in InWait THEN 1 ELSE 0)
    BY CountStep
  <1>2. CountAt(q, InWait \cup Busy)
          = CountAt(pc, InWait \cup Busy) + (IF q[t] \in InWait \cup Busy THEN 1 ELSE 0)
                                          - (IF pc[t] \in InWait \cup Busy THEN 1 ELSE 0)
    <2>1. \A u \in Thread \ {t} : q[u] \in InWait \cup Busy <=> pc[u] \in InWait \cup Busy
      OBVIOUS
    <2> QED BY <2>1, CountStep
  <1>3. /\ pc[t] \in InWait <=> pc[t] = "woken"
        /\ pc[t] \in InWait \cup Busy <=> pc[t] # "enter"
    BY DEF InWait, Busy, LoopEntry
  <1>4. /\ nIdle = CountAt(pc, InWait) /\ nIdle \in Nat
        /\ nTotal = CountAt(pc, InWait \cup Busy) /\ nTotal \in Nat
    BY ThreadFinite, FS_CardinalityType DEF LoopCounted, TypeOK
  <1>5. CountAt(q, InWait) = IdleAfter(t) + IF q[t] \in InWait THEN 1 ELSE 0
    BY <1>1, <1>3, <1>4 DEF IdleAfter
  <1>6. CountAt(q, InWait \cup Busy)
          = (TotalAfter(t) - 1) + IF q[t] \in InWait \cup Busy THEN 1 ELSE 0
    BY <1>2, <1>3, <1>4 DEF TotalAfter
  <1> QED BY <1>5, <1>6, CountType

-----------------------------------------------------------------------------
(* The induction, action by action.                                        *)

LEMMA ReturnsInv ==
    ASSUME IndInv, NEW t \in Thread, LoopReturns(t)
    PROVE  IndInv'
  <1> USE DEF IndInv
  <1>0. /\ t = Master /\ queue = <<>> /\ TodoAfter(t) = 0 /\ pc[t] \in LoopEntry
        /\ pc' = [pc EXCEPT ![t] = "outside"] /\ nNow' = [nNow EXCEPT ![t] = 0]
        /\ UNCHANGED <<queue, vChecks, fOk, bad, added>>
        /\ nTodo' = 0 /\ fAllOk' = TRUE /\ nIdle' = IdleAfter(t) /\ nTotal' = TotalAfter(t) - 1
        /\ verdict' = [ok |-> OkAfter(t), bad |-> bad]
    BY DEF LoopReturns, MayReturn, LoopEntry
  <1>1. /\ pc' \in [Thread -> Place] /\ pc'[t] = "outside"
        /\ \A u \in Thread \ {t} : pc'[u] = pc[u]
        /\ nNow' \in [Thread -> 0 .. nBatchSize] /\ \A u \in Thread \ {t} : nNow'[u] = nNow[u]
    BY <1>0, CheckQueueAssumption DEF TypeOK, Place
  <1>2. /\ Cardinality(TakenBy(pc', nNow')) \in Nat
        /\ TodoAfter(t) + (IF pc'[t] \in Busy THEN nNow'[t] ELSE 0)
             = Len(queue) + Cardinality(TakenBy(pc', nNow'))
    <2>1. \A u \in Thread \ {t} :
             nNow'[u] = nNow[u] /\ (pc'[u] \in Busy <=> pc[u] \in Busy)
      BY <1>1
    <2>2. TypeOK /\ TodoExact /\ pc[t] \in LoopEntry
      BY <1>0
    <2> QED BY <1>1, <2>1, <2>2, LoopTodo
  <1>3. Cardinality(TakenBy(pc', nNow')) = 0
    BY <1>0, <1>1, <1>2 DEF Busy
  <1>4. \A u \in Thread : pc'[u] \notin Busy
    <2>1. \A u \in Thread : pc'[u] \in Busy => nNow'[u] >= 1
      BY <1>1 DEF TodoExact, Busy
    <2> QED BY <1>1, <1>3, <2>1, NobodyBusy
  <1>5. LoopCounted' /\ nIdle' \in 0 .. Cardinality(Thread) /\ nTotal' \in 0 .. Cardinality(Thread)
    <2>1. /\ CountAt(pc', InWait) = IdleAfter(t) + IF pc'[t] \in InWait THEN 1 ELSE 0
          /\ CountAt(pc', InWait \cup Busy)
               = (TotalAfter(t) - 1) + IF pc'[t] \in InWait \cup Busy THEN 1 ELSE 0
          /\ CountAt(pc', InWait) \in 0 .. Cardinality(Thread)
          /\ CountAt(pc', InWait \cup Busy) \in 0 .. Cardinality(Thread)
      BY <1>0, <1>1, LoopCounts
    <2>2. pc'[t] \notin InWait /\ pc'[t] \notin Busy
      BY <1>1 DEF InWait, Busy
    <2>3. IdleAfter(t) \in Int /\ TotalAfter(t) \in Int
      BY ThreadFinite, FS_CardinalityType DEF TypeOK, IdleAfter, TotalAfter
    <2> QED BY <1>0, <2>1, <2>2, <2>3 DEF LoopCounted
  <1>6. VerdictExact'
    <2>1. bad <=> ~Untainted
      BY <1>0 DEF FailureKept, LoopEntry
    <2>2. \A u \in Thread \ {t} : pc[u] \notin Busy
      BY <1>1, <1>4
    <2>3. pc[t] # "working" /\ vChecks[t] = <<>>
      BY <1>0 DEF NoBatchLeft, LoopEntry
    <2>4. Untainted <=> OkAfter(t)
      BY <1>0, <2>2, <2>3, AllEmpty DEF Untainted, OkAfter, Busy, LoopEntry
    <2>5. bad \in BOOLEAN /\ OkAfter(t) \in BOOLEAN
      BY DEF TypeOK, OkAfter
    <2> QED BY <1>0, <2>1, <2>4, <2>5 DEF VerdictExact
  <1>7. TypeOK'
    <2>1. OkAfter(t) \in BOOLEAN
      BY DEF TypeOK, OkAfter
    <2>2. nTodo' \in 0 .. MaxChecks
      BY <1>0, CheckQueueAssumption
    <2> QED BY <1>0, <1>1, <1>5, <2>1, <2>2 DEF TypeOK
  <1>8. TodoExact'
    <2>1. added \in Nat
      BY CheckQueueAssumption DEF TypeOK
    <2> QED BY <1>0, <1>3, <1>4, <2>1 DEF TodoExact, Taken
  <1>9. NoBatchLeft' /\ Quiet' /\ FailureKept'
    BY <1>0, <1>1 DEF NoBatchLeft, Quiet, FailureKept, LoopEntry
  <1> QED BY <1>5, <1>6, <1>7, <1>8, <1>9

LEMMA WaitsInv ==
    ASSUME IndInv, NEW t \in Thread, LoopWaits(t)
    PROVE  IndInv'
  <1> USE DEF IndInv
  <1>0. /\ queue = <<>> /\ pc[t] \in LoopEntry
        /\ pc' = Placed(t, "waiting")
        /\ UNCHANGED <<queue, vChecks, nNow, fOk, bad, added, verdict>>
        /\ nTodo' = TodoAfter(t) /\ fAllOk' = OkAfter(t)
        /\ nIdle' = IdleAfter(t) + 1 /\ nTotal' = TotalAfter(t)
    BY DEF LoopWaits, LoopEntry
  <1>1. /\ pc' \in [Thread -> Place] /\ pc'[t] = "waiting"
        /\ \A u \in Thread \ {t} : pc'[u] = pc[u] \/ (pc[u] = "waiting" /\ pc'[u] = "woken")
    BY <1>0, PlacedAt DEF Place
  <1>2. nNow' \in [Thread -> 0 .. nBatchSize] /\ \A u \in Thread : nNow'[u] = nNow[u]
    BY <1>0 DEF TypeOK
  <1>3. \A u \in Thread \ {t} : /\ pc'[u] \in InWait <=> pc[u] \in InWait
                                /\ pc'[u] \in Busy <=> pc[u] \in Busy
    BY <1>1 DEF InWait, Busy
  <1>4. pc'[t] \in InWait /\ pc'[t] \notin Busy
    BY <1>1 DEF InWait, Busy
  <1>5. /\ TodoAfter(t) \in Nat /\ TodoAfter(t) <= nTodo
        /\ TodoAfter(t) = Len(queue) + Cardinality(TakenBy(pc', nNow'))
    <2>1. \A u \in Thread \ {t} :
             nNow'[u] = nNow[u] /\ (pc'[u] \in Busy <=> pc[u] \in Busy)
      BY <1>2, <1>3
    <2>2. /\ TodoAfter(t) \in Nat /\ TodoAfter(t) <= nTodo
          /\ TodoAfter(t) + (IF pc'[t] \in Busy THEN nNow'[t] ELSE 0)
               = Len(queue) + Cardinality(TakenBy(pc', nNow'))
      <3>1. TypeOK /\ TodoExact /\ pc[t] \in LoopEntry
        BY <1>0
      <3> QED BY <1>2, <2>1, <3>1, LoopTodo
    <2> QED BY <1>4, <2>2
  <1>6. LoopCounted' /\ nIdle' \in 0 .. Cardinality(Thread) /\ nTotal' \in 0 .. Cardinality(Thread)
    <2>1. /\ CountAt(pc', InWait) = IdleAfter(t) + IF pc'[t] \in InWait THEN 1 ELSE 0
          /\ CountAt(pc', InWait \cup Busy)
               = (TotalAfter(t) - 1) + IF pc'[t] \in InWait \cup Busy THEN 1 ELSE 0
          /\ CountAt(pc', InWait) \in 0 .. Cardinality(Thread)
          /\ CountAt(pc', InWait \cup Busy) \in 0 .. Cardinality(Thread)
      BY <1>0, <1>3, LoopCounts
    <2>2. IdleAfter(t) \in Int /\ TotalAfter(t) \in Int
      BY ThreadFinite, FS_CardinalityType DEF TypeOK, IdleAfter, TotalAfter
    <2> QED BY <1>0, <1>4, <2>1, <2>2 DEF LoopCounted
  <1>7. TypeOK'
    <2>1. OkAfter(t) \in BOOLEAN
      BY DEF TypeOK, OkAfter
    <2>2. nTodo' \in 0 .. MaxChecks
      BY <1>0, <1>5, CheckQueueAssumption DEF TypeOK
    <2> QED BY <1>0, <1>1, <1>6, <2>1, <2>2 DEF TypeOK
  <1>8. TodoExact'
    <2>1. added \in Nat /\ nTodo \in Nat
      BY CheckQueueAssumption DEF TypeOK
    <2>2. \A u \in Thread : pc'[u] \in Busy => nNow'[u] >= 1
      BY <1>2, <1>3, <1>4 DEF TodoExact
    <2> QED BY <1>0, <1>5, <2>1, <2>2 DEF TodoExact, Taken
  <1>9. NoBatchLeft'
    BY <1>0, <1>1 DEF NoBatchLeft, LoopEntry
  <1>10. Quiet'
    <2> SUFFICES ASSUME pc'[Master] = "outside" PROVE nTodo' = 0 /\ fAllOk'
      BY <1>0 DEF Quiet
    <2>1. pc[Master] = "outside"
      BY <1>1, ThreadFinite
    <2>2. nTodo = 0 /\ fAllOk /\ pc[t] # "done"
      BY <2>1, NothingTaken DEF Quiet, Busy
    <2> QED BY <1>0, <2>2 DEF TodoAfter, OkAfter
  <1>11. FailureKept'
    <2>1. vChecks[t] = <<>>
      BY <1>0 DEF NoBatchLeft, LoopEntry
    <2>2. Untainted' <=> Untainted
      BY <1>0, <1>3, <1>4, <2>1, AllEmpty DEF Untainted, OkAfter, LoopEntry, Busy
    <2>3. pc'[Master] # "outside" => pc[Master] # "outside"
      BY <1>0, <1>1, ThreadFinite DEF LoopEntry
    <2> QED BY <1>0, <2>2, <2>3 DEF FailureKept
  <1> QED BY <1>0, <1>6, <1>7, <1>8, <1>9, <1>10, <1>11 DEF VerdictExact

LEMMA TakesInv ==
    ASSUME IndInv, NEW t \in Thread, LoopTakes(t)
    PROVE  IndInv'
  <1> USE DEF IndInv
  <1> DEFINE n == BatchOf(t)
             k == Len(queue) - n
  <1>0. /\ queue # <<>> /\ pc[t] \in LoopEntry
        /\ pc' = Placed(t, "working")
        /\ nNow' = [nNow EXCEPT ![t] = n]
        /\ vChecks' = [vChecks EXCEPT ![t] = SubSeq(queue, k + 1, Len(queue))]
        /\ queue' = SubSeq(queue, 1, k)
        /\ fOk' = [fOk EXCEPT ![t] = OkAfter(t)]
        /\ UNCHANGED <<bad, added, verdict>>
        /\ nTodo' = TodoAfter(t) /\ fAllOk' = OkAfter(t)
        /\ nIdle' = IdleAfter(t) /\ nTotal' = TotalAfter(t)
    BY DEF LoopTakes, LoopEntry
  <1>1. /\ pc' \in [Thread -> Place] /\ pc'[t] = "working"
        /\ \A u \in Thread \ {t} : pc'[u] = pc[u] \/ (pc[u] = "waiting" /\ pc'[u] = "woken")
    BY <1>0, PlacedAt DEF Place
  <1>2. n \in 1 .. nBatchSize /\ n <= Len(queue) /\ Len(queue) \in Nat /\ nBatchSize \in Nat
    BY <1>0, BatchSize, CheckQueueAssumption DEF TypeOK
  <1> HIDE DEF n
  <1>3. k \in 0 .. Len(queue) /\ Len(queue) - k = n
    BY <1>2
  <1> HIDE DEF k
  <1>4. /\ queue' \in Seq(BOOLEAN) /\ Len(queue') = k
        /\ SubSeq(queue, k + 1, Len(queue)) \in Seq(BOOLEAN)
        /\ Len(SubSeq(queue, k + 1, Len(queue))) = n
        /\ All(queue) <=> All(queue') /\ All(SubSeq(queue, k + 1, Len(queue)))
    BY <1>0, <1>3, AllSplit DEF TypeOK
  <1>5. /\ nNow' \in [Thread -> 0 .. nBatchSize] /\ nNow'[t] = n
        /\ \A u \in Thread \ {t} : nNow'[u] = nNow[u]
    BY <1>0, <1>2 DEF TypeOK
  <1>6. /\ vChecks' \in [Thread -> Seq(BOOLEAN)]
        /\ vChecks'[t] = SubSeq(queue, k + 1, Len(queue))
        /\ \A u \in Thread \ {t} : vChecks'[u] = vChecks[u]
    BY <1>0, <1>4 DEF TypeOK
  <1>7. OkAfter(t) \in BOOLEAN
    BY DEF TypeOK, OkAfter
  <1>8. /\ fOk' \in [Thread -> BOOLEAN] /\ fOk'[t] = OkAfter(t)
        /\ \A u \in Thread \ {t} : fOk'[u] = fOk[u]
    BY <1>0, <1>7 DEF TypeOK
  <1>9. /\ \A u \in Thread \ {t} : pc'[u] \in InWait <=> pc[u] \in InWait
        /\ \A u \in Thread \ {t} : pc'[u] \in Busy <=> pc[u] \in Busy
        /\ pc'[t] \notin InWait /\ pc'[t] \in Busy
    BY <1>1 DEF InWait, Busy
  <1>10. /\ TodoAfter(t) \in Nat /\ TodoAfter(t) <= nTodo
         /\ TodoAfter(t) = Len(queue') + Cardinality(TakenBy(pc', nNow'))
    <2>1. \A u \in Thread \ {t} :
             nNow'[u] = nNow[u] /\ (pc'[u] \in Busy <=> pc[u] \in Busy)
      BY <1>5, <1>9
    <2>2. /\ TodoAfter(t) \in Nat /\ TodoAfter(t) <= nTodo
          /\ Cardinality(TakenBy(pc', nNow')) \in Nat
          /\ TodoAfter(t) + (IF pc'[t] \in Busy THEN nNow'[t] ELSE 0)
               = Len(queue) + Cardinality(TakenBy(pc', nNow'))
      <3>1. TypeOK /\ TodoExact /\ pc[t] \in LoopEntry
        BY <1>0
      <3> QED BY <1>5, <2>1, <3>1, LoopTodo
    <2>3. TodoAfter(t) + n = Len(queue) + Cardinality(TakenBy(pc', nNow'))
      BY <1>5, <1>9, <2>2
    <2>4. k \in Nat /\ n \in Nat /\ Len(queue) = k + n
      BY <1>2, <1>3
    <2>5. TodoAfter(t) = k + Cardinality(TakenBy(pc', nNow'))
      BY <2>2, <2>3, <2>4
    <2> QED BY <1>4, <2>2, <2>5
  <1>11. LoopCounted' /\ nIdle' \in 0 .. Cardinality(Thread) /\ nTotal' \in 0 .. Cardinality(Thread)
    <2>1. /\ CountAt(pc', InWait) = IdleAfter(t) + IF pc'[t] \in InWait THEN 1 ELSE 0
          /\ CountAt(pc', InWait \cup Busy)
               = (TotalAfter(t) - 1) + IF pc'[t] \in InWait \cup Busy THEN 1 ELSE 0
          /\ CountAt(pc', InWait) \in 0 .. Cardinality(Thread)
          /\ CountAt(pc', InWait \cup Busy) \in 0 .. Cardinality(Thread)
      BY <1>0, <1>9, LoopCounts
    <2>2. IdleAfter(t) \in Int /\ TotalAfter(t) \in Int
      BY ThreadFinite, FS_CardinalityType DEF TypeOK, IdleAfter, TotalAfter
    <2> QED BY <1>0, <1>9, <2>1, <2>2 DEF LoopCounted
  <1>12. TypeOK'
    <2>1. nTodo' \in 0 .. MaxChecks
      <3>1. nTodo \in 0 .. MaxChecks
        BY DEF TypeOK
      <3>2. nTodo' \in Nat /\ nTodo' <= nTodo
        BY <1>0, <1>10
      <3> QED BY <3>1, <3>2, CheckQueueAssumption
    <2>2. Len(queue') <= MaxChecks
      BY <1>2, <1>3, <1>4, CheckQueueAssumption DEF TypeOK
    <2>3. \A u \in Thread : Len(vChecks'[u]) <= nBatchSize
      <3>1. \A u \in Thread \ {t} : Len(vChecks'[u]) <= nBatchSize
        BY <1>6 DEF TypeOK
      <3>2. Len(vChecks'[t]) <= nBatchSize
        BY <1>2, <1>4, <1>6
      <3> QED BY <3>1, <3>2
    <2> QED BY <1>0, <1>1, <1>4, <1>5, <1>6, <1>7, <1>8, <1>11, <2>1, <2>2, <2>3 DEF TypeOK
  <1>13. TodoExact'
    <2>1. added \in Nat /\ nTodo \in Nat
      BY CheckQueueAssumption DEF TypeOK
    <2>2. \A u \in Thread : pc'[u] \in Busy => nNow'[u] >= 1
      BY <1>2, <1>5, <1>9 DEF TodoExact
    <2>3. nTodo' = Len(queue') + Cardinality(Taken')
      BY <1>0, <1>10 DEF Taken
    <2>4. nTodo' <= added'
      <3>1. nTodo <= added
        BY DEF TodoExact
      <3>2. nTodo' \in Nat /\ nTodo' <= nTodo /\ added' = added
        BY <1>0, <1>10
      <3> QED BY <2>1, <3>1, <3>2
    <2> QED BY <2>2, <2>3, <2>4 DEF TodoExact
  <1>14. NoBatchLeft'
    BY <1>1, <1>6 DEF NoBatchLeft
  <1>15. Quiet'
    <2>1. pc'[Master] # "outside"
      BY <1>0, <1>1, ThreadFinite DEF Quiet
    <2> QED BY <2>1 DEF Quiet
  <1>16. FailureKept'
    <2>1. vChecks[t] = <<>>
      BY <1>0 DEF NoBatchLeft, LoopEntry
    <2>2. Untainted' <=> OkAfter(t) /\ All(queue)
                           /\ \A u \in Thread \ {t} : pc[u] \in Busy => fOk[u] /\ All(vChecks[u])
      BY <1>0, <1>4, <1>6, <1>8, <1>9 DEF Untainted
    <2>3. Untainted <=> OkAfter(t) /\ All(queue)
                           /\ \A u \in Thread \ {t} : pc[u] \in Busy => fOk[u] /\ All(vChecks[u])
      BY <1>0, <2>1, AllEmpty DEF Untainted, OkAfter, LoopEntry, Busy
    <2>4. pc[Master] # "outside"
      BY <1>0 DEF Quiet
    <2> QED BY <1>0, <2>2, <2>3, <2>4 DEF FailureKept
  <1> QED BY <1>0, <1>11, <1>12, <1>13, <1>14, <1>15, <1>16 DEF VerdictExact

LEMMA ExecuteInv ==
    ASSUME IndInv, NEW t \in Thread, Execute(t)
    PROVE  IndInv'
  <1> USE DEF IndInv
  <1>0. /\ pc[t] = "working" /\ pc' = [pc EXCEPT ![t] = "done"]
        /\ fOk' = [fOk EXCEPT ![t] = fOk[t] /\ All(vChecks[t])]
        /\ vChecks' = [vChecks EXCEPT ![t] = <<>>]
        /\ UNCHANGED <<queue, nIdle, nTotal, fAllOk, nTodo, nNow, bad, added, verdict>>
    BY DEF Execute, shared
  <1>1. /\ pc' \in [Thread -> Place] /\ pc'[t] = "done"
        /\ \A u \in Thread \ {t} : pc'[u] = pc[u]
    BY <1>0 DEF TypeOK, Place
  <1>2. /\ fOk' \in [Thread -> BOOLEAN] /\ fOk'[t] = (fOk[t] /\ All(vChecks[t]))
        /\ \A u \in Thread \ {t} : fOk'[u] = fOk[u]
    <2>1. (fOk[t] /\ All(vChecks[t])) \in BOOLEAN
      OBVIOUS
    <2> QED BY <1>0, <2>1 DEF TypeOK
  <1>3. /\ vChecks' \in [Thread -> Seq(BOOLEAN)] /\ vChecks'[t] = <<>>
        /\ \A u \in Thread \ {t} : vChecks'[u] = vChecks[u]
    BY <1>0 DEF TypeOK
  <1>4. \A u \in Thread : /\ pc'[u] \in InWait <=> pc[u] \in InWait
                          /\ pc'[u] \in Busy <=> pc[u] \in Busy
                          /\ pc'[u] = "outside" <=> pc[u] = "outside"
    BY <1>0, <1>1 DEF InWait, Busy
  <1>5. TypeOK'
    BY <1>0, <1>1, <1>2, <1>3, CheckQueueAssumption DEF TypeOK
  <1>6. Taken' = Taken
    BY <1>0, <1>4 DEF Taken, TakenBy
  <1>7. TodoExact' /\ LoopCounted'
    BY <1>0, <1>4, <1>6 DEF TodoExact, LoopCounted, CountAt
  <1>8. NoBatchLeft' /\ Quiet'
    BY <1>0, <1>1, <1>3, <1>4, ThreadFinite DEF NoBatchLeft, Quiet
  <1>9. FailureKept'
    <2>1. \A u \in Thread : pc[u] \in Busy =>
             ((fOk'[u] /\ All(vChecks'[u])) <=> (fOk[u] /\ All(vChecks[u])))
      <3>1. (fOk'[t] /\ All(vChecks'[t])) <=> (fOk[t] /\ All(vChecks[t]))
        BY <1>2, <1>3, AllEmpty
      <3> QED BY <1>2, <1>3, <3>1
    <2>2. Untainted' <=> Untainted
      BY <1>0, <1>4, <2>1 DEF Untainted
    <2> QED BY <1>0, <1>4, <2>2, ThreadFinite DEF FailureKept
  <1> QED BY <1>0, <1>5, <1>7, <1>8, <1>9 DEF VerdictExact

\* A step that only moves threads between places where they hold nothing.
LEMMA MoveInv ==
    ASSUME IndInv, pc' \in [Thread -> Place],
           UNCHANGED <<shared, vChecks, nNow, fOk, bad, added, verdict>>,
           \A u \in Thread :
              \/ pc'[u] = pc[u]
              \/ pc[u] \in InWait /\ pc'[u] \in InWait
              \/ /\ pc[u] \in {"outside", "adding"} /\ pc'[u] = "enter"
                 /\ u = Master => pc[u] = "adding"
    PROVE  IndInv'
  <1> USE DEF IndInv, shared
  <1>1. \A u \in Thread : /\ pc'[u] \in InWait <=> pc[u] \in InWait
                          /\ pc'[u] \in Busy <=> pc[u] \in Busy
                          /\ pc'[u] = "working" <=> pc[u] = "working"
    BY DEF InWait, Busy
  <1>2. pc'[Master] = "outside" <=> pc[Master] = "outside"
    BY ThreadFinite DEF InWait
  <1>3. TypeOK'
    BY DEF TypeOK
  <1>4. Taken' = Taken
    BY <1>1 DEF Taken, TakenBy
  <1>5. TodoExact' /\ LoopCounted'
    BY <1>1, <1>4 DEF TodoExact, LoopCounted, CountAt
  <1>6. NoBatchLeft' /\ Quiet'
    BY <1>1, <1>2 DEF NoBatchLeft, Quiet
  <1>7. FailureKept'
    BY <1>1, <1>2 DEF FailureKept, Untainted
  <1> QED BY <1>3, <1>5, <1>6, <1>7 DEF VerdictExact

LEMMA MakeControlInv ==
    ASSUME IndInv, MakeControl
    PROVE  IndInv'
  <1> USE DEF IndInv
  <1>0. /\ pc[Master] = "outside" /\ pc' = [pc EXCEPT ![Master] = "adding"]
        /\ bad' = FALSE /\ added' = 0
        /\ UNCHANGED <<queue, nIdle, nTotal, fAllOk, nTodo, vChecks, nNow, fOk, verdict>>
    BY DEF MakeControl, shared
  <1>1. /\ pc' \in [Thread -> Place] /\ pc'[Master] = "adding"
        /\ \A u \in Thread \ {Master} : pc'[u] = pc[u]
    BY <1>0, ThreadFinite DEF TypeOK, Place
  <1>2. \A u \in Thread : /\ pc'[u] \in InWait <=> pc[u] \in InWait
                          /\ pc'[u] \in Busy <=> pc[u] \in Busy
                          /\ pc'[u] = "working" <=> pc[u] = "working"
    BY <1>0, <1>1 DEF InWait, Busy
  <1>3. /\ queue = <<>> /\ nTodo = 0 /\ fAllOk
        /\ \A u \in Thread : pc[u] \notin Busy
    BY <1>0, NothingTaken DEF Quiet
  <1>4. TypeOK'
    <2>1. added' \in 0 .. MaxChecks
      BY <1>0, CheckQueueAssumption
    <2>2. bad' \in BOOLEAN
      BY <1>0
    <2> QED BY <1>0, <1>1, <2>1, <2>2 DEF TypeOK
  <1>5. Taken' = Taken
    BY <1>0, <1>2 DEF Taken, TakenBy
  <1>6. TodoExact' /\ LoopCounted'
    <2>1. TodoExact'
      BY <1>0, <1>2, <1>3, <1>5 DEF TodoExact
    <2>2. LoopCounted'
      BY <1>0, <1>2 DEF LoopCounted, CountAt
    <2> QED BY <2>1, <2>2
  <1>7. NoBatchLeft' /\ Quiet'
    BY <1>0, <1>1, <1>2 DEF NoBatchLeft, Quiet
  <1>8. FailureKept'
    BY <1>0, <1>2, <1>3, AllEmpty DEF FailureKept, Untainted
  <1> QED BY <1>0, <1>4, <1>6, <1>7, <1>8 DEF VerdictExact

LEMMA AddInv ==
    ASSUME IndInv, NEW checks \in Batches, Add(checks)
    PROVE  IndInv'
  <1> USE DEF IndInv
  <1>0. /\ pc[Master] = "adding" /\ added + Len(checks) <= MaxChecks
        /\ queue' = queue \o checks
        /\ nTodo' = nTodo + Len(checks)
        /\ added' = added + Len(checks)
        /\ bad' = (bad \/ ~All(checks))
        /\ UNCHANGED <<nIdle, nTotal, fAllOk, vChecks, nNow, fOk, verdict>>
    BY DEF Add
  <1>1. /\ pc' \in [Thread -> Place]
        /\ \A u \in Thread : \/ pc'[u] = pc[u]
                             \/ u # Master /\ pc[u] = "waiting" /\ pc'[u] = "woken"
    <2>1. CASE \E w \in Worker : /\ pc[w] = "waiting"
                                 /\ pc' = [pc EXCEPT ![w] = "woken"]
      BY <2>1, CheckQueueAssumption DEF Thread, TypeOK, Place
    <2>2. CASE pc' = [t \in Thread |->
                        IF t \in Worker /\ pc[t] = "waiting" /\ Len(checks) > 1
                        THEN "woken" ELSE pc[t]]
      BY <2>2, CheckQueueAssumption DEF Thread, TypeOK, Place
    <2> QED BY <2>1, <2>2 DEF Add
  <1>2. checks \in Seq(BOOLEAN) /\ Len(checks) \in Nat
    BY BatchesType
  <1>3. /\ queue \in Seq(BOOLEAN) /\ queue' \in Seq(BOOLEAN)
        /\ Len(queue') = Len(queue) + Len(checks) /\ Len(queue) \in Nat
    BY <1>0, <1>2, ConcatProperties DEF TypeOK
  <1>4. \A u \in Thread : /\ pc'[u] \in InWait <=> pc[u] \in InWait
                          /\ pc'[u] \in Busy <=> pc[u] \in Busy
                          /\ pc'[u] = "working" <=> pc[u] = "working"
    BY <1>1 DEF InWait, Busy
  <1>5. pc'[Master] = "adding"
    BY <1>0, <1>1, ThreadFinite
  <1>6. Taken' = Taken /\ Cardinality(Taken) \in Nat
    <2>1. Taken' = Taken
      BY <1>0, <1>4 DEF Taken, TakenBy
    <2>2. Cardinality(TakenBy(pc, nNow)) \in Nat
      BY ThreadFinite, TakenSplit DEF TypeOK
    <2> QED BY <2>1, <2>2 DEF Taken
  <1>7. nTodo \in Nat /\ added \in Nat
    BY CheckQueueAssumption DEF TypeOK
  <1>8. TodoExact'
    BY <1>0, <1>2, <1>3, <1>4, <1>6, <1>7 DEF TodoExact
  <1>9. TypeOK'
    <2>1. /\ added' \in 0 .. MaxChecks /\ nTodo' \in 0 .. MaxChecks
          /\ Len(queue') <= MaxChecks
      BY <1>0, <1>2, <1>3, <1>6, <1>7, CheckQueueAssumption DEF TodoExact
    <2>2. bad' \in BOOLEAN
      BY <1>0
    <2> QED BY <1>0, <1>1, <1>3, <2>1, <2>2 DEF TypeOK
  <1>10. LoopCounted'
    BY <1>0, <1>4 DEF LoopCounted, CountAt
  <1>11. NoBatchLeft' /\ Quiet'
    BY <1>0, <1>4, <1>5 DEF NoBatchLeft, Quiet
  <1>12. FailureKept'
    <2>1. All(queue') <=> All(queue) /\ All(checks)
      BY <1>0, <1>2, <1>3, AllConcat
    <2>2. bad <=> ~Untainted
      BY <1>0 DEF FailureKept
    <2>3. Untainted' <=> Untainted /\ All(checks)
      BY <1>0, <1>4, <2>1 DEF Untainted
    <2>4. bad' <=> (bad \/ ~All(checks))
      BY <1>0
    <2> QED BY <2>2, <2>3, <2>4 DEF FailureKept
  <1> QED BY <1>0, <1>8, <1>9, <1>10, <1>11, <1>12 DEF VerdictExact

LEMMA InitInv == Init => IndInv
  <1> SUFFICES ASSUME Init PROVE IndInv
    OBVIOUS
  <1>1. \A t \in Thread : pc[t] = "outside"
    BY DEF Init
  <1>2. TypeOK
    <2>1. 0 \in 0 .. Cardinality(Thread) /\ 0 \in 0 .. MaxChecks /\ 0 \in 0 .. nBatchSize
      BY CheckQueueAssumption, ThreadFinite, FS_CardinalityType
    <2>2. <<>> \in Seq(BOOLEAN) /\ Len(<<>>) = 0 /\ 0 <= MaxChecks /\ 0 <= nBatchSize
      BY CheckQueueAssumption
    <2>3. verdict \in [ok : BOOLEAN, bad : BOOLEAN]
      BY DEF Init
    <2> QED BY <2>1, <2>2, <2>3 DEF Init, TypeOK, Place
  <1>3. Taken = {} /\ Cardinality({}) = 0
    BY <1>1, FS_EmptySet DEF Taken, TakenBy, Busy
  <1>4. TodoExact
    BY <1>1, <1>3 DEF Init, TodoExact, Busy
  <1>5. /\ {t \in Thread : pc[t] \in InWait} = {}
        /\ {t \in Thread : pc[t] \in InWait \cup Busy} = {}
    BY <1>1 DEF InWait, Busy
  <1>6. LoopCounted
    BY <1>3, <1>5 DEF Init, LoopCounted, CountAt
  <1>7. NoBatchLeft /\ Quiet /\ FailureKept /\ VerdictExact
    BY <1>1, ThreadFinite DEF Init, NoBatchLeft, Quiet, FailureKept, VerdictExact
  <1> QED BY <1>2, <1>4, <1>6, <1>7 DEF IndInv

LEMMA NextInv == IndInv /\ [Next]_vars => IndInv'
  <1> SUFFICES ASSUME IndInv, [Next]_vars PROVE IndInv'
    OBVIOUS
  <1>0. pc \in [Thread -> Place] /\ Worker \subseteq Thread /\ Master \notin Worker
    BY CheckQueueAssumption DEF IndInv, TypeOK, Thread
  <1>1. ASSUME NEW t \in Thread, Loop(t) PROVE IndInv'
    BY <1>1, ReturnsInv, WaitsInv, TakesInv DEF Loop
  <1>2. ASSUME NEW t \in Thread, Execute(t) PROVE IndInv'
    BY <1>2, ExecuteInv
  <1>3. ASSUME NEW t \in Thread, SpuriousWake(t) PROVE IndInv'
    BY <1>0, <1>3, MoveInv DEF SpuriousWake, InWait, Place
  <1>4. ASSUME NEW w \in Worker, StartWorker(w) PROVE IndInv'
    BY <1>0, <1>4, MoveInv DEF StartWorker, Place
  <1>5. ASSUME NEW w \in Worker, InterruptWorker(w) PROVE IndInv'
    BY <1>0, <1>5, MoveInv DEF InterruptWorker, InWait, Place
  <1>6. CASE MakeControl
    BY <1>6, MakeControlInv
  <1>7. ASSUME NEW checks \in Batches, Add(checks) PROVE IndInv'
    BY <1>7, AddInv
  <1>8. CASE CallWait
    BY <1>0, <1>8, ThreadFinite, MoveInv DEF CallWait, Place
  <1>9. CASE UNCHANGED vars
    BY <1>0, <1>9, MoveInv DEF vars, shared, local
  <1> QED BY <1>1, <1>2, <1>3, <1>4, <1>5, <1>6, <1>7, <1>8, <1>9 DEF Next

LEMMA Invariance == Spec => []IndInv
  BY InitInv, NextInv, PTL DEF Spec

-----------------------------------------------------------------------------
(* The theorems.                                                           *)

\* Type correctness: no counter leaves its range; nTodo, nIdle and nTotal,
\* which are subtracted from, never wrap below zero.
THEOREM TypeCorrect == Spec => []TypeOK
  <1>1. IndInv => TypeOK
    BY DEF IndInv
  <1> QED BY <1>1, Invariance, PTL

\* Wait answers TRUE if and only if none of the checks added since the control
\* was made fails, for any number of workers and any interleaving.
THEOREM VerdictCorrect == Spec => []VerdictExact
  <1>1. IndInv => VerdictExact
    BY DEF IndInv
  <1> QED BY <1>1, Invariance, PTL

\* No check, which points into the block, is queued or held by a thread once
\* the control is gone.
THEOREM ChecksEnd == Spec => []NoCheckOutlives
  <1>1. IndInv => NoCheckOutlives
    BY NothingTaken DEF IndInv, Quiet, NoCheckOutlives, NoBatchLeft, Busy
  <1> QED BY <1>1, Invariance, PTL

\* The constructor's assertion never fails: between two blocks every thread
\* that is counted is idle, nothing is to do and no result is left.
THEOREM UnusedAtStart == Spec => []QueueUnusedAtStart
  <1>1. IndInv => QueueUnusedAtStart
    <2> SUFFICES ASSUME IndInv, pc[Master] = "outside" PROVE IsIdle
      BY DEF QueueUnusedAtStart
    <2>1. nTodo = 0 /\ fAllOk /\ \A t \in Thread : pc[t] \notin Busy
      BY NothingTaken DEF IndInv, Quiet
    <2>2. {t \in Thread : pc[t] \in InWait} = {t \in Thread : pc[t] \in InWait \cup Busy}
      BY <2>1
    <2> QED BY <2>1, <2>2 DEF IndInv, LoopCounted, CountAt, IsIdle
  <1> QED BY <1>1, Invariance, PTL
=============================================================================
