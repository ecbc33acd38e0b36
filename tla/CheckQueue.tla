----------------------------- MODULE CheckQueue -----------------------------
(***************************************************************************)
(* CCheckQueue and CCheckQueueControl (checkqueue.h): the script checks of *)
(* a block, spread over worker threads.  The master, the thread that runs  *)
(* ConnectBlock, adds checks batch by batch and then joins the workers in  *)
(* Wait until all are done.  A check is the Boolean it will return.        *)
(*                                                                         *)
(* Every critical section of the mutex is one step; a batch is executed    *)
(* between two of them.  A thread in cond.wait is "waiting" until it is    *)
(* notified, wakes spuriously or, a worker at shutdown, is interrupted;    *)
(* "woken" it competes for the mutex again.                                *)
(*                                                                         *)
(* `bad' is a history variable: whether a check that fails was added since *)
(* the CCheckQueueControl was made.                                        *)
(***************************************************************************)
EXTENDS Integers, Sequences, FiniteSets

CONSTANTS Worker,      \* the worker threads
          Master,      \* the thread that validates blocks
          nBatchSize,  \* the most checks a thread takes at once
          MaxChecks    \* bound: checks added between two Waits

ASSUME CheckQueueAssumption ==
    /\ IsFiniteSet(Worker)
    /\ Master \notin Worker
    /\ nBatchSize \in Nat \ {0}
    /\ MaxChecks \in Nat

Thread == Worker \cup {Master}

VARIABLES queue,    \* the queue, the back last
          nIdle,    \* threads that are idle
          nTotal,   \* threads in Loop
          fAllOk,   \* the temporary result
          nTodo,    \* checks that have not completed
          pc,       \* where each thread is
          vChecks,  \* the batch each thread took
          nNow,     \* its size, still known when the batch is done
          fOk,      \* the result of each thread's batch
          bad,      \* history: a failing check was added
          added,    \* checks added since the control was made
          verdict   \* the last result of Wait

shared == <<queue, nIdle, nTotal, fAllOk, nTodo>>
local == <<pc, vChecks, nNow, fOk>>
vars == <<shared, local, bad, added, verdict>>

Place == {"outside", "adding", "enter", "waiting", "woken", "working", "done", "gone"}

TypeOK ==
    /\ queue \in Seq(BOOLEAN) /\ Len(queue) <= MaxChecks
    /\ nIdle \in 0 .. Cardinality(Thread)
    /\ nTotal \in 0 .. Cardinality(Thread)
    /\ fAllOk \in BOOLEAN
    /\ nTodo \in 0 .. MaxChecks
    /\ pc \in [Thread -> Place]
    /\ vChecks \in [Thread -> Seq(BOOLEAN)]
    /\ \A t \in Thread : Len(vChecks[t]) <= nBatchSize
    /\ nNow \in [Thread -> 0 .. nBatchSize]
    /\ fOk \in [Thread -> BOOLEAN]
    /\ bad \in BOOLEAN
    /\ added \in 0 .. MaxChecks
    /\ verdict \in [ok : BOOLEAN, bad : BOOLEAN]

Init ==
    /\ queue = <<>>
    /\ nIdle = 0 /\ nTotal = 0 /\ nTodo = 0
    /\ fAllOk = TRUE
    /\ pc = [t \in Thread |-> "outside"]
    /\ vChecks = [t \in Thread |-> <<>>]
    /\ nNow = [t \in Thread |-> 0]
    /\ fOk = [t \in Thread |-> TRUE]
    /\ bad = FALSE
    /\ added = 0
    /\ verdict = [ok |-> TRUE, bad |-> FALSE]

Least(a, b) == IF a < b THEN a ELSE b
Most(a, b) == IF a > b THEN a ELSE b

All(s) == \A i \in DOMAIN s : s[i]

-----------------------------------------------------------------------------
(* Loop: one critical section of thread t.  The section is entered from    *)
(* "enter" (first iteration), "done" (after a batch) or "woken" (from      *)
(* cond.wait), and left to return, to wait, or with a batch.               *)

\* The clean-up of the previous run of the loop.
TodoAfter(t) == IF pc[t] = "done" THEN nTodo - nNow[t] ELSE nTodo
OkAfter(t) == IF pc[t] = "done" THEN fAllOk /\ fOk[t] ELSE fAllOk
TotalAfter(t) == IF pc[t] = "enter" THEN nTotal + 1 ELSE nTotal
IdleAfter(t) == IF pc[t] = "woken" THEN nIdle - 1 ELSE nIdle

MutantNotifiesNobody(t) == FALSE

\* "We processed the last element; inform the master".
NotifiesMaster(t) ==
    /\ pc[t] = "done" /\ t # Master
    /\ TodoAfter(t) = 0
    /\ pc[Master] = "waiting"

\* Where the threads are once t is at `place'.
Placed(t, place) ==
    [u \in Thread |-> CASE u = t -> place
                        [] u # t /\ u = Master /\ NotifiesMaster(t) -> "woken"
                        [] OTHER -> pc[u]]

MutantMayReturnEarly(t) == t = Master /\ queue = <<>>

\* The condition to return; fQuit is never set, so that workers do not.
MayReturn(t) == t = Master /\ queue = <<>> /\ TodoAfter(t) = 0

MutantReturnKeepsResult(t) ==
    /\ pc[t] \in {"enter", "woken", "done"}
    /\ MayReturn(t)
    /\ verdict' = [ok |-> OkAfter(t), bad |-> bad]
    /\ fAllOk' = OkAfter(t)
    /\ nTotal' = TotalAfter(t) - 1
    /\ nIdle' = IdleAfter(t)
    /\ nTodo' = TodoAfter(t)
    /\ pc' = [pc EXCEPT ![t] = "outside"]
    /\ nNow' = [nNow EXCEPT ![t] = 0]
    /\ UNCHANGED <<queue, vChecks, fOk, bad, added>>

MutantReturnStaysCounted(t) ==
    /\ pc[t] \in {"enter", "woken", "done"}
    /\ MayReturn(t)
    /\ verdict' = [ok |-> OkAfter(t), bad |-> bad]
    /\ fAllOk' = TRUE
    /\ nTotal' = TotalAfter(t)
    /\ nIdle' = IdleAfter(t)
    /\ nTodo' = TodoAfter(t)
    /\ pc' = [pc EXCEPT ![t] = "outside"]
    /\ nNow' = [nNow EXCEPT ![t] = 0]
    /\ UNCHANGED <<queue, vChecks, fOk, bad, added>>

LoopReturns(t) ==
    /\ pc[t] \in {"enter", "woken", "done"}
    /\ MayReturn(t)
    /\ verdict' = [ok |-> OkAfter(t), bad |-> bad]
    /\ fAllOk' = TRUE
    /\ nTotal' = TotalAfter(t) - 1
    /\ nIdle' = IdleAfter(t)
    /\ nTodo' = TodoAfter(t)
    /\ pc' = [pc EXCEPT ![t] = "outside"]
    /\ nNow' = [nNow EXCEPT ![t] = 0]
    /\ UNCHANGED <<queue, vChecks, fOk, bad, added>>

LoopWaits(t) ==
    /\ pc[t] \in {"enter", "woken", "done"}
    /\ queue = <<>>
    /\ ~MayReturn(t)
    /\ fAllOk' = OkAfter(t)
    /\ nTotal' = TotalAfter(t)
    /\ nIdle' = IdleAfter(t) + 1
    /\ nTodo' = TodoAfter(t)
    /\ pc' = Placed(t, "waiting")
    /\ UNCHANGED <<queue, vChecks, nNow, fOk, bad, added, verdict>>

\* How many checks t takes: fewer while others are about to help.
BatchOf(t) ==
    Most(1, Least(nBatchSize, Len(queue) \div (TotalAfter(t) + IdleAfter(t) + 1)))

LoopTakes(t) ==
    /\ pc[t] \in {"enter", "woken", "done"}
    /\ queue # <<>>
    /\ LET n == BatchOf(t)
           rest == Len(queue) - n
       IN  /\ nNow' = [nNow EXCEPT ![t] = n]
           /\ vChecks' = [vChecks EXCEPT ![t] = SubSeq(queue, rest + 1, Len(queue))]
           /\ queue' = SubSeq(queue, 1, rest)
    /\ fAllOk' = OkAfter(t)
    /\ fOk' = [fOk EXCEPT ![t] = OkAfter(t)]
    /\ nTotal' = TotalAfter(t)
    /\ nIdle' = IdleAfter(t)
    /\ nTodo' = TodoAfter(t)
    /\ pc' = Placed(t, "working")
    /\ UNCHANGED <<bad, added, verdict>>

Loop(t) == LoopReturns(t) \/ LoopWaits(t) \/ LoopTakes(t)

\* "execute work": nothing more is checked once something has failed.
Execute(t) ==
    /\ pc[t] = "working"
    /\ fOk' = [fOk EXCEPT ![t] = fOk[t] /\ All(vChecks[t])]
    /\ vChecks' = [vChecks EXCEPT ![t] = <<>>]
    /\ pc' = [pc EXCEPT ![t] = "done"]
    /\ UNCHANGED <<shared, nNow, bad, added, verdict>>

\* cond.wait returns without a notification.
SpuriousWake(t) ==
    /\ pc[t] = "waiting"
    /\ pc' = [pc EXCEPT ![t] = "woken"]
    /\ UNCHANGED <<shared, vChecks, nNow, fOk, bad, added, verdict>>

-----------------------------------------------------------------------------
(* The workers' threads.                                                   *)

\* ThreadScriptCheck calls Thread(), which calls Loop.
StartWorker(w) ==
    /\ pc[w] = "outside"
    /\ pc' = [pc EXCEPT ![w] = "enter"]
    /\ UNCHANGED <<shared, vChecks, nNow, fOk, bad, added, verdict>>

\* Shutdown interrupts the threads: cond.wait throws in a worker that waits
\* (or was just notified), and nIdle and nTotal keep counting it.
InterruptWorker(w) ==
    /\ pc[w] \in {"waiting", "woken"}
    /\ pc' = [pc EXCEPT ![w] = "gone"]
    /\ UNCHANGED <<shared, vChecks, nNow, fOk, bad, added, verdict>>

-----------------------------------------------------------------------------
(* The master: CCheckQueueControl in ConnectBlock.                         *)

\* CCheckQueue::IsIdle.
IsIdle == nTotal = nIdle /\ nTodo = 0 /\ fAllOk

\* The constructor asserts that the queue is idle (see QueueUnusedAtStart).
MakeControl ==
    /\ pc[Master] = "outside"
    /\ pc' = [pc EXCEPT ![Master] = "adding"]
    /\ bad' = FALSE
    /\ added' = 0
    /\ UNCHANGED <<shared, vChecks, nNow, fOk, verdict>>

MutantAddCountsOne(checks) ==
    /\ pc[Master] = "adding"
    /\ added + Len(checks) <= MaxChecks
    /\ queue' = queue \o checks
    /\ nTodo' = nTodo + 1
    /\ added' = added + Len(checks)
    /\ bad' = (bad \/ ~All(checks))
    /\ \/ /\ Len(checks) = 1
          /\ \E w \in Worker : /\ pc[w] = "waiting"
                               /\ pc' = [pc EXCEPT ![w] = "woken"]
       \/ /\ Len(checks) # 1 \/ \A w \in Worker : pc[w] # "waiting"
          /\ pc' = [t \in Thread |->
                      IF t \in Worker /\ pc[t] = "waiting" /\ Len(checks) > 1
                      THEN "woken" ELSE pc[t]]
    /\ UNCHANGED <<nIdle, nTotal, fAllOk, vChecks, nNow, fOk, verdict>>

\* Add: one new check wakes one worker, more wake all of them.
Add(checks) ==
    /\ pc[Master] = "adding"
    /\ added + Len(checks) <= MaxChecks
    /\ queue' = queue \o checks
    /\ nTodo' = nTodo + Len(checks)
    /\ added' = added + Len(checks)
    /\ bad' = (bad \/ ~All(checks))
    /\ \/ /\ Len(checks) = 1
          /\ \E w \in Worker : /\ pc[w] = "waiting"
                               /\ pc' = [pc EXCEPT ![w] = "woken"]
       \/ /\ Len(checks) # 1 \/ \A w \in Worker : pc[w] # "waiting"
          /\ pc' = [t \in Thread |->
                      IF t \in Worker /\ pc[t] = "waiting" /\ Len(checks) > 1
                      THEN "woken" ELSE pc[t]]
    /\ UNCHANGED <<nIdle, nTotal, fAllOk, vChecks, nNow, fOk, verdict>>

\* Wait, or the destructor of a control that was left early.
CallWait ==
    /\ pc[Master] = "adding"
    /\ pc' = [pc EXCEPT ![Master] = "enter"]
    /\ UNCHANGED <<shared, vChecks, nNow, fOk, bad, added, verdict>>

-----------------------------------------------------------------------------
\* The vectors of checks ConnectBlock adds: the inputs of one transaction.
Batches == UNION {[1 .. n -> BOOLEAN] : n \in 0 .. MaxChecks}

Next ==
    \/ \E t \in Thread : Loop(t) \/ Execute(t) \/ SpuriousWake(t)
    \/ \E w \in Worker : StartWorker(w) \/ InterruptWorker(w)
    \/ MakeControl
    \/ \E checks \in Batches : Add(checks)
    \/ CallWait

\* The scheduler runs every thread, and ConnectBlock comes to Wait.  Nothing
\* promises a spurious wake-up.
Fairness ==
    /\ \A t \in Thread : WF_vars(Loop(t)) /\ WF_vars(Execute(t))
    /\ WF_vars(CallWait)

Spec == Init /\ [][Next]_vars /\ Fairness

-----------------------------------------------------------------------------
(* Properties.                                                             *)

\* Wait answers for exactly the checks added since the control was made: TRUE
\* if and only if none of them fails, whoever executed or skipped them, and
\* whatever an earlier block left behind.
VerdictExact == verdict.ok = ~verdict.bad

\* The checks point into the block: outside of a control's life no thread
\* holds one and none is queued.
NoCheckOutlives ==
    pc[Master] = "outside"
        => queue = <<>> /\ \A t \in Thread : vChecks[t] = <<>>

\* The assertion of the constructor ("passed queue is supposed to be unused")
\* holds for every block: once Wait has returned, every worker that is counted
\* is idle, one that starts late, was just woken for nothing or was interrupted
\* included.
QueueUnusedAtStart ==
    pc[Master] = "outside" => IsIdle

\* Wait returns: no wake-up is lost, even when the workers go away.
WaitReturns == pc[Master] = "enter" ~> pc[Master] = "outside"
=============================================================================
