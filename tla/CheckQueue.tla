----------------------------- MODULE CheckQueue -----------------------------
(***************************************************************************)
(* CCheckQueue and CCheckQueueControl (checkqueue.h): the pool of threads  *)
(* that verifies the scripts of a block.  A master takes ControlMutex,     *)
(* adds checks, then joins the workers until every check has completed.    *)
(*                                                                         *)
(* One action per critical section of `mutex'.  The checks are a set, not  *)
(* a stack: their order does not matter (checkqueue.h 43).                 *)
(***************************************************************************)
EXTENDS Integers, FiniteSets

CONSTANTS
  Worker,      \* threads that run Thread()
  Master,      \* threads that construct a CCheckQueueControl
  NoMaster,    \* ControlMutex is free
  Job,         \* checks
  nBatchSize

Thread == Worker \cup Master

ASSUME QueueAssumption ==
  /\ Worker \cap Master = {} /\ NoMaster \notin Master
  /\ IsFiniteSet(Thread) /\ IsFiniteSet(Job)
  /\ nBatchSize \in Nat \ {0}

VARIABLES
  queue,    \* the checks to be processed
  nIdle,
  nTotal,
  fAllOk,
  nTodo,
  control,  \* who holds ControlMutex
  added,    \* the checks added since ControlMutex was taken
  bad,      \* the checks that return false
  pc,       \* where each thread is
  vChecks,  \* the batch of each thread; its size is nNow
  fOk,      \* the result of that batch
  fRet      \* what Wait() last returned to each master

shared == <<queue, nIdle, nTotal, fAllOk, nTodo>>
vars == <<shared, control, added, bad, pc, vChecks, fOk, fRet>>

\* "out", "control" and "done" are the master outside the loop: without, with
\* ControlMutex before, and after Wait().  A thread then is about to lock the
\* mutex for the first time ("enter"), asleep ("wait"), notified ("woken"),
\* with a batch to run ("work") or to account for ("clean"), or interrupted.
PC == {"out", "control", "done", "enter", "wait", "woken", "work", "clean", "gone"}

TypeOK ==
  /\ queue \subseteq Job /\ nIdle \in Nat /\ nTotal \in Nat
  /\ fAllOk \in BOOLEAN /\ nTodo \in Nat
  /\ control \in Master \cup {NoMaster}
  /\ added \subseteq Job /\ bad \subseteq Job
  /\ pc \in [Thread -> PC]
  /\ vChecks \in [Thread -> SUBSET Job]
  /\ fOk \in [Thread -> BOOLEAN]
  /\ fRet \in [Master -> BOOLEAN]

Init ==
  /\ queue = {} /\ nIdle = 0 /\ nTotal = 0 /\ fAllOk = TRUE /\ nTodo = 0
  /\ control = NoMaster /\ added = {} /\ bad \in SUBSET Job
  /\ pc = [t \in Thread |-> IF t \in Worker THEN "enter" ELSE "out"]
  /\ vChecks = [t \in Thread |-> {}]
  /\ fOk = [t \in Thread |-> TRUE]
  /\ fRet = [m \in Master |-> TRUE]

-----------------------------------------------------------------------------
(* CCheckQueueControl                                                      *)

\* The constructor; the checks of the next block are new ones.
TakeControl(m) ==
  /\ pc[m] = "out" /\ control = NoMaster
  /\ control' = m
  /\ added' = {}
  /\ bad' \in SUBSET Job
  /\ pc' = [pc EXCEPT ![m] = "control"]
  /\ UNCHANGED <<shared, vChecks, fOk, fRet>>

Sleeping == {w \in Worker : pc[w] = "wait"}

\* condWorker.notify_one or notify_all wakes the threads W.
Notifies(n, W) ==
  IF n = 1 /\ Sleeping # {}
  THEN \E w \in Sleeping : W = {w}
  ELSE W = Sleeping

Add(m, S) ==
  /\ pc[m] = "control"
  /\ S # {} /\ S \subseteq Job \ added
  /\ queue' = queue \cup S
  /\ added' = added \cup S
  /\ nTodo' = nTodo + Cardinality(S)
  /\ \E W \in SUBSET Sleeping :
       /\ Notifies(Cardinality(S), W)
       /\ pc' = [t \in Thread |-> IF t \in W THEN "woken" ELSE pc[t]]
  /\ UNCHANGED <<nIdle, nTotal, fAllOk, control, bad, vChecks, fOk, fRet>>

\* Wait(), called by ConnectBlock or, after an error, by the destructor
Wait(m) ==
  /\ pc[m] = "control"
  /\ pc' = [pc EXCEPT ![m] = "enter"]
  /\ UNCHANGED <<shared, control, added, bad, vChecks, fOk, fRet>>

ReleaseControl(m) ==
  /\ pc[m] = "done"
  /\ control' = NoMaster
  /\ pc' = [pc EXCEPT ![m] = "out"]
  /\ UNCHANGED <<shared, added, bad, vChecks, fOk, fRet>>

-----------------------------------------------------------------------------
(* Loop                                                                    *)

AtLeast(a, b) == IF a >= b THEN a ELSE b
AtMost(a, b) == IF a <= b THEN a ELSE b

\* A plausible mistake: no lower bound.
BatchSizeZero(size, total, idle) == AtMost(nBatchSize, size \div (total + idle + 1))

BatchSize(size, total, idle) ==
  AtLeast(1, AtMost(nBatchSize, size \div (total + idle + 1)))

(***************************************************************************)
(* The rest of a critical section, from "logically, the do loop starts     *)
(* here": thread t has the mutex; total, idle, allOk, todo and pcs are     *)
(* what the part before has made of nTotal, nIdle, fAllOk, nTodo and pc.   *)
(***************************************************************************)
Return(t, total, idle, allOk, todo, pcs) ==
  /\ queue = {} /\ t \in Master /\ todo = 0
  /\ nTotal' = total - 1
  /\ fRet' = [fRet EXCEPT ![t] = allOk]
  /\ fAllOk' = TRUE
  /\ pc' = [pcs EXCEPT ![t] = "done"]
  /\ vChecks' = [vChecks EXCEPT ![t] = {}]
  /\ nIdle' = idle /\ nTodo' = todo
  /\ UNCHANGED <<queue, fOk>>

Sleep(t, total, idle, allOk, todo, pcs) ==
  /\ queue = {} /\ ~(t \in Master /\ todo = 0)
  /\ nIdle' = idle + 1
  /\ pc' = [pcs EXCEPT ![t] = "wait"]
  /\ vChecks' = [vChecks EXCEPT ![t] = {}]
  /\ nTotal' = total /\ fAllOk' = allOk /\ nTodo' = todo
  /\ UNCHANGED <<queue, fOk, fRet>>

TakeBatch(t, total, idle, allOk, todo, pcs) ==
  /\ queue # {}
  /\ \E S \in SUBSET queue :
       /\ Cardinality(S) = BatchSize(Cardinality(queue), total, idle)
       /\ queue' = queue \ S
       /\ vChecks' = [vChecks EXCEPT ![t] = S]
  /\ fOk' = [fOk EXCEPT ![t] = allOk]
  /\ pc' = [pcs EXCEPT ![t] = "work"]
  /\ nTotal' = total /\ nIdle' = idle /\ fAllOk' = allOk /\ nTodo' = todo
  /\ UNCHANGED fRet

DoLoop(t, total, idle, allOk, todo, pcs) ==
  /\ \/ Return(t, total, idle, allOk, todo, pcs)
     \/ Sleep(t, total, idle, allOk, todo, pcs)
     \/ TakeBatch(t, total, idle, allOk, todo, pcs)
  /\ UNCHANGED <<control, added, bad>>

\* First iteration
Enter(t) ==
  /\ pc[t] = "enter"
  /\ DoLoop(t, nTotal + 1, nIdle, fAllOk, nTodo, pc)

\* condMaster.notify_one: only the master in Wait() can be waiting on it.
NotifyMaster == [t \in Thread |-> IF t \in Master /\ pc[t] = "wait" THEN "woken" ELSE pc[t]]

\* A plausible mistake: the result of the batch is assigned, not accumulated.
CleanUpAssign(t) ==
  /\ pc[t] = "clean"
  /\ LET todo == nTodo - Cardinality(vChecks[t])
         pcs  == IF todo = 0 /\ t \in Worker THEN NotifyMaster ELSE pc
     IN  DoLoop(t, nTotal, nIdle, fOk[t], todo, pcs)

\* Clean-up of the previous loop run
CleanUp(t) ==
  /\ pc[t] = "clean"
  /\ LET todo == nTodo - Cardinality(vChecks[t])
         pcs  == IF todo = 0 /\ t \in Worker THEN NotifyMaster ELSE pc
     IN  DoLoop(t, nTotal, nIdle, fAllOk /\ fOk[t], todo, pcs)

\* cond.wait returns
WakeUp(t) ==
  /\ pc[t] = "woken"
  /\ DoLoop(t, nTotal, nIdle - 1, fAllOk, nTodo, pc)

\* "execute work": once a check has failed, the others are skipped.
Execute(t) ==
  /\ pc[t] = "work"
  /\ fOk' = [fOk EXCEPT ![t] = @ /\ vChecks[t] \cap bad = {}]
  /\ pc' = [pc EXCEPT ![t] = "clean"]
  /\ UNCHANGED <<shared, control, added, bad, vChecks, fRet>>

\* cond.wait may return without a notification.
SpuriousWakeUp(t) ==
  /\ pc[t] = "wait"
  /\ pc' = [pc EXCEPT ![t] = "woken"]
  /\ UNCHANGED <<shared, control, added, bad, vChecks, fOk, fRet>>

\* threadGroup.interrupt_all(): boost's wait throws, before nIdle--.
Interrupt(w) ==
  /\ pc[w] \in {"wait", "woken"}
  /\ pc' = [pc EXCEPT ![w] = "gone"]
  /\ UNCHANGED <<shared, control, added, bad, vChecks, fOk, fRet>>

Run(t) == Enter(t) \/ CleanUp(t) \/ WakeUp(t) \/ Execute(t)

Next ==
  \/ \E m \in Master :
       \/ TakeControl(m) \/ Wait(m) \/ ReleaseControl(m)
       \/ \E S \in SUBSET Job : Add(m, S)
  \/ \E t \in Thread : Run(t) \/ SpuriousWakeUp(t)
  \/ \E w \in Worker : Interrupt(w)

(***************************************************************************)
(* A thread that can lock the mutex or run a check does so: no critical    *)
(* section blocks, and checks terminate.  A master that has ControlMutex   *)
(* gets to Wait(), if only through the destructor, and then releases it.   *)
(***************************************************************************)
Fairness ==
  /\ \A t \in Thread : WF_vars(Run(t))
  /\ \A m \in Master : WF_vars(Wait(m)) /\ WF_vars(ReleaseControl(m))

Spec == Init /\ [][Next]_vars
FairSpec == Spec /\ Fairness

-----------------------------------------------------------------------------

(***************************************************************************)
(* nTodo counts exactly the checks that are queued or in some thread's     *)
(* batch, and none of them is in two places (checkqueue.h 55-59).          *)
(***************************************************************************)
Outstanding == queue \cup UNION {vChecks[t] : t \in Thread}

Accounting ==
  /\ nTodo = Cardinality(Outstanding)
  /\ \A t \in Thread : vChecks[t] \cap queue = {}
  /\ \A t, u \in Thread : t # u => vChecks[t] \cap vChecks[u] = {}

(***************************************************************************)
(* Wait() returns true exactly if every check the master added returns     *)
(* true, whichever threads ran them in whichever batches, and whatever the *)
(* previous user of the queue left behind (checkqueue.h 89-95, 138).       *)
(***************************************************************************)
VerdictCorrect ==
  \A m \in Master : pc[m] = "done" => (fRet[m] <=> added \cap bad = {})

(***************************************************************************)
(* "passed queue is supposed to be unused" (checkqueue.h 182): a master    *)
(* that takes ControlMutex finds no check queued, in progress or counted,  *)
(* and no verdict of an earlier block.                                     *)
(***************************************************************************)
UnusedWhenFree ==
  control = NoMaster => Outstanding = {} /\ nTodo = 0 /\ fAllOk

(***************************************************************************)
(* The master sleeps only while some worker has a batch, whose clean-up    *)
(* will notify it: no wake-up is lost (checkqueue.h 80-82, 89-98).         *)
(***************************************************************************)
NoLostWakeUp ==
  \A m \in Master : pc[m] = "wait" => \E w \in Worker : vChecks[w] # {}

(***************************************************************************)
(* "guarantees the passed queue is finished before continuing"             *)
(* (checkqueue.h 166): a master that holds ControlMutex gets its verdict   *)
(* and releases it, even if workers are interrupted meanwhile.             *)
(***************************************************************************)
ControlEnds ==
  \A m \in Master : (control = m) ~> (control # m)
=============================================================================
