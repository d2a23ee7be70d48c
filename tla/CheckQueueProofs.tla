-------------------------- MODULE CheckQueueProofs --------------------------
(***************************************************************************)
(* The safety properties of CheckQueue for any number of workers, masters  *)
(* and checks and any batch size.                                          *)
(*                                                                         *)
(* A critical section of `mutex' has two parts: what the thread does first *)
(* (it joins, wakes up, or accounts for its batch) and the rest of the     *)
(* loop, DoLoop.  Entered says what holds between the two; the lemmas      *)
(* Enters, WakesUp and CleansUp establish it, and LoopStep shows that      *)
(* DoLoop re-establishes the invariant from it.                            *)
(***************************************************************************)
EXTENDS CheckQueue, FiniteSetTheorems, TLAPS

Idle == {t \in Thread : pc[t] \in {"wait", "woken", "gone"}}
Joined == {t \in Thread : pc[t] \in {"wait", "woken", "work", "clean", "gone"}}

\* nIdle and nTotal count threads; those that were interrupted stay counted.
Counts == nIdle = Cardinality(Idle) /\ nTotal = Cardinality(Joined)

\* A thread has a batch exactly between taking and accounting for it.
Batches == \A t \in Thread : vChecks[t] # {} <=> pc[t] \in {"work", "clean"}

\* Only the master that holds ControlMutex is inside.
Places ==
  /\ \A m \in Master : pc[m] # "gone" /\ (pc[m] = "out" <=> control # m)
  /\ \A w \in Worker : pc[w] \notin {"out", "control", "done"}

\* A master holds ControlMutex and does not have its verdict yet.
Busy == control # NoMaster /\ \A m \in Master : pc[m] # "done"

\* Otherwise nothing is left of its checks.
Quiet == ~Busy => Outstanding = {} /\ fAllOk

\* What the accumulated results say of the checks that are accounted for.
Results ==
  /\ Outstanding \subseteq added
  /\ ~fAllOk => added \cap bad # {}
  /\ Busy /\ fAllOk => (added \ Outstanding) \cap bad = {}
  /\ \A t \in Thread :
       /\ pc[t] \in {"work", "clean"} /\ ~fOk[t] => added \cap bad # {}
       /\ pc[t] = "clean" /\ fOk[t] => vChecks[t] \cap bad = {}

IInv ==
  /\ TypeOK /\ Counts /\ Accounting /\ Batches /\ Places /\ Quiet /\ Results
  /\ VerdictCorrect /\ NoLostWakeUp

\* The checks outstanding beside those of t
Others(t) == queue \cup UNION {vChecks[u] : u \in Thread \ {t}}

Entered(t, total, idle, allOk, todo, pcs) ==
  /\ pc[t] \in {"enter", "woken", "clean"}
  /\ total = Cardinality(Joined \cup {t}) /\ idle = Cardinality(Idle \ {t})
  /\ todo = Cardinality(Others(t))
  /\ allOk \in BOOLEAN /\ (~allOk => added \cap bad # {})
  /\ (Busy /\ allOk => (added \ Others(t)) \cap bad = {})
  /\ (~Busy => allOk)
  /\ pcs \in [Thread -> PC]
  /\ \A u \in Thread \ {t} :
       pcs[u] = pc[u] \/ (u \in Master /\ pc[u] = "wait" /\ pcs[u] = "woken")
  /\ \A m \in Master \ {t} : pcs[m] = "wait" => todo # 0

-----------------------------------------------------------------------------
(* Sets of threads and checks are finite, and their sizes numbers.         *)
LEMMA Sizes ==
  /\ \A S \in SUBSET Thread : IsFiniteSet(S) /\ Cardinality(S) \in Nat
  /\ \A S \in SUBSET Job : IsFiniteSet(S) /\ Cardinality(S) \in Nat
BY FS_Subset, FS_CardinalityType, QueueAssumption

(* Two disjoint sets of checks count as the sum.                           *)
LEMMA DisjointSum ==
  ASSUME NEW S \in SUBSET Job, NEW T \in SUBSET Job, S \cap T = {}
  PROVE  Cardinality(S \cup T) = Cardinality(S) + Cardinality(T)
<1>1. IsFiniteSet(S) /\ IsFiniteSet(T) /\ Cardinality(S) \in Nat /\ Cardinality(T) \in Nat
  BY Sizes
<1>2. Cardinality(S \cup T) = Cardinality(S) + Cardinality(T) - Cardinality(S \cap T)
  BY <1>1, FS_Union
<1>3. Cardinality(S \cap T) = 0
  BY FS_EmptySet
<1> QED
  BY <1>1, <1>2, <1>3

(* A batch is never empty (checkqueue.h 106: max(1U, ...)).                *)
LEMMA BatchPositive ==
  ASSUME NEW size \in Nat, NEW total \in Nat, NEW idle \in Nat
  PROVE  BatchSize(size, total, idle) \in Nat \ {0}
<1>1. total + idle + 1 \in Nat \ {0}
  OBVIOUS
<1>2. size \div (total + idle + 1) \in Int
  BY <1>1
<1> QED
  BY <1>2, QueueAssumption DEF BatchSize, AtLeast, AtMost

(* The checks of t and the other outstanding ones are apart, and nTodo     *)
(* counts both.                                                            *)
LEMMA Split ==
  ASSUME TypeOK, Accounting, NEW t \in Thread
  PROVE  /\ Others(t) \subseteq Job
         /\ Outstanding = Others(t) \cup vChecks[t]
         /\ Others(t) \cap vChecks[t] = {}
         /\ Cardinality(Others(t)) = nTodo - Cardinality(vChecks[t])
<1>1. Others(t) \subseteq Job /\ vChecks[t] \subseteq Job
  BY DEF TypeOK, Others
<1>2. Outstanding = Others(t) \cup vChecks[t]
  BY DEF Outstanding, Others
<1>3. Others(t) \cap vChecks[t] = {}
  BY DEF Accounting, Others
<1>4. Cardinality(Outstanding) = Cardinality(Others(t)) + Cardinality(vChecks[t])
  BY <1>1, <1>2, <1>3, DisjointSum
<1> QED
  BY <1>1, <1>2, <1>3, <1>4, Sizes DEF Accounting

(* However the section ends, what the other threads have, and what is      *)
(* queued or taken by t, is what was outstanding beside the old batch.     *)
LEMMA LoopOutstanding ==
  ASSUME TypeOK, NEW t \in Thread,
         NEW total, NEW idle, NEW allOk, NEW todo, NEW pcs,
         DoLoop(t, total, idle, allOk, todo, pcs)
  PROVE  Outstanding' = Others(t)
<1>1. CASE queue = {}
  <2>1. queue' = {} /\ vChecks' = [vChecks EXCEPT ![t] = {}]
    BY <1>1 DEF DoLoop, Return, Sleep, TakeBatch
  <2> QED
    BY <2>1, <1>1 DEF Outstanding, Others, TypeOK
<1>2. CASE queue # {}
  <2>1. PICK S \in SUBSET queue :
          queue' = queue \ S /\ vChecks' = [vChecks EXCEPT ![t] = S]
    BY <1>2 DEF DoLoop, Return, Sleep, TakeBatch
  <2>2. Outstanding' = (queue \ S) \cup (S \cup UNION {vChecks[u] : u \in Thread \ {t}})
    BY <2>1 DEF Outstanding, TypeOK
  <2> QED
    BY <2>2 DEF Others
<1> QED
  BY <1>1, <1>2

-----------------------------------------------------------------------------
(* The rest of a critical section keeps the invariant.                     *)
LEMMA LoopStep ==
  ASSUME IInv, NEW t \in Thread,
         NEW total, NEW idle, NEW allOk, NEW todo, NEW pcs,
         Entered(t, total, idle, allOk, todo, pcs),
         DoLoop(t, total, idle, allOk, todo, pcs)
  PROVE  IInv'
<1> DEFINE ret == Return(t, total, idle, allOk, todo, pcs)
           slp == Sleep(t, total, idle, allOk, todo, pcs)
           take == TakeBatch(t, total, idle, allOk, todo, pcs)
<1>0. TypeOK /\ t \in Worker \cup Master /\ Worker \cap Master = {} /\ NoMaster \notin Master
  BY QueueAssumption DEF IInv, Thread
<1>a. ret \/ slp \/ take
  BY DEF DoLoop
<1>b. control' = control /\ added' = added /\ bad' = bad
  BY DEF DoLoop
<1>1. /\ Others(t) \subseteq Job /\ Outstanding' = Others(t)
      /\ Outstanding = Others(t) \cup vChecks[t]
  BY Split, LoopOutstanding DEF IInv
<1>2. todo \in Nat /\ (todo = 0 <=> Others(t) = {})
  BY <1>1, Sizes, FS_EmptySet DEF Entered
<1>3. total \in Nat \ {0} /\ idle \in Nat
  <2>1. Joined \cup {t} \in SUBSET Thread /\ Idle \ {t} \in SUBSET Thread
    BY DEF Joined, Idle
  <2>2. Cardinality(Joined \cup {t}) # 0
    BY <2>1, Sizes, FS_EmptySet
  <2> QED
    BY <2>1, <2>2, Sizes DEF Entered
<1>4. pcs \in [Thread -> PC] /\ allOk \in BOOLEAN
  BY DEF Entered
<1>5. \A u \in Thread \ {t} :
         /\ pc'[u] = pcs[u] /\ vChecks'[u] = vChecks[u] /\ fOk'[u] = fOk[u]
         /\ u \in Master => fRet'[u] = fRet[u]
         /\ pcs[u] = pc[u] \/ (u \in Master /\ pc[u] = "wait" /\ pcs[u] = "woken")
  BY <1>0, <1>4, <1>a DEF Entered, TypeOK, Return, Sleep, TakeBatch
<1>6. \/ /\ ret /\ queue = {} /\ queue' = {} /\ t \in Master /\ todo = 0
         /\ pc'[t] = "done" /\ vChecks'[t] = {}
         /\ fAllOk' = TRUE /\ fRet'[t] = allOk /\ fOk'[t] = fOk[t]
      \/ /\ slp /\ queue = {} /\ queue' = {} /\ ~(t \in Master /\ todo = 0)
         /\ pc'[t] = "wait" /\ vChecks'[t] = {}
         /\ fAllOk' = allOk /\ fRet' = fRet /\ fOk'[t] = fOk[t]
      \/ /\ take /\ queue # {} /\ queue' = queue \ vChecks'[t]
         /\ vChecks'[t] \subseteq queue /\ vChecks'[t] # {}
         /\ pc'[t] = "work" /\ fAllOk' = allOk /\ fRet' = fRet /\ fOk'[t] = allOk
  <2>1. CASE ret
    BY <2>1, <1>0, <1>4 DEF Return, TypeOK
  <2>2. CASE slp
    BY <2>2, <1>0, <1>4 DEF Sleep, TypeOK
  <2>3. CASE take
    <3>1. PICK S \in SUBSET queue :
            /\ Cardinality(S) = BatchSize(Cardinality(queue), total, idle)
            /\ queue' = queue \ S /\ vChecks' = [vChecks EXCEPT ![t] = S]
      BY <2>3, Zenon DEF TakeBatch
    <3>2. Cardinality(queue) \in Nat
      BY <1>0, Sizes DEF TypeOK
    <3>3. S # {}
      BY <3>1, <3>2, <1>3, BatchPositive, FS_EmptySet, Zenon
    <3>4. vChecks'[t] = S
      BY <3>1, <1>0 DEF TypeOK
    <3> QED
      BY <2>3, <3>1, <3>3, <3>4, <1>0, <1>4, Zenon DEF TakeBatch, TypeOK
  <2> QED
    BY <1>a, <2>1, <2>2, <2>3, Zenon
<1>7. nTodo' = todo
  BY <1>a DEF Return, Sleep, TakeBatch
<1>8. t \in Master => control = t /\ \A m \in Master \ {t} : pc[m] = "out"
  BY <1>0 DEF IInv, Places, Entered
<1>9. TypeOK'
  <2>1. pc' \in [Thread -> PC] /\ vChecks' \in [Thread -> SUBSET Job]
    BY <1>0, <1>4, <1>a DEF TypeOK, Return, Sleep, TakeBatch, PC
  <2>2. fOk' \in [Thread -> BOOLEAN] /\ fRet' \in [Master -> BOOLEAN] /\ fAllOk' \in BOOLEAN
    BY <1>0, <1>4, <1>a, Zenon DEF TypeOK, Return, Sleep, TakeBatch
  <2>3. queue' \subseteq Job /\ nIdle' \in Nat /\ nTotal' \in Nat
    BY <1>0, <1>3, <1>a DEF TypeOK, Return, Sleep, TakeBatch
  <2> QED
    BY <2>1, <2>2, <2>3, <1>0, <1>2, <1>7, <1>b DEF TypeOK
<1>10. Counts'
  <2>1. \A u \in Thread \ {t} : (u \in Idle' <=> u \in Idle) /\ (u \in Joined' <=> u \in Joined)
    BY <1>5 DEF Idle, Joined
  <2>2. /\ IsFiniteSet(Idle \ {t}) /\ IsFiniteSet(Joined \cup {t})
        /\ idle = Cardinality(Idle \ {t}) /\ total = Cardinality(Joined \cup {t})
    BY Sizes DEF Entered, Idle, Joined
  <2>3. CASE ret
    <3>1. Idle' = Idle \ {t} /\ Joined' = (Joined \cup {t}) \ {t}
      BY <2>1, <2>3, <1>6, Zenon DEF Idle, Joined, Return, Sleep, TakeBatch
    <3>2. Cardinality(Joined') = total - 1
      BY <3>1, <2>2, FS_RemoveElement, Zenon
    <3> QED
      BY <3>1, <3>2, <2>2, <2>3 DEF Counts, Return
  <2>4. CASE slp
    <3>1. Idle' = (Idle \ {t}) \cup {t} /\ Joined' = Joined \cup {t}
      BY <2>1, <2>4, <1>6 DEF Idle, Joined, Return, Sleep, TakeBatch
    <3>2. Cardinality(Idle') = idle + 1
      BY <3>1, <2>2, FS_AddElement, SMTT(30)
    <3> QED
      BY <3>1, <3>2, <2>2, <2>4 DEF Counts, Sleep
  <2>5. CASE take
    <3>1. Idle' = Idle \ {t} /\ Joined' = Joined \cup {t}
      BY <2>1, <2>5, <1>6 DEF Idle, Joined, Return, Sleep, TakeBatch
    <3> QED
      BY <3>1, <2>2, <2>5 DEF Counts, TakeBatch
  <2> QED
    BY <1>a, <2>3, <2>4, <2>5
<1>11. Accounting'
  <2>1. nTodo' = Cardinality(Outstanding')
    BY <1>1, <1>7 DEF Entered
  <2>2. vChecks'[t] \cap queue' = {} /\ vChecks'[t] \subseteq queue /\ queue' \subseteq queue
    BY <1>6
  <2>3. \A u \in Thread \ {t} : vChecks'[u] \cap queue = {} /\ vChecks'[u] = vChecks[u]
    BY <1>5 DEF IInv, Accounting
  <2>4. \A u \in Thread : vChecks'[u] \cap queue' = {}
    BY <2>2, <2>3
  <2>5. \A u, v \in Thread : u # v => vChecks'[u] \cap vChecks'[v] = {}
    BY <2>2, <2>3 DEF IInv, Accounting
  <2> QED
    BY <2>1, <2>4, <2>5, SMTT(30) DEF Accounting
<1>12. Batches'
  BY <1>5, <1>6 DEF IInv, Batches
<1>13. Places'
  BY <1>0, <1>5, <1>6, <1>8, <1>b DEF IInv, Places, Entered, Thread
<1>14. Busy' => Busy /\ ~ret
  <2>1. ret => t \in Master /\ pc'[t] = "done"
    BY <1>0, <1>4 DEF Return, TypeOK
  <2>2. Busy' => Busy
    BY <1>0, <1>5, <1>b DEF Busy, Entered, Thread
  <2> QED
    BY <2>1, <2>2 DEF Busy
<1>15. ~Busy' => ~Busy \/ ret
  BY <1>0, <1>5, <1>6, <1>b, SMTT(30) DEF Busy, Entered, Thread
<1>16. Quiet'
  <2>1. ret => Outstanding' = {} /\ fAllOk'
    BY <1>1, <1>2, <1>a DEF Return
  <2>2. ~Busy => Outstanding' = {} /\ fAllOk'
    BY <1>1, <1>6, Zenon DEF IInv, Quiet, Entered
  <2> QED
    BY <2>1, <2>2, <1>15 DEF Quiet
<1>17. Results'
  <2>1. Outstanding' \subseteq added'
    BY <1>1, <1>b DEF IInv, Results
  <2>2. ~fAllOk' => added' \cap bad' # {}
    BY <1>6, <1>b DEF Entered
  <2>3. Busy' /\ fAllOk' => (added' \ Outstanding') \cap bad' = {}
    BY <1>1, <1>6, <1>14, <1>b, Zenon DEF Entered
  <2>4. ASSUME NEW u \in Thread
        PROVE  /\ pc'[u] \in {"work", "clean"} /\ ~fOk'[u] => added' \cap bad' # {}
               /\ pc'[u] = "clean" /\ fOk'[u] => vChecks'[u] \cap bad' = {}
    <3>1. CASE u = t
      BY <3>1, <1>6, <1>b DEF Entered
    <3>2. CASE u # t
      BY <3>2, <1>5, <1>b DEF IInv, Results
    <3> QED
      BY <3>1, <3>2
  <2> QED
    BY <2>1, <2>2, <2>3, <2>4 DEF Results
<1>18. VerdictCorrect'
  <2> SUFFICES ASSUME NEW m \in Master, pc'[m] = "done"
               PROVE  fRet'[m] <=> added' \cap bad' = {}
    BY DEF VerdictCorrect
  <2>1. CASE m = t
    <3>1. Busy /\ Others(t) = {} /\ fRet'[t] = allOk
      BY <2>1, <1>0, <1>2, <1>6, <1>8, SMTT(30) DEF Busy, Entered
    <3> QED
      BY <3>1, <2>1, <1>4, <1>b DEF Entered
  <2>2. CASE m # t
    BY <2>2, <1>5, <1>b DEF IInv, VerdictCorrect, Thread
  <2> QED
    BY <2>1, <2>2
<1>19. NoLostWakeUp'
  <2> SUFFICES ASSUME NEW m \in Master, pc'[m] = "wait"
               PROVE  \E w \in Worker : vChecks'[w] # {}
    BY DEF NoLostWakeUp
  <2>1. m \in Thread /\ todo # 0 /\ (m = t => slp)
    BY <1>0, <1>5, <1>6, SMTT(30) DEF Entered, Thread
  <2>2. \A u \in Master : u # t => vChecks[u] = {}
    <3>1. control = m
      BY <1>0, <1>5, <1>8, <2>1, SMTT(30) DEF IInv, Places, Thread
    <3>2. \A u \in Master : u # m => pc[u] = "out"
      BY <3>1, SMTT(30) DEF IInv, Places
    <3>3. m # t => pc[m] = "wait"
      BY <1>5, <2>1, SMTT(30)
    <3> QED
      BY <3>2, <3>3 DEF IInv, Batches, Thread
  <2>3. CASE queue = {}
    <3>1. PICK u \in Thread \ {t} : vChecks[u] # {}
      BY <2>1, <2>3, <1>2 DEF Others
    <3> QED
      BY <3>1, <2>2, <1>5, SMTT(30) DEF Thread
  <2>4. CASE queue # {}
    <3>1. t # m /\ vChecks'[t] # {} /\ t \in Worker
      BY <2>1, <2>4, <1>0, <1>5, <1>6, <1>8, SMTT(30)
    <3> QED
      BY <3>1
  <2> QED
    BY <2>3, <2>4
<1> QED
  BY <1>9, <1>10, <1>11, <1>12, <1>13, <1>16, <1>17, <1>18, <1>19 DEF IInv

(* A master sleeps only if something is outstanding.                       *)
LEMMA AsleepOutstanding ==
  ASSUME IInv, NEW m \in Master, pc[m] = "wait"
  PROVE  Outstanding # {} /\ nTodo # 0
<1>1. PICK w \in Worker : vChecks[w] # {}
  BY DEF IInv, NoLostWakeUp
<1>2. Outstanding # {}
  BY <1>1 DEF Outstanding, Thread
<1>3. Outstanding \in SUBSET Job
  BY DEF IInv, TypeOK, Outstanding
<1> QED
  BY <1>2, <1>3, Sizes, FS_EmptySet DEF IInv, Accounting

(* A thread without a batch leaves the counts of checks as they are.       *)
LEMMA NoBatch ==
  ASSUME IInv, NEW t \in Thread, pc[t] \in {"enter", "woken"}
  PROVE  /\ Others(t) = Outstanding /\ nTodo = Cardinality(Others(t))
         /\ Busy /\ fAllOk => (added \ Others(t)) \cap bad = {}
         /\ ~Busy => fAllOk
         /\ fAllOk \in BOOLEAN /\ (~fAllOk => added \cap bad # {})
         /\ pc \in [Thread -> PC]
<1>1. vChecks[t] = {}
  BY SMTT(30) DEF IInv, Batches
<1>2. Others(t) = Outstanding
  BY <1>1, Split DEF IInv
<1> QED
  BY <1>2 DEF IInv, TypeOK, Accounting, Results, Quiet

LEMMA Enters ==
  ASSUME IInv, NEW t \in Thread, Enter(t)
  PROVE  IInv'
<1>1. pc[t] = "enter"
  BY DEF Enter
<1>2. nTotal + 1 = Cardinality(Joined \cup {t})
  <2>1. t \notin Joined /\ Joined \in SUBSET Thread
    BY <1>1 DEF Joined
  <2> QED
    BY <2>1, Sizes, FS_AddElement DEF IInv, Counts
<1>3. nIdle = Cardinality(Idle \ {t})
  <2>1. Idle \ {t} = Idle
    BY <1>1 DEF Idle
  <2> QED
    BY <2>1 DEF IInv, Counts
<1>4. Entered(t, nTotal + 1, nIdle, fAllOk, nTodo, pc)
  BY <1>1, <1>2, <1>3, NoBatch, AsleepOutstanding DEF Entered
<1> QED
  BY <1>4, LoopStep DEF Enter

LEMMA WakesUp ==
  ASSUME IInv, NEW t \in Thread, WakeUp(t)
  PROVE  IInv'
<1>1. pc[t] = "woken"
  BY DEF WakeUp
<1>2. nTotal = Cardinality(Joined \cup {t})
  <2>1. Joined \cup {t} = Joined
    BY <1>1 DEF Joined
  <2> QED
    BY <2>1 DEF IInv, Counts
<1>3. nIdle - 1 = Cardinality(Idle \ {t})
  <2>1. t \in Idle /\ Idle \in SUBSET Thread
    BY <1>1 DEF Idle
  <2> QED
    BY <2>1, Sizes, FS_RemoveElement DEF IInv, Counts
<1>4. Entered(t, nTotal, nIdle - 1, fAllOk, nTodo, pc)
  BY <1>1, <1>2, <1>3, NoBatch, AsleepOutstanding DEF Entered
<1> QED
  BY <1>4, LoopStep DEF WakeUp

(* The batch of t is accounted for: a failure in it stays on record, and   *)
(* the master is woken when it was the last.                               *)
LEMMA CleansUp ==
  ASSUME IInv, NEW t \in Thread, CleanUp(t)
  PROVE  IInv'
<1> DEFINE todo == nTodo - Cardinality(vChecks[t])
           pcs == IF todo = 0 /\ t \in Worker THEN NotifyMaster ELSE pc
           allOk == fAllOk /\ fOk[t]
<1>1. pc[t] = "clean" /\ TypeOK /\ Worker \cap Master = {} /\ t \in Worker \cup Master
  BY QueueAssumption DEF CleanUp, IInv, Thread
<1>2. nTotal = Cardinality(Joined \cup {t}) /\ nIdle = Cardinality(Idle \ {t})
  <2>1. Joined \cup {t} = Joined /\ Idle \ {t} = Idle
    BY <1>1 DEF Joined, Idle
  <2> QED
    BY <2>1 DEF IInv, Counts
<1>3. /\ todo = Cardinality(Others(t)) /\ Outstanding = Others(t) \cup vChecks[t]
      /\ Others(t) \subseteq Job
  BY Split DEF IInv
<1>4. Busy
  <2>1. Outstanding # {}
    BY <1>1, <1>3 DEF IInv, Batches
  <2> QED
    BY <2>1 DEF IInv, Quiet
<1>5. allOk \in BOOLEAN
  BY <1>1 DEF TypeOK
<1>6. ~allOk => added \cap bad # {}
  BY <1>1, SMTT(30) DEF IInv, Results
<1>7. allOk => (added \ Others(t)) \cap bad = {}
  <2>1. allOk => (added \ Outstanding) \cap bad = {} /\ vChecks[t] \cap bad = {}
    BY <1>1, <1>4 DEF IInv, Results
  <2> QED
    BY <2>1, <1>3
<1>8. /\ pcs \in [Thread -> PC]
      /\ \A u \in Thread \ {t} :
           pcs[u] = pc[u] \/ (u \in Master /\ pc[u] = "wait" /\ pcs[u] = "woken")
  BY <1>1 DEF TypeOK, NotifyMaster, PC
<1>9. \A m \in Master \ {t} : pcs[m] = "wait" => todo # 0
  <2> SUFFICES ASSUME NEW m \in Master \ {t}, pcs[m] = "wait", todo = 0
               PROVE  FALSE
    OBVIOUS
  <2>1. CASE t \in Worker
    BY <2>1, <1>1 DEF NotifyMaster, Thread
  <2>2. CASE t \in Master
    BY <2>2, <1>1, SMTT(30) DEF IInv, Places
  <2> QED
    BY <2>1, <2>2, <1>1
<1>10. Entered(t, nTotal, nIdle, allOk, todo, pcs)
  BY <1>1, <1>2, <1>3, <1>4, <1>5, <1>6, <1>7, <1>8, <1>9, Zenon DEF Entered
<1>11. DoLoop(t, nTotal, nIdle, allOk, todo, pcs)
  BY Zenon DEF CleanUp
<1> QED
  BY <1>10, <1>11, LoopStep, SMTT(30)

-----------------------------------------------------------------------------
(* The steps outside DoLoop                                                *)

LEMMA Takes ==
  ASSUME IInv, NEW m \in Master, TakeControl(m)
  PROVE  IInv'
<1>1. /\ pc[m] = "out" /\ control = NoMaster /\ control' = m /\ added' = {} /\ bad' \in SUBSET Job
      /\ pc' = [pc EXCEPT ![m] = "control"] /\ UNCHANGED <<shared, vChecks, fOk, fRet>>
  BY DEF TakeControl
<1>2. TypeOK /\ NoMaster \notin Master /\ m \in Thread /\ Worker \cap Master = {}
  BY QueueAssumption DEF IInv, Thread
<1>3. Outstanding = {} /\ fAllOk /\ Outstanding' = {}
  BY <1>1 DEF IInv, Quiet, Busy, Outstanding, shared
<1>4. \A u \in Thread : vChecks[u] = {} /\ pc[u] \notin {"work", "clean"}
  BY <1>3 DEF Outstanding, IInv, Batches
<1>5. \A u \in Master : pc[u] = "out" /\ u \in Thread
  BY <1>1, <1>2 DEF IInv, Places, Thread
<1>6. \A u \in Thread : pc'[u] = IF u = m THEN "control" ELSE pc[u]
  BY <1>1, <1>2 DEF TypeOK
<1>7. TypeOK'
  BY <1>1, <1>2 DEF TypeOK, PC, shared
<1>8. Counts'
  <2>1. Idle' = Idle /\ Joined' = Joined
    BY <1>1, <1>6 DEF Idle, Joined
  <2> QED
    BY <2>1, <1>1 DEF IInv, Counts, shared
<1>9. Accounting'
  BY <1>1, <1>3 DEF IInv, Accounting, shared
<1>10. Batches' /\ Places'
  BY <1>1, <1>2, <1>4, <1>5, <1>6 DEF IInv, Batches, Places, Thread
<1>11. Quiet' /\ Results'
  BY <1>1, <1>2, <1>3, <1>4, <1>5, <1>6, SMTT(30) DEF Quiet, Busy, Results, shared
<1>12. VerdictCorrect' /\ NoLostWakeUp'
  BY <1>5, <1>6 DEF VerdictCorrect, NoLostWakeUp
<1> QED
  BY <1>7, <1>8, <1>9, <1>10, <1>11, <1>12 DEF IInv

LEMMA Adds ==
  ASSUME IInv, NEW m \in Master, NEW S \in SUBSET Job, Add(m, S)
  PROVE  IInv'
<1>1. PICK W \in SUBSET Sleeping :
        pc' = [t \in Thread |-> IF t \in W THEN "woken" ELSE pc[t]]
  BY DEF Add
<1>2. /\ pc[m] = "control" /\ S \subseteq Job \ added
      /\ queue' = queue \cup S /\ added' = added \cup S
      /\ nTodo' = nTodo + Cardinality(S)
      /\ UNCHANGED <<nIdle, nTotal, fAllOk, control, bad, vChecks, fOk, fRet>>
  BY DEF Add
<1>3. TypeOK /\ m \in Thread /\ Worker \cap Master = {} /\ NoMaster \notin Master
  BY QueueAssumption DEF IInv, Thread
<1>4. \A u \in Thread :
        pc'[u] = pc[u] \/ (u \in Worker /\ pc[u] = "wait" /\ pc'[u] = "woken")
  BY <1>1 DEF Sleeping
<1>5. Outstanding' = Outstanding \cup S /\ Outstanding \cap S = {} /\ Outstanding \subseteq Job
  BY <1>2, <1>3, SMTT(30) DEF Outstanding, IInv, Results, TypeOK
<1>6. TypeOK'
  <2>1. pc' \in [Thread -> PC]
    BY <1>1, <1>3 DEF TypeOK, PC
  <2>2. nTodo' \in Nat
    BY <1>2, <1>3, Sizes DEF TypeOK
  <2> QED
    BY <2>1, <2>2, <1>2, <1>3 DEF TypeOK
<1>7. Counts'
  <2>1. Idle' = Idle /\ Joined' = Joined
    BY <1>4 DEF Idle, Joined
  <2> QED
    BY <2>1, <1>2 DEF IInv, Counts
<1>8. Accounting'
  <2>1. nTodo' = Cardinality(Outstanding')
    BY <1>2, <1>5, DisjointSum DEF IInv, Accounting
  <2>2. \A u \in Thread : vChecks[u] \cap S = {}
    BY <1>5 DEF Outstanding
  <2> QED
    BY <2>1, <2>2, <1>2, Zenon DEF IInv, Accounting
<1>9. Batches' /\ Places'
  BY <1>2, <1>3, <1>4 DEF IInv, Batches, Places, Thread
<1>10. Busy /\ Busy'
  <2>1. control = m /\ \A u \in Master : u # m => pc[u] = "out"
    BY <1>2 DEF IInv, Places
  <2> QED
    BY <2>1, <1>2, <1>3, <1>4 DEF Busy, Thread
<1>11. Quiet' /\ Results'
  BY <1>2, <1>4, <1>5, <1>10, SMTT(30) DEF IInv, Quiet, Results
<1>12. VerdictCorrect' /\ NoLostWakeUp'
  BY <1>2, <1>3, <1>4, <1>10, Zenon DEF IInv, VerdictCorrect, NoLostWakeUp, Busy, Thread
<1> QED
  BY <1>6, <1>7, <1>8, <1>9, <1>11, <1>12 DEF IInv

(* A master that starts to wait, or returns ControlMutex with its verdict. *)
LEMMA MasterMoves ==
  ASSUME IInv, NEW m \in Master, Wait(m) \/ ReleaseControl(m)
  PROVE  IInv'
<1>1. TypeOK /\ m \in Thread /\ Worker \cap Master = {} /\ NoMaster \notin Master
  BY QueueAssumption DEF IInv, Thread
<1>2. /\ UNCHANGED <<shared, added, bad, vChecks, fOk, fRet>>
      /\ \/ pc[m] = "control" /\ control' = control /\ pc' = [pc EXCEPT ![m] = "enter"]
         \/ pc[m] = "done" /\ control' = NoMaster /\ pc' = [pc EXCEPT ![m] = "out"]
  BY DEF Wait, ReleaseControl
<1>3. \A u \in Thread : u # m => pc'[u] = pc[u]
  BY <1>1, <1>2 DEF TypeOK
<1>4. \/ pc[m] = "control" /\ control' = control /\ pc'[m] = "enter"
      \/ pc[m] = "done" /\ control' = NoMaster /\ pc'[m] = "out"
  BY <1>1, <1>2 DEF TypeOK
<1>5. control = m /\ \A u \in Master : u # m => pc[u] = "out"
  BY <1>4 DEF IInv, Places
<1>6. Outstanding' = Outstanding /\ Idle' = Idle /\ Joined' = Joined
  BY <1>2, <1>3, <1>4, SMTT(30) DEF Outstanding, Idle, Joined, shared
<1>7. TypeOK'
  BY <1>1, <1>2 DEF TypeOK, PC, shared
<1>8. Counts' /\ Accounting'
  BY <1>2, <1>6, SMTT(30) DEF IInv, Counts, Accounting, shared
<1>9. Batches' /\ Places'
  BY <1>1, <1>2, <1>3, <1>4, <1>5, SMTT(30) DEF IInv, Batches, Places, Thread
<1>10. Busy' <=> Busy
  BY <1>1, <1>3, <1>4, <1>5 DEF Busy, Thread
<1>11. Quiet' /\ Results'
  BY <1>2, <1>3, <1>4, <1>6, <1>10, SMTT(30) DEF IInv, Quiet, Results, shared
<1>12. VerdictCorrect' /\ NoLostWakeUp'
  BY <1>2, <1>3, <1>4, <1>5, Zenon DEF VerdictCorrect, NoLostWakeUp, Thread
<1> QED
  BY <1>7, <1>8, <1>9, <1>11, <1>12 DEF IInv

(* A thread that runs its batch.                                           *)
LEMMA Executes ==
  ASSUME IInv, NEW t \in Thread, Execute(t)
  PROVE  IInv'
<1>1. TypeOK /\ pc[t] = "work"
  BY DEF IInv, Execute
<1>2. /\ UNCHANGED <<shared, control, added, bad, vChecks, fRet>>
      /\ fOk' = [fOk EXCEPT ![t] = fOk[t] /\ vChecks[t] \cap bad = {}]
      /\ pc' = [pc EXCEPT ![t] = "clean"]
  BY DEF Execute
<1>3. \A u \in Thread : u # t => pc'[u] = pc[u] /\ fOk'[u] = fOk[u]
  BY <1>1, <1>2 DEF TypeOK
<1>4. pc'[t] = "clean" /\ fOk'[t] = (fOk[t] /\ vChecks[t] \cap bad = {})
  BY <1>1, <1>2 DEF TypeOK
<1>5. Outstanding' = Outstanding /\ Idle' = Idle /\ Joined' = Joined
  BY <1>1, <1>2, <1>3, <1>4 DEF Outstanding, Idle, Joined, shared
<1>6. TypeOK'
  BY <1>1, <1>2 DEF TypeOK, PC, shared
<1>7. Counts' /\ Accounting'
  BY <1>2, <1>5, SMTT(30) DEF IInv, Counts, Accounting, shared
<1>8. Batches' /\ Places'
  BY <1>1, <1>2, <1>3, <1>4, SMTT(30) DEF IInv, Batches, Places, Thread
<1>9. Busy' <=> Busy
  BY <1>1, <1>2, <1>3, <1>4 DEF Busy, Thread
<1>10. Quiet'
  BY <1>2, <1>5, <1>9, SMTT(30) DEF IInv, Quiet, shared
<1>11. Results'
  <2>1. vChecks[t] \subseteq added
    BY DEF IInv, Results, Outstanding
  <2>2. ~fOk'[t] => added \cap bad # {}
    BY <2>1, <1>1, <1>4, Zenon DEF IInv, Results
  <2>3. fOk'[t] => vChecks[t] \cap bad = {}
    BY <1>4, Zenon
  <2> QED
    BY <2>2, <2>3, <1>2, <1>3, <1>5, <1>9, SMTT(30) DEF IInv, Results, shared
<1>12. VerdictCorrect' /\ NoLostWakeUp'
  BY <1>2, <1>3, <1>4, Zenon DEF IInv, VerdictCorrect, NoLostWakeUp, Thread
<1> QED
  BY <1>6, <1>7, <1>8, <1>10, <1>11, <1>12 DEF IInv

(* A thread that wakes up for no reason, or a worker that is interrupted.  *)
LEMMA Disturbed ==
  ASSUME IInv, NEW t \in Thread,
         SpuriousWakeUp(t) \/ (t \in Worker /\ Interrupt(t))
  PROVE  IInv'
<1>1. TypeOK /\ Worker \cap Master = {}
  BY QueueAssumption DEF IInv
<1>2. /\ UNCHANGED <<shared, control, added, bad, vChecks, fOk, fRet>>
      /\ \/ pc[t] = "wait" /\ pc' = [pc EXCEPT ![t] = "woken"]
         \/ t \in Worker /\ pc[t] \in {"wait", "woken"} /\ pc' = [pc EXCEPT ![t] = "gone"]
  BY DEF SpuriousWakeUp, Interrupt
<1>3. \A u \in Thread : u # t => pc'[u] = pc[u]
  BY <1>1, <1>2 DEF TypeOK
<1>4. /\ pc[t] \in {"wait", "woken"} /\ pc'[t] \in {"woken", "gone"}
      /\ t \in Master => pc'[t] = "woken"
  BY <1>1, <1>2 DEF TypeOK
<1>5. Outstanding' = Outstanding /\ Idle' = Idle /\ Joined' = Joined
  BY <1>2, <1>3, <1>4 DEF Outstanding, Idle, Joined, shared
<1>6. TypeOK'
  BY <1>1, <1>2 DEF TypeOK, PC, shared
<1>7. Counts' /\ Accounting'
  BY <1>2, <1>5 DEF IInv, Counts, Accounting, shared
<1>8. Batches' /\ Places'
  BY <1>1, <1>2, <1>3, <1>4, SMTT(30) DEF IInv, Batches, Places, Thread
<1>9. Busy' <=> Busy
  BY <1>2, <1>3, <1>4 DEF Busy, Thread
<1>10. Quiet' /\ Results'
  BY <1>2, <1>3, <1>4, <1>5, <1>9, Zenon DEF IInv, Quiet, Results, shared
<1>11. VerdictCorrect' /\ NoLostWakeUp'
  BY <1>2, <1>3, <1>4, Zenon DEF IInv, VerdictCorrect, NoLostWakeUp, Thread
<1> QED
  BY <1>6, <1>7, <1>8, <1>10, <1>11 DEF IInv

-----------------------------------------------------------------------------
LEMMA InitIInv == Init => IInv
<1> SUFFICES ASSUME Init PROVE IInv
  OBVIOUS
<1>1. TypeOK
  BY DEF Init, TypeOK, PC, Thread
<1>2. \A t \in Thread : vChecks[t] = {} /\ pc[t] = IF t \in Worker THEN "enter" ELSE "out"
  BY DEF Init
<1>3. Outstanding = {} /\ Idle = {} /\ Joined = {}
  BY <1>2 DEF Init, Outstanding, Idle, Joined
<1>4. Counts /\ Accounting
  BY <1>2, <1>3, FS_EmptySet DEF Counts, Accounting, Init
<1>5. Batches /\ Places
  BY <1>2, QueueAssumption DEF Batches, Places, Init, Thread
<1>6. Quiet /\ Results
  BY <1>2, <1>3 DEF Quiet, Results, Busy, Init
<1>7. VerdictCorrect /\ NoLostWakeUp
  BY <1>2, QueueAssumption, SMTT(30) DEF VerdictCorrect, NoLostWakeUp, Thread
<1> QED
  BY <1>1, <1>4, <1>5, <1>6, <1>7 DEF IInv

LEMMA NextIInv == IInv /\ [Next]_vars => IInv'
<1> SUFFICES ASSUME IInv, [Next]_vars PROVE IInv'
  OBVIOUS
<1>1. CASE \E m \in Master : TakeControl(m)
  BY <1>1, Takes
<1>2. CASE \E m \in Master : Wait(m) \/ ReleaseControl(m)
  BY <1>2, MasterMoves
<1>3. CASE \E m \in Master : \E S \in SUBSET Job : Add(m, S)
  BY <1>3, Adds
<1>4. CASE \E t \in Thread : Run(t)
  BY <1>4, Enters, CleansUp, WakesUp, Executes DEF Run
<1>5. CASE \E t \in Thread : SpuriousWakeUp(t)
  BY <1>5, Disturbed
<1>6. CASE \E w \in Worker : Interrupt(w)
  BY <1>6, Disturbed DEF Thread
<1>7. CASE UNCHANGED vars
  <2>1. /\ UNCHANGED <<shared, control, added, bad, vChecks, fOk, fRet, pc>>
        /\ Outstanding' = Outstanding /\ Idle' = Idle /\ Joined' = Joined
        /\ Busy' <=> Busy
    BY <1>7 DEF vars, shared, Outstanding, Idle, Joined, Busy
  <2>2. TypeOK' /\ Counts' /\ Accounting'
    BY <2>1 DEF shared, IInv, TypeOK, Counts, Accounting
  <2>3. Batches' /\ Places' /\ Quiet' /\ Results'
    BY <2>1 DEF shared, IInv, Batches, Places, Quiet, Results
  <2>4. VerdictCorrect' /\ NoLostWakeUp'
    BY <2>1 DEF shared, IInv, VerdictCorrect, NoLostWakeUp
  <2> QED
    BY <2>2, <2>3, <2>4, Zenon DEF IInv
<1> QED
  BY <1>1, <1>2, <1>3, <1>4, <1>5, <1>6, <1>7 DEF Next

(* The state of the queue has its type: in particular the counters never   *)
(* go below zero, whoever joins, sleeps, wakes up, or is interrupted.      *)
THEOREM TypeCorrect == Spec => []TypeOK
<1>1. IInv => TypeOK
  BY DEF IInv
<1> QED
  BY <1>1, InitIInv, NextIInv, PTL DEF Spec

(* nTodo counts the checks that are queued or in a batch, and no check is  *)
(* in two places (checkqueue.h 55-59).                                     *)
THEOREM AccountingAlways == Spec => []Accounting
<1>1. IInv => Accounting
  BY DEF IInv
<1> QED
  BY <1>1, InitIInv, NextIInv, PTL DEF Spec

(* Wait() returns true exactly if every check the master added returns     *)
(* true (checkqueue.h 89-95).                                              *)
THEOREM VerdictAlwaysCorrect == Spec => []VerdictCorrect
<1>1. IInv => VerdictCorrect
  BY DEF IInv
<1> QED
  BY <1>1, InitIInv, NextIInv, PTL DEF Spec

(* A master that takes ControlMutex finds the queue unused (checkqueue.h   *)
(* 182).                                                                   *)
THEOREM AlwaysUnusedWhenFree == Spec => []UnusedWhenFree
<1>1. IInv => UnusedWhenFree
  BY FS_EmptySet DEF IInv, UnusedWhenFree, Quiet, Busy, Accounting
<1> QED
  BY <1>1, InitIInv, NextIInv, PTL DEF Spec

(* A master sleeps only while a worker has a batch, after which it will be *)
(* notified (checkqueue.h 80-82, 89-98).                                   *)
THEOREM NeverLosesWakeUp == Spec => []NoLostWakeUp
<1>1. IInv => NoLostWakeUp
  BY DEF IInv
<1> QED
  BY <1>1, InitIInv, NextIInv, PTL DEF Spec
=============================================================================
