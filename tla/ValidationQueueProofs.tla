------------------------ MODULE ValidationQueueProofs ------------------------
(***************************************************************************)
(* Proofs about ValidationQueue, for any threads: callbacks run one at a   *)
(* time and in order, none is stranded, and Shutdown delivers what is      *)
(* left.                                                                   *)
(***************************************************************************)
EXTENDS ValidationQueue, FiniteSetTheorems, TLAPS

(* Where the threads of each kind can be.                                  *)
InClient == {"maybe", "schedule", "process", "run", "reset"}

ServicePC == {"check", "sleep", "timed", "gone"} \cup InClient

CallerPC ==
  {"idle", "sync", "wait", "erase", "limit", "section", "update", "unlock",
   "maybe", "schedule", "gone"}

EarlyPC == {"up", "stop", "join", "joinall"}

LatePC == {"empty", "flush", "gone"} \cup InClient

Kinds ==
  /\ \A t \in Service : pc[t] \in ServicePC /\ cont[t] = "check"
  /\ \A t \in Caller : pc[t] \in CallerPC /\ cont[t] \in {"idle", "wait", "update", "unlock"}
  /\ pc[Main] \in EarlyPC \cup LatePC
  /\ pc[Main] \in LatePC => cont[Main] \in {"empty", "flush"}

(* The flag says whether a callback is running, and at most one is.        *)
Serial ==
  /\ m_are_callbacks_running <=> Running # {}
  /\ \A s, t \in Running : s = t

Busy == IF m_are_callbacks_running THEN 1 ELSE 0

(* Callbacks are numbered: completed, running, pending.                    *)
Numbered ==
  /\ \A t \in Running : callback[t].n = completed + 1
  /\ \A i \in 1 .. Len(m_callbacks_pending) :
       m_callbacks_pending[i].n = completed + Busy + i
  /\ completed + Busy + Len(m_callbacks_pending) = enqueued

(* Which threads have ended, by how far Shutdown has got.                  *)
Ended ==
  /\ pc[Main] \in {"join", "joinall"} => \A t \in Rpc : pc[t] = "gone"
  /\ pc[Main] = "joinall" => pc[Loader] = "gone"
  /\ pc[Main] \in LatePC => \A t \in Thread \ {Main} : pc[t] = "gone"
  /\ pc[Main] = "gone" => m_callbacks_pending = <<>>

IInv == TypeOK /\ Kinds /\ Serial /\ Numbered /\ Ended /\ NoCallbackStranded

LEMMA Kinships ==
  /\ Service \subseteq Thread /\ Caller \subseteq Thread /\ Main \in Thread
  /\ Loader \in Caller /\ Cleaner \in Caller /\ Rpc \subseteq Caller
  /\ \A t \in Thread : t \in Service \/ t \in Caller \/ t = Main
  /\ \A t \in Caller : t \in {Loader, Cleaner} \cup Rpc
  /\ \A t \in Service : t \notin Caller /\ t # Main
  /\ \A t \in Caller : t # Main
BY ThreadAssumption DEF Thread, Caller

(* A thread that is not gone, other than Main, moves: Shutdown has not got *)
(* far enough to care.                                                     *)
LEMMA OthersMove ==
  ASSUME IInv, NEW t \in Thread \ {Main}, pc[t] # "gone",
         pc'[Main] = pc[Main],
         \A s \in Thread : pc[s] = "gone" => pc'[s] = "gone"
  PROVE  Ended'
<1>1. pc[Main] \notin LatePC
  BY DEF IInv, Ended
<1> QED
  BY <1>1, Kinships DEF IInv, Ended, LatePC

(* A step that leaves the queue and those who run a callback alone.        *)
LEMMA QueueUntouched ==
  ASSUME IInv, UNCHANGED <<queueVars, callback>>, Running' = Running
  PROVE  Serial' /\ Numbered'
BY DEF IInv, Serial, Numbered, Busy, queueVars

(* One thread moves, neither to nor from a callback.                       *)
LEMMA Moves ==
  ASSUME IInv, NEW t \in Thread, NEW l \in PC, pc' = [pc EXCEPT ![t] = l]
  PROVE  /\ pc' \in [Thread -> PC] /\ pc'[t] = l
         /\ \A s \in Thread \ {t} : pc'[s] = pc[s]
         /\ (pc[t] \notin {"run", "reset"} /\ l \notin {"run", "reset"}) => Running' = Running
<1>1. /\ pc' \in [Thread -> PC] /\ pc'[t] = l
      /\ \A s \in Thread \ {t} : pc'[s] = pc[s]
  BY DEF IInv, TypeOK
<1> QED
  BY <1>1 DEF Running

(* Its kind says where it may be.                                          *)
LEMMA KindsKept ==
  ASSUME IInv, NEW t \in Thread,
         \A s \in Thread \ {t} : pc'[s] = pc[s] /\ cont'[s] = cont[s],
         t \in Service => pc'[t] \in ServicePC /\ cont'[t] = "check",
         t \in Caller => pc'[t] \in CallerPC /\ cont'[t] \in {"idle", "wait", "update", "unlock"},
         t = Main => /\ pc'[Main] \in EarlyPC \cup LatePC
                     /\ pc'[Main] \in LatePC => cont'[Main] \in {"empty", "flush"}
  PROVE  Kinds'
BY Kinships DEF IInv, Kinds

(* A pending callback is still seen to.                                    *)
LEMMA StillSeen ==
  ASSUME IInv, NEW t \in Thread,
         m_callbacks_pending' = m_callbacks_pending, stopRequested' = stopRequested,
         taskQueue' = taskQueue, Running' = Running,
         \A s \in Thread \ {t} : pc'[s] = pc[s],
         pc[t] \notin {"maybe", "schedule", "process"},
         pc'[t] # "sleep" \/ taskQueue = 0
  PROVE  NoCallbackStranded'
<1> SUFFICES ASSUME m_callbacks_pending # <<>>, ~stopRequested
             PROVE  \/ \E s \in Thread : pc'[s] \in {"maybe", "schedule", "process"}
                    \/ Running # {}
                    \/ taskQueue > 0 /\ \E s \in Service : pc'[s] # "sleep"
  BY DEF NoCallbackStranded
<1>1. CASE \E s \in Thread : pc[s] \in {"maybe", "schedule", "process"}
  BY <1>1
<1>2. CASE taskQueue > 0 /\ \E s \in Service : pc[s] # "sleep"
  <2>1. taskQueue # 0
    BY <1>2 DEF IInv, TypeOK
  <2> QED
    BY <1>2, <2>1, Kinships
<1> QED
  BY <1>1, <1>2 DEF IInv, NoCallbackStranded

-----------------------------------------------------------------------------
(* The scheduler.                                                          *)

LEMMA ServiceMoves ==
  ASSUME IInv, NEW t \in Service, ServiceQueue(t) \/ SpuriousWakeUp(t)
  PROVE  IInv'
<1>1. PICK l \in {"gone", "sleep", "timed", "check"} :
        /\ pc' = [pc EXCEPT ![t] = l] /\ (l = "sleep" => taskQueue = 0)
  BY DEF ServiceQueue, SpuriousWakeUp, Goto
<1>2. /\ UNCHANGED <<queueVars, taskVars, nodeVars, cont, callback>>
      /\ pc[t] \in {"check", "sleep"}
  BY DEF ServiceQueue, SpuriousWakeUp
<1>3. /\ pc' \in [Thread -> PC] /\ pc'[t] = l
      /\ \A s \in Thread \ {t} : pc'[s] = pc[s]
      /\ Running' = Running
  BY <1>1, <1>2, Moves, Kinships, ZenonT(40) DEF PC
<1>4. TypeOK'
  BY <1>2, <1>3 DEF IInv, TypeOK, queueVars, taskVars, nodeVars
<1>5. Kinds'
  BY <1>2, <1>3, KindsKept, Kinships DEF IInv, Kinds, ServicePC
<1>6. Serial' /\ Numbered'
  BY <1>2, <1>3, QueueUntouched
<1>7. Ended'
  BY <1>2, <1>3, OthersMove, Kinships
<1>8. NoCallbackStranded'
  BY <1>1, <1>2, <1>3, StillSeen, Kinships DEF queueVars, taskVars
<1> QED
  BY <1>4, <1>5, <1>6, <1>7, <1>8 DEF IInv

LEMMA TakesTask ==
  ASSUME IInv, NEW t \in Service, TakeTask(t)
  PROVE  IInv'
<1>1. PICK l \in {"check", "process"} :
        /\ pc' = [pc EXCEPT ![t] = l]
        /\ l = "check" => taskQueue' = taskQueue
        /\ l = "process" => taskQueue > 0 /\ taskQueue' = taskQueue - 1
  BY DEF TakeTask, Goto
<1>2. /\ UNCHANGED <<queueVars, stopRequested, nodeVars, cont, callback>>
      /\ pc[t] = "timed"
  BY DEF TakeTask
<1>3. /\ pc' \in [Thread -> PC] /\ pc'[t] = l
      /\ \A s \in Thread \ {t} : pc'[s] = pc[s]
      /\ Running' = Running
  BY <1>1, <1>2, Moves, Kinships, ZenonT(40) DEF PC
<1>4. TypeOK'
  BY <1>1, <1>2, <1>3 DEF IInv, TypeOK, queueVars, nodeVars
<1>5. Kinds'
  BY <1>2, <1>3, KindsKept, Kinships DEF IInv, Kinds, ServicePC, InClient
<1>6. Serial' /\ Numbered'
  BY <1>2, <1>3, QueueUntouched
<1>7. Ended'
  BY <1>2, <1>3, OthersMove, Kinships
<1>8. NoCallbackStranded'
  <2>1. CASE l = "check"
    BY <1>1, <1>2, <1>3, <2>1, StillSeen, Kinships DEF queueVars
  <2>2. CASE l = "process"
    BY <1>3, <2>2, Kinships DEF NoCallbackStranded
  <2> QED
    BY <2>1, <2>2
<1> QED
  BY <1>4, <1>5, <1>6, <1>7, <1>8 DEF IInv

(* A notification only makes service threads leave a wait.                 *)
LEMMA Notifies ==
  ASSUME IInv, NEW W \in SUBSET Waiting, NEW tasks, NEW stop,
         NEW t \in Thread, NEW l \in PC,
         pc[t] \notin {"sleep", "timed", "run", "reset"}, l \notin {"run", "reset"},
         pc' = [Notified(W, tasks, stop) EXCEPT ![t] = l]
  PROVE  /\ pc' \in [Thread -> PC] /\ pc'[t] = l
         /\ \A s \in Thread \ {t} :
              \/ pc'[s] = pc[s] /\ (s \in W => pc[s] = "timed")
              \/ s \in Service /\ s \in W /\ pc'[s] = "check" /\ pc[s] \in {"sleep", "timed"}
         /\ Running' = Running
<1>1. /\ pc' \in [Thread -> PC] /\ pc'[t] = l
      /\ \A s \in Thread \ {t} :
           pc'[s] = IF s \in W /\ (pc[s] = "sleep" \/ tasks = 0 \/ stop) THEN "check" ELSE pc[s]
  BY DEF IInv, TypeOK, Notified, PC
<1>2. \A s \in W : s \in Service /\ pc[s] \in {"sleep", "timed"}
  BY DEF Waiting
<1> QED
  BY <1>1, <1>2 DEF Running

LEMMA Schedules ==
  ASSUME IInv, NEW t \in Thread, Schedule(t)
  PROVE  IInv'
<1>1. PICK W \in SUBSET Waiting :
        /\ Cardinality(W) = IF Waiting = {} THEN 0 ELSE 1
        /\ pc' = [Notified(W, taskQueue + 1, stopRequested) EXCEPT ![t] = cont[t]]
  BY DEF Schedule
<1>2. /\ UNCHANGED <<queueVars, stopRequested, nodeVars, cont, callback>>
      /\ pc[t] = "schedule" /\ taskQueue' = taskQueue + 1
  BY DEF Schedule
<1>3. /\ t \in Service => cont[t] = "check"
      /\ t \in Caller => cont[t] \in {"idle", "wait", "update", "unlock"}
      /\ t = Main => cont[t] \in {"empty", "flush"}
  BY <1>2 DEF IInv, Kinds, LatePC, InClient
<1>4. cont[t] \in PC /\ cont[t] \notin {"sleep", "run", "reset"}
  BY <1>3, Kinships DEF PC
<1>5. /\ pc' \in [Thread -> PC] /\ pc'[t] = cont[t]
      /\ \A s \in Thread \ {t} :
           \/ pc'[s] = pc[s] /\ (s \in W => pc[s] = "timed")
           \/ s \in Service /\ s \in W /\ pc'[s] = "check" /\ pc[s] \in {"sleep", "timed"}
      /\ Running' = Running
  BY <1>1, <1>2, <1>4, Notifies
<1>6. TypeOK'
  BY <1>2, <1>5 DEF IInv, TypeOK, queueVars, nodeVars
<1>7. Kinds'
  BY <1>2, <1>3, <1>5, Kinships DEF IInv, Kinds, ServicePC, CallerPC, LatePC, InClient
<1>8. Serial' /\ Numbered'
  BY <1>2, <1>5, QueueUntouched
<1>9. Ended'
  <2>1. CASE t = Main
    <3>1. pc[Main] \in LatePC
      BY <1>2, <2>1 DEF LatePC, InClient
    <3>2. \A s \in Thread \ {Main} : pc'[s] = "gone"
      BY <1>5, <2>1, <3>1 DEF IInv, Ended
    <3>3. pc'[Main] \in {"empty", "flush"}
      BY <1>3, <1>5, <2>1
    <3> QED
      BY <3>2, <3>3, Kinships DEF Ended
  <2>2. CASE t # Main
    <3>1. /\ pc'[Main] = pc[Main]
          /\ \A s \in Thread : pc[s] = "gone" => pc'[s] = "gone"
      BY <1>2, <1>5, <2>2, Kinships
    <3> QED
      BY <1>2, <2>2, <3>1, OthersMove
  <2> QED
    BY <2>1, <2>2
<1>10. NoCallbackStranded'
  <2>1. taskQueue' > 0
    BY <1>2 DEF IInv, TypeOK
  <2>2. \E s \in Service : pc'[s] # "sleep"
    <3>1. CASE t \in Service
      BY <1>4, <1>5, <3>1
    <3>2. CASE t \notin Service /\ Waiting = {}
      <4>1. PICK s \in Service : TRUE
        BY ThreadAssumption
      <4>2. pc[s] # "sleep" /\ s # t /\ s \in Thread
        BY <3>2, <4>1, Kinships DEF Waiting
      <4> QED
        BY <1>5, <4>2
    <3>3. CASE t \notin Service /\ Waiting # {}
      <4>1. W # {}
        BY <1>1, <3>3, FS_EmptySet
      <4>2. PICK s \in W : TRUE
        BY <4>1
      <4>3. s \in Service /\ s \in Thread /\ s # t
        BY <3>3, Kinships DEF Waiting
      <4> QED
        BY <1>5, <4>3
    <3> QED
      BY <3>1, <3>2, <3>3
  <2> QED
    BY <2>1, <2>2 DEF NoCallbackStranded
<1> QED
  BY <1>6, <1>7, <1>8, <1>9, <1>10 DEF IInv

LEMMA Stops ==
  ASSUME IInv, StopScheduler
  PROVE  IInv'
<1>1. /\ UNCHANGED <<queueVars, taskQueue, nodeVars, cont, callback>>
      /\ pc[Main] = "stop" /\ stopRequested' = TRUE
      /\ \A t \in Rpc : pc[t] = "gone"
      /\ pc' = [Notified(Waiting, taskQueue, TRUE) EXCEPT ![Main] = "join"]
  BY DEF StopScheduler
<1>2. /\ pc' \in [Thread -> PC] /\ pc'[Main] = "join"
      /\ \A s \in Thread \ {Main} :
           \/ pc'[s] = pc[s]
           \/ s \in Service /\ pc'[s] = "check" /\ pc[s] \in {"sleep", "timed"}
      /\ Running' = Running
  <2>1. /\ pc' \in [Thread -> PC] /\ pc'[Main] = "join"
        /\ \A s \in Thread \ {Main} : pc'[s] = IF s \in Waiting THEN "check" ELSE pc[s]
    BY <1>1, Kinships DEF IInv, TypeOK, Notified, PC
  <2>2. \A s \in Waiting : s \in Service /\ pc[s] \in {"sleep", "timed"}
    BY DEF Waiting
  <2> QED
    BY <1>1, <2>1, <2>2, Zenon DEF Running
<1>3. TypeOK'
  BY <1>1, <1>2, Zenon DEF IInv, TypeOK, queueVars, nodeVars
<1>4. Kinds'
  BY <1>1, <1>2, Kinships, ZenonT(40) DEF IInv, Kinds, ServicePC, EarlyPC, LatePC, InClient
<1>5. Serial' /\ Numbered'
  BY <1>1, <1>2, QueueUntouched
<1>6. Ended'
  BY <1>1, <1>2, Kinships, Zenon DEF Ended, LatePC, InClient
<1>7. NoCallbackStranded'
  BY <1>1 DEF NoCallbackStranded
<1> QED
  BY <1>3, <1>4, <1>5, <1>6, <1>7 DEF IInv

-----------------------------------------------------------------------------
(* The queue of callbacks.                                                 *)

LEMMA MaybeSchedules ==
  ASSUME IInv, NEW t \in Thread, MaybeScheduleProcessQueue(t)
  PROVE  IInv'
<1>1. PICK l \in {cont[t], "schedule"} :
        /\ pc' = [pc EXCEPT ![t] = l]
        /\ l = "schedule" \/ m_are_callbacks_running \/ m_callbacks_pending = <<>>
  BY Zenon DEF MaybeScheduleProcessQueue, Goto
<1>2. /\ UNCHANGED <<queueVars, taskVars, nodeVars, cont, callback>>
      /\ pc[t] = "maybe"
  BY DEF MaybeScheduleProcessQueue
<1>3. /\ t \in Service => cont[t] = "check"
      /\ t \in Caller => cont[t] \in {"idle", "wait", "update", "unlock"}
      /\ t = Main => cont[t] \in {"empty", "flush"}
  BY <1>2 DEF IInv, Kinds, LatePC, InClient
<1>4. l \in PC /\ l \notin {"run", "reset"}
  BY <1>3, Kinships DEF PC
<1>5. /\ pc' \in [Thread -> PC] /\ pc'[t] = l
      /\ \A s \in Thread \ {t} : pc'[s] = pc[s]
      /\ Running' = Running
  BY <1>1, <1>2, <1>4, Moves, Zenon
<1>6. TypeOK'
  BY <1>2, <1>5 DEF IInv, TypeOK, queueVars, taskVars, nodeVars
<1>7. Kinds'
  BY <1>2, <1>3, <1>5, KindsKept DEF ServicePC, CallerPC, LatePC, InClient
<1>8. Serial' /\ Numbered'
  BY <1>2, <1>5, QueueUntouched
<1>9. Ended'
  <2>1. CASE t = Main
    BY <1>2, <1>3, <1>5, <2>1, Kinships DEF IInv, Ended, LatePC, InClient
  <2>2. CASE t # Main
    BY <1>2, <1>5, <2>2, OthersMove, Kinships
  <2> QED
    BY <2>1, <2>2
<1>10. NoCallbackStranded'
  <2>1. CASE l = "schedule"
    BY <1>5, <2>1 DEF NoCallbackStranded
  <2>2. CASE m_are_callbacks_running
    BY <1>5, <2>2 DEF NoCallbackStranded, IInv, Serial
  <2>3. CASE m_callbacks_pending = <<>>
    BY <1>2, <2>3 DEF NoCallbackStranded, queueVars
  <2> QED
    BY <1>1, <2>1, <2>2, <2>3
<1> QED
  BY <1>6, <1>7, <1>8, <1>9, <1>10 DEF IInv

LEMMA ProcessesNothing ==
  ASSUME IInv, NEW t \in Thread, ProcessQueue(t),
         m_are_callbacks_running \/ m_callbacks_pending = <<>>
  PROVE  IInv'
<1>1. /\ UNCHANGED <<queueVars, taskVars, nodeVars, cont, callback>>
      /\ pc[t] = "process" /\ pc' = [pc EXCEPT ![t] = cont[t]]
  BY DEF ProcessQueue, Goto, queueVars
<1>2. /\ t \in Service => cont[t] = "check"
      /\ t \in Caller => cont[t] \in {"idle", "wait", "update", "unlock"}
      /\ t = Main => cont[t] \in {"empty", "flush"}
  BY <1>1 DEF IInv, Kinds, LatePC, InClient
<1>3. cont[t] \in PC /\ cont[t] \notin {"run", "reset"}
  BY <1>2, Kinships DEF PC
<1>4. /\ pc' \in [Thread -> PC] /\ pc'[t] = cont[t]
      /\ \A s \in Thread \ {t} : pc'[s] = pc[s]
      /\ Running' = Running
  BY <1>1, <1>3, Moves, Zenon
<1>5. TypeOK'
  BY <1>1, <1>4 DEF IInv, TypeOK, queueVars, taskVars, nodeVars
<1>6. Kinds'
  BY <1>1, <1>2, <1>4, KindsKept DEF ServicePC, CallerPC, LatePC, InClient
<1>7. Serial' /\ Numbered'
  BY <1>1, <1>4, QueueUntouched
<1>8. Ended'
  <2>1. CASE t = Main
    BY <1>1, <1>2, <1>4, <2>1, Kinships DEF IInv, Ended, LatePC, InClient
  <2>2. CASE t # Main
    BY <1>1, <1>4, <2>2, OthersMove, Kinships
  <2> QED
    BY <2>1, <2>2
<1>9. NoCallbackStranded'
  BY <1>1, <1>4 DEF NoCallbackStranded, IInv, Serial, queueVars
<1> QED
  BY <1>5, <1>6, <1>7, <1>8, <1>9 DEF IInv

LEMMA ProcessesOne ==
  ASSUME IInv, NEW t \in Thread, ProcessQueue(t),
         ~m_are_callbacks_running, m_callbacks_pending # <<>>
  PROVE  IInv'
<1>1. /\ UNCHANGED <<enqueued, completed, taskVars, nodeVars, cont>>
      /\ pc[t] = "process" /\ pc' = [pc EXCEPT ![t] = "run"]
      /\ m_are_callbacks_running' = TRUE
      /\ callback' = [callback EXCEPT ![t] = Head(m_callbacks_pending)]
      /\ m_callbacks_pending' = Tail(m_callbacks_pending)
  BY DEF ProcessQueue, Goto
<1>2. /\ pc' \in [Thread -> PC] /\ pc'[t] = "run"
      /\ \A s \in Thread \ {t} : pc'[s] = pc[s]
  BY <1>1, Moves, Zenon DEF PC
<1>3. Running = {} /\ Running' = {t}
  BY <1>1, <1>2 DEF IInv, Serial, Running
<1>4. /\ m_callbacks_pending \in Seq(Callback)
      /\ Head(m_callbacks_pending) = m_callbacks_pending[1]
      /\ Head(m_callbacks_pending) \in Callback
      /\ Tail(m_callbacks_pending) \in Seq(Callback)
      /\ Len(Tail(m_callbacks_pending)) = Len(m_callbacks_pending) - 1
      /\ Len(m_callbacks_pending) \in Nat \ {0}
      /\ \A i \in 1 .. Len(m_callbacks_pending) - 1 :
           Tail(m_callbacks_pending)[i] = m_callbacks_pending[i + 1]
  BY DEF IInv, TypeOK
<1>5. TypeOK'
  BY <1>1, <1>2, <1>4 DEF IInv, TypeOK, taskVars, nodeVars
<1>6. Kinds'
  BY <1>1, <1>2, KindsKept, Kinships, SMTT(30)
  DEF IInv, Kinds, ServicePC, CallerPC, LatePC, InClient, EarlyPC
<1>7. Serial'
  BY <1>1, <1>3 DEF Serial
<1>8. Numbered'
  <2>1. completed \in Nat /\ enqueued \in Nat /\ Busy = 0 /\ Busy' = 1
    BY <1>1 DEF IInv, TypeOK, Busy
  <2>2. callback'[t].n = completed' + 1
    BY <1>1, <1>4, <2>1 DEF IInv, TypeOK, Numbered
  <2>3. \A i \in 1 .. Len(m_callbacks_pending') :
          m_callbacks_pending'[i].n = completed' + Busy' + i
    BY <1>1, <1>4, <2>1 DEF IInv, Numbered
  <2>4. completed' + Busy' + Len(m_callbacks_pending') = enqueued'
    <3>1. completed + 0 + Len(m_callbacks_pending) = enqueued
      BY <2>1 DEF IInv, Numbered
    <3>2. /\ completed' = completed /\ enqueued' = enqueued
          /\ Len(m_callbacks_pending') = Len(m_callbacks_pending) - 1
      BY <1>1, <1>4
    <3> QED
      BY <1>4, <2>1, <3>1, <3>2
  <2> QED
    BY <1>3, <2>2, <2>3, <2>4 DEF Numbered
<1>9. Ended'
  <2>1. CASE t = Main
    BY <1>1, <1>2, <2>1, Kinships DEF IInv, Ended, LatePC, InClient
  <2>2. CASE t # Main
    BY <1>1, <1>2, <2>2, OthersMove, Kinships
  <2> QED
    BY <2>1, <2>2
<1>10. NoCallbackStranded'
  BY <1>3 DEF NoCallbackStranded
<1> QED
  BY <1>5, <1>6, <1>7, <1>8, <1>9, <1>10 DEF IInv

LEMMA RunsCallback ==
  ASSUME IInv, NEW t \in Thread, RunCallback(t)
  PROVE  IInv'
<1>1. /\ UNCHANGED <<queueVars, taskVars, cs_main, ShutdownRequested, cont, callback>>
      /\ pc[t] = "run" /\ pc' = [pc EXCEPT ![t] = "reset"]
      /\ promised' \subseteq promised \cup {callback[t].sync}
      /\ callback[t].sync = NoThread => promised' = promised
  BY DEF RunCallback, Goto
<1>2. /\ pc' \in [Thread -> PC] /\ pc'[t] = "reset"
      /\ \A s \in Thread \ {t} : pc'[s] = pc[s]
  BY <1>1, Moves, Zenon DEF PC
<1>3. Running' = Running /\ t \in Running
  BY <1>1, <1>2 DEF Running
<1>4. callback[t] \in Callback
  BY DEF IInv, TypeOK
<1>5. promised' \subseteq Caller
  BY <1>1, <1>4 DEF IInv, TypeOK, Callback
<1>6. TypeOK'
  BY <1>1, <1>2, <1>5 DEF IInv, TypeOK, queueVars, taskVars
<1>7. Kinds'
  BY <1>1, <1>2, KindsKept, Kinships, SMTT(30)
  DEF IInv, Kinds, ServicePC, CallerPC, LatePC, InClient, EarlyPC
<1>8. Serial' /\ Numbered'
  BY <1>1, <1>3, QueueUntouched
<1>9. Ended'
  <2>1. CASE t = Main
    BY <1>1, <1>2, <2>1, Kinships DEF IInv, Ended, LatePC, InClient
  <2>2. CASE t # Main
    BY <1>1, <1>2, <2>2, OthersMove, Kinships
  <2> QED
    BY <2>1, <2>2
<1>10. NoCallbackStranded'
  BY <1>3 DEF NoCallbackStranded
<1> QED
  BY <1>6, <1>7, <1>8, <1>9, <1>10 DEF IInv

LEMMA CallbackEnds ==
  ASSUME IInv, NEW t \in Thread, CallbackDone(t)
  PROVE  IInv'
<1>1. /\ UNCHANGED <<m_callbacks_pending, enqueued, taskVars, nodeVars, cont>>
      /\ pc[t] = "reset" /\ pc' = [pc EXCEPT ![t] = "maybe"]
      /\ m_are_callbacks_running' = FALSE /\ completed' = completed + 1
      /\ callback' = [callback EXCEPT ![t] = NoCallback]
  BY DEF CallbackDone, Goto
<1>2. /\ pc' \in [Thread -> PC] /\ pc'[t] = "maybe"
      /\ \A s \in Thread \ {t} : pc'[s] = pc[s]
  BY <1>1, Moves, Zenon DEF PC
<1>3. Running = {t} /\ m_are_callbacks_running
  BY <1>1 DEF IInv, Serial, Running
<1>4. Running' = {}
  BY <1>2, <1>3 DEF Running
<1>5. /\ completed \in Nat /\ enqueued \in Nat /\ Len(m_callbacks_pending) \in Nat
      /\ Busy = 1 /\ Busy' = 0
  BY <1>1, <1>3 DEF IInv, TypeOK, Busy
<1>6. Serial'
  BY <1>1, <1>4 DEF Serial
<1>7. Numbered'
  <2>1. \A i \in 1 .. Len(m_callbacks_pending') :
          m_callbacks_pending'[i].n = completed' + Busy' + i
    BY <1>1, <1>5 DEF IInv, Numbered
  <2>2. completed' + Busy' + Len(m_callbacks_pending') = enqueued'
    BY <1>1, <1>5 DEF IInv, Numbered
  <2> QED
    BY <1>4, <2>1, <2>2 DEF Numbered
<1>8. TypeOK'
  <2>1. NoCallback \in Callback
    BY DEF NoCallback, Callback
  <2>2. completed' \in 0 .. enqueued'
    BY <1>1, <1>5 DEF IInv, Numbered
  <2> QED
    BY <1>1, <1>2, <2>1, <2>2, Zenon DEF IInv, TypeOK, taskVars, nodeVars
<1>9. Kinds'
  BY <1>1, <1>2, KindsKept, Kinships, SMTT(30)
  DEF IInv, Kinds, ServicePC, CallerPC, LatePC, InClient, EarlyPC
<1>10. Ended'
  <2>1. CASE t = Main
    BY <1>1, <1>2, <2>1, Kinships DEF IInv, Ended, LatePC, InClient
  <2>2. CASE t # Main
    BY <1>1, <1>2, <2>2, OthersMove, Kinships
  <2> QED
    BY <2>1, <2>2
<1>11. NoCallbackStranded'
  BY <1>2 DEF NoCallbackStranded
<1> QED
  BY <1>6, <1>7, <1>8, <1>9, <1>10, <1>11 DEF IInv

-----------------------------------------------------------------------------
(* The threads that enqueue callbacks, and Shutdown.                       *)

LEMMA Pushes ==
  ASSUME IInv, NEW t \in Thread, NEW sync \in Caller \cup {NoThread}, NEW l,
         Push(t, sync, l), pc[t] \notin {"run", "reset", "gone"},
         UNCHANGED <<ShutdownRequested, promised>>,
         cs_main' \in Caller \cup {NoThread},
         \/ t \in Caller /\ l \in {"wait", "update", "unlock"}
         \/ /\ t = Main /\ l = "empty"
            /\ \A s \in Thread \ {Main} : pc[s] = "gone"
  PROVE  IInv'
<1>1. /\ UNCHANGED <<m_are_callbacks_running, completed, taskVars, callback>>
      /\ enqueued' = enqueued + 1
      /\ m_callbacks_pending' =
           Append(m_callbacks_pending, [n |-> enqueued + 1, sync |-> sync])
      /\ cont' = [cont EXCEPT ![t] = l]
      /\ pc' = [pc EXCEPT ![t] = "maybe"]
  BY DEF Push, Goto
<1>2. /\ pc' \in [Thread -> PC] /\ pc'[t] = "maybe"
      /\ \A s \in Thread \ {t} : pc'[s] = pc[s]
      /\ Running' = Running
  <2>1. "maybe" \in PC
    BY DEF PC
  <2> QED
    BY <1>1, <2>1, Moves, Zenon
<1>3. /\ l \in PC /\ cont' \in [Thread -> PC] /\ cont'[t] = l
      /\ \A s \in Thread \ {t} : cont'[s] = cont[s]
  <2>1. l \in PC
    BY DEF PC
  <2> QED
    BY <1>1, <2>1 DEF IInv, TypeOK
<1> DEFINE c == [n |-> enqueued + 1, sync |-> sync]
<1>4. c \in Callback /\ c.n = enqueued + 1
  BY DEF IInv, TypeOK, Callback
<1> HIDE DEF c
<1>5. m_callbacks_pending' = Append(m_callbacks_pending, c)
  BY <1>1 DEF c
<1>6. /\ m_callbacks_pending' \in Seq(Callback)
      /\ Len(m_callbacks_pending') = Len(m_callbacks_pending) + 1
      /\ Len(m_callbacks_pending) \in Nat
      /\ \A i \in 1 .. Len(m_callbacks_pending) :
           m_callbacks_pending'[i] = m_callbacks_pending[i]
      /\ m_callbacks_pending'[Len(m_callbacks_pending) + 1] = c
  BY <1>4, <1>5 DEF IInv, TypeOK
<1>7. TypeOK'
  <2>1. enqueued' \in Nat /\ completed' \in 0 .. enqueued'
    BY <1>1 DEF IInv, TypeOK
  <2> QED
    BY <1>1, <1>2, <1>3, <1>6, <2>1, Zenon DEF IInv, TypeOK, taskVars
<1>8. Kinds'
  <2>1. /\ t \in Caller => pc'[t] \in CallerPC /\ cont'[t] \in {"idle", "wait", "update", "unlock"}
        /\ t = Main => pc'[Main] \in EarlyPC \cup LatePC /\ cont'[Main] \in {"empty", "flush"}
        /\ t \notin Service
    BY <1>2, <1>3, Kinships DEF CallerPC, LatePC, InClient
  <2> QED
    BY <1>2, <1>3, <2>1, KindsKept, Zenon
<1>9. Serial'
  BY <1>1, <1>2 DEF IInv, Serial
<1>10. Numbered'
  <2>1. /\ completed \in Nat /\ enqueued \in Nat
        /\ Busy \in {0, 1} /\ Busy' = Busy /\ completed' = completed
    BY <1>1 DEF IInv, TypeOK, Busy
  <2>2. completed + Busy + Len(m_callbacks_pending) = enqueued
    BY DEF IInv, Numbered
  <2>3. ASSUME NEW i \in 1 .. Len(m_callbacks_pending')
        PROVE  m_callbacks_pending'[i].n = completed' + Busy' + i
    <3>1. CASE i \in 1 .. Len(m_callbacks_pending)
      BY <1>6, <2>1, <3>1, Zenon DEF IInv, Numbered
    <3>2. CASE i = Len(m_callbacks_pending) + 1
      <4>1. m_callbacks_pending'[i].n = enqueued + 1
        BY <1>4, <1>6, <3>2, Zenon
      <4>2. completed + Busy + i = enqueued + 1
        BY <1>6, <2>1, <2>2, <3>2
      <4> QED
        BY <2>1, <4>1, <4>2, Zenon
    <3>3. i \in 1 .. Len(m_callbacks_pending) \/ i = Len(m_callbacks_pending) + 1
      BY <1>6
    <3> QED
      BY <3>1, <3>2, <3>3, Zenon
  <2>4. completed' + Busy' + Len(m_callbacks_pending') = enqueued'
    <3>1. /\ completed' = completed /\ enqueued' = enqueued + 1
          /\ Len(m_callbacks_pending') = Len(m_callbacks_pending) + 1
          /\ Len(m_callbacks_pending) \in Nat
      BY <1>1, <1>6, Zenon
    <3> QED
      BY <2>1, <2>2, <3>1
  <2>5. \A s \in Running' : callback'[s].n = completed' + 1
    BY <1>1, <1>2, Zenon DEF IInv, Numbered
  <2> QED
    BY <2>3, <2>4, <2>5 DEF Numbered
<1>11. Ended'
  <2>1. CASE t = Main
    <3>1. \A s \in Thread \ {Main} : pc'[s] = "gone"
      BY <1>2, <2>1, Kinships
    <3> QED
      BY <1>2, <2>1, <3>1 DEF Ended
  <2>2. CASE t # Main
    BY <1>2, <2>2, OthersMove, Kinships
  <2> QED
    BY <2>1, <2>2
<1>12. NoCallbackStranded'
  BY <1>2 DEF NoCallbackStranded
<1> QED
  BY <1>7, <1>8, <1>9, <1>10, <1>11, <1>12 DEF IInv

(* A step that only moves one thread, outside the queue.                   *)
LEMMA OnlyMoves ==
  ASSUME IInv, NEW t \in Thread, NEW l \in PC, pc' = [pc EXCEPT ![t] = l],
         UNCHANGED <<queueVars, taskVars, callback>>,
         pc[t] \notin InClient, l \notin {"run", "reset", "sleep"},
         cont' \in [Thread -> PC], \A s \in Thread \ {t} : cont'[s] = cont[s],
         cs_main' \in Caller \cup {NoThread}, ShutdownRequested' \in BOOLEAN,
         promised' \subseteq Caller
  PROVE  /\ TypeOK' /\ Serial' /\ Numbered' /\ NoCallbackStranded'
         /\ pc'[t] = l /\ \A s \in Thread \ {t} : pc'[s] = pc[s]
<1>1. /\ pc' \in [Thread -> PC] /\ pc'[t] = l
      /\ \A s \in Thread \ {t} : pc'[s] = pc[s]
      /\ Running' = Running
  BY Moves, Zenon DEF InClient
<1>2. TypeOK'
  BY <1>1 DEF IInv, TypeOK, queueVars, taskVars
<1>3. Serial' /\ Numbered'
  BY <1>1, QueueUntouched
<1>4. NoCallbackStranded'
  BY <1>1, StillSeen DEF queueVars, taskVars, InClient
<1> QED
  BY <1>1, <1>2, <1>3, <1>4

LEMMA CallerMoves ==
  ASSUME IInv, NEW t \in Caller,
         \/ Wait(t) \/ EndThread(t) \/ NeedQueue(t)
         \/ t = Cleaner /\ EraseBlocks
         \/ t = Loader /\ (LimitValidationInterfaceQueue \/ NothingToConnect \/ EndRound)
  PROVE  IInv'
<1>1. PICK l \in {"section", "erase", "idle", "sync", "gone", "limit"} :
        pc' = [pc EXCEPT ![t] = l]
  BY DEF Wait, EndThread, NeedQueue, EraseBlocks, LimitValidationInterfaceQueue,
         NothingToConnect, EndRound, Goto
<1>2. /\ UNCHANGED <<queueVars, taskVars, callback, ShutdownRequested>>
      /\ pc[t] \in {"wait", "idle", "erase", "limit", "section", "unlock"}
      /\ cont' = cont \/ cont' = [cont EXCEPT ![t] = "idle"]
      /\ cs_main' = cs_main \/ cs_main' = NoThread
      /\ promised' \subseteq promised
  BY SMTT(30) DEF Wait, EndThread, NeedQueue, EraseBlocks, LimitValidationInterfaceQueue,
         NothingToConnect, EndRound, nodeVars
<1>3. /\ t \in Thread /\ t # Main /\ t \notin Service
      /\ l \in PC /\ l \in CallerPC /\ l \notin {"run", "reset", "sleep"}
      /\ pc[t] \notin InClient /\ pc[t] # "gone"
  BY <1>2, Kinships DEF PC, CallerPC, InClient
<1>4. /\ cont' \in [Thread -> PC]
      /\ \A s \in Thread \ {t} : cont'[s] = cont[s]
      /\ cont'[t] \in {"idle", "wait", "update", "unlock"}
  BY <1>2, <1>3, SMTT(30) DEF IInv, TypeOK, Kinds, PC
<1>5. /\ cs_main' \in Caller \cup {NoThread} /\ ShutdownRequested' \in BOOLEAN
      /\ promised' \subseteq Caller
  BY <1>2 DEF IInv, TypeOK
<1>6. /\ TypeOK' /\ Serial' /\ Numbered' /\ NoCallbackStranded'
      /\ pc'[t] = l /\ \A s \in Thread \ {t} : pc'[s] = pc[s]
  BY <1>1, <1>2, <1>3, <1>4, <1>5, OnlyMoves, Zenon
<1>7. Kinds'
  <2>1. /\ pc'[t] \in CallerPC
        /\ \A s \in Thread \ {t} : pc'[s] = pc[s] /\ cont'[s] = cont[s]
    BY <1>3, <1>4, <1>6
  <2> QED
    BY <1>3, <1>4, <2>1, KindsKept, Zenon
<1>8. Ended'
  BY <1>3, <1>6, OthersMove, Kinships, SMTT(30)
<1> QED
  BY <1>6, <1>7, <1>8, SMTT(30) DEF IInv

LEMMA MainMoves ==
  ASSUME IInv, StartShutdown \/ JoinLoader \/ EmptyQueue \/ ShouldContinue
  PROVE  IInv'
<1>1. PICK l \in {"stop", "joinall", "process", "gone"} :
        /\ pc' = [pc EXCEPT ![Main] = l]
        /\ l = "stop" => pc[Main] = "up" /\ cont' = cont
        /\ l = "joinall" => pc[Main] = "join" /\ pc[Loader] = "gone" /\ cont' = cont
        /\ l = "process" => \/ pc[Main] = "empty"
                            \/ pc[Main] = "flush"
        /\ l = "gone" => pc[Main] = "flush" /\ m_callbacks_pending = <<>> /\ cont' = cont
  BY DEF StartShutdown, JoinLoader, EmptyQueue, ShouldContinue, Goto
<1>2. /\ UNCHANGED <<queueVars, taskVars, callback, cs_main, promised>>
      /\ ShutdownRequested' = ShutdownRequested \/ ShutdownRequested' = TRUE
      /\ pc[Main] \in {"up", "join", "empty", "flush"}
      /\ cont' = cont \/ cont' = [cont EXCEPT ![Main] = "flush"]
  BY DEF StartShutdown, JoinLoader, EmptyQueue, ShouldContinue, nodeVars
<1>3. /\ Main \in Thread /\ Main \notin Service /\ Main \notin Caller
      /\ l \in PC /\ l \in EarlyPC \cup LatePC /\ l \notin {"run", "reset", "sleep"}
      /\ pc[Main] \notin InClient
  BY <1>2, Kinships DEF PC, EarlyPC, LatePC, InClient
<1>4. /\ cont' \in [Thread -> PC]
      /\ \A s \in Thread \ {Main} : cont'[s] = cont[s]
      /\ cont'[Main] = cont[Main] \/ cont'[Main] = "flush"
  BY <1>2, <1>3 DEF IInv, TypeOK, PC
<1>5. /\ cs_main' \in Caller \cup {NoThread} /\ ShutdownRequested' \in BOOLEAN
      /\ promised' \subseteq Caller
  BY <1>2, Zenon DEF IInv, TypeOK
<1>6. /\ TypeOK' /\ Serial' /\ Numbered' /\ NoCallbackStranded'
      /\ pc'[Main] = l /\ \A s \in Thread \ {Main} : pc'[s] = pc[s]
  BY <1>1, <1>2, <1>3, <1>4, <1>5, OnlyMoves, Zenon
<1>7. Kinds'
  <2>1. l \in LatePC => cont'[Main] \in {"empty", "flush"}
    BY <1>1, <1>4 DEF IInv, Kinds, LatePC, InClient
  <2> QED
    BY <1>3, <1>4, <1>6, <2>1, KindsKept, SMTT(30)
<1>8. Ended'
  <2>1. m_callbacks_pending' = m_callbacks_pending
    BY <1>2 DEF queueVars
  <2>2. CASE l \in {"stop", "joinall"}
    BY <1>1, <1>6, <2>2, Kinships, SMTT(30) DEF IInv, Ended, LatePC, InClient
  <2>3. CASE l \in {"process", "gone"}
    <3>1. pc[Main] \in LatePC
      BY <1>1, <2>3 DEF LatePC
    <3>2. \A s \in Thread \ {Main} : pc'[s] = "gone"
      BY <1>6, <3>1 DEF IInv, Ended
    <3> QED
      BY <1>1, <1>6, <2>1, <2>3, <3>2 DEF Ended
  <2> QED
    BY <1>1, <2>2, <2>3
<1> QED
  BY <1>6, <1>7, <1>8, SMTT(30) DEF IInv

-----------------------------------------------------------------------------

LEMMA InitIInv ==
  ASSUME Init
  PROVE  IInv
<1>1. /\ pc \in [Thread -> PC] /\ cont \in [Thread -> PC]
      /\ \A t \in Thread : pc[t] \in {"check", "up", "limit", "idle"}
      /\ \A t \in Service : pc[t] = "check" /\ cont[t] = "check"
      /\ \A t \in Caller : pc[t] \in {"limit", "idle"} /\ cont[t] = "idle"
      /\ pc[Main] = "up"
  BY Kinships DEF Init, PC
<1>2. NoCallback \in Callback
  BY DEF NoCallback, Callback
<1>3. TypeOK
  <2>1. callback \in [Thread -> Callback]
    BY <1>2 DEF Init
  <2>2. /\ m_callbacks_pending \in Seq(Callback) /\ promised \subseteq Caller
        /\ cs_main \in Caller \cup {NoThread}
    BY DEF Init
  <2>3. taskQueue \in Nat /\ enqueued \in Nat /\ completed \in 0 .. enqueued
    BY DEF Init
  <2>4. /\ stopRequested \in BOOLEAN /\ m_are_callbacks_running \in BOOLEAN
        /\ ShutdownRequested \in BOOLEAN
    BY Zenon DEF Init
  <2> QED
    BY <1>1, <2>1, <2>2, <2>3, <2>4 DEF TypeOK
<1>4. Kinds
  BY <1>1 DEF Kinds, ServicePC, CallerPC, EarlyPC, LatePC, InClient
<1>5. Running = {}
  BY <1>1 DEF Running
<1>6. Serial /\ Numbered
  BY <1>5 DEF Init, Serial, Numbered, Busy
<1>7. Ended /\ NoCallbackStranded
  BY <1>1 DEF Init, Ended, LatePC, InClient, NoCallbackStranded
<1> QED
  BY <1>3, <1>4, <1>6, <1>7 DEF IInv

LEMMA NextIInv ==
  ASSUME IInv, [Next]_vars
  PROVE  IInv'
<1>1. CASE UNCHANGED vars
  <2>1. UNCHANGED <<queueVars, taskVars, nodeVars, pc, cont, callback>> /\ Running' = Running
    BY <1>1 DEF vars, Running
  <2>2. TypeOK'
    BY <2>1 DEF IInv, TypeOK, queueVars, taskVars, nodeVars
  <2>3. Kinds' /\ Ended' /\ NoCallbackStranded'
    BY <2>1, SMTT(30) DEF IInv, Kinds, Ended, NoCallbackStranded, queueVars, taskVars
  <2> QED
    BY <2>1, <2>2, <2>3, QueueUntouched DEF IInv
<1>2. ASSUME NEW t \in Thread, Client(t)
      PROVE  IInv'
  <2>1. CASE MaybeScheduleProcessQueue(t)
    BY <2>1, MaybeSchedules
  <2>2. CASE Schedule(t)
    BY <2>2, Schedules
  <2>3. CASE ProcessQueue(t)
    BY <2>3, ProcessesNothing, ProcessesOne
  <2>4. CASE RunCallback(t)
    BY <2>4, RunsCallback
  <2>5. CASE CallbackDone(t)
    BY <2>5, CallbackEnds
  <2> QED
    BY <1>2, <2>1, <2>2, <2>3, <2>4, <2>5 DEF Client
<1>3. ASSUME NEW t \in Caller, SyncWithValidationInterfaceQueue(t)
      PROVE  IInv'
  <2>1. /\ Push(t, t, "wait") /\ pc[t] = "sync" /\ t \in Thread
        /\ UNCHANGED <<ShutdownRequested, promised>>
        /\ cs_main' \in Caller \cup {NoThread}
    BY <1>3, Kinships DEF SyncWithValidationInterfaceQueue, nodeVars, IInv, TypeOK
  <2> QED
    BY <2>1, Pushes
<1>4. CASE BlockConnected
  <2>1. /\ Push(Loader, NoThread, "update") /\ pc[Loader] = "section"
        /\ Loader \in Thread /\ Loader \in Caller
        /\ UNCHANGED <<ShutdownRequested, promised>>
        /\ cs_main' \in Caller \cup {NoThread}
    BY <1>4, Kinships DEF BlockConnected
  <2> QED
    BY <2>1, Pushes
<1>5. CASE UpdatedBlockTip
  <2>1. /\ Push(Loader, NoThread, "unlock") /\ pc[Loader] = "update"
        /\ Loader \in Thread /\ Loader \in Caller
        /\ UNCHANGED <<ShutdownRequested, promised>>
        /\ cs_main' \in Caller \cup {NoThread}
    BY <1>5, Kinships, SMTT(30) DEF UpdatedBlockTip, nodeVars, IInv, TypeOK
  <2> QED
    BY <2>1, Pushes
<1>6. CASE JoinAll
  <2>1. /\ Push(Main, NoThread, "empty") /\ pc[Main] = "joinall" /\ Main \in Thread
        /\ UNCHANGED <<ShutdownRequested, promised>>
        /\ cs_main' \in Caller \cup {NoThread}
    BY <1>6, Kinships DEF JoinAll, nodeVars, IInv, TypeOK
  <2>2. \A s \in Thread \ {Main} : pc[s] = "gone"
    BY <1>6, <2>1, Kinships, SMTT(30) DEF JoinAll, IInv, Ended
  <2> QED
    BY <2>1, <2>2, Pushes
<1>7. ASSUME NEW t \in Thread, Step(t)
      PROVE  IInv'
  <2>1. CASE Client(t)
    BY <1>2, <2>1
  <2>2. CASE t \in Service /\ (ServiceQueue(t) \/ TakeTask(t))
    BY <2>2, ServiceMoves, TakesTask
  <2>3. CASE t \in Caller /\ (SyncWithValidationInterfaceQueue(t) \/ Wait(t) \/ EndThread(t))
    BY <1>3, <2>3, CallerMoves
  <2>4. CASE t = Cleaner /\ EraseBlocks
    BY <2>4, CallerMoves, Kinships
  <2>5. CASE t = Loader /\ (\/ LimitValidationInterfaceQueue \/ NothingToConnect
                            \/ BlockConnected \/ UpdatedBlockTip \/ EndRound)
    BY <1>4, <1>5, <2>5, CallerMoves, Kinships
  <2>6. CASE t = Main /\ (\/ StopScheduler \/ JoinLoader \/ JoinAll \/ EmptyQueue
                          \/ ShouldContinue)
    BY <1>6, <2>6, Stops, MainMoves
  <2> QED
    BY <1>7, <2>1, <2>2, <2>3, <2>4, <2>5, <2>6 DEF Step
<1>8. ASSUME NEW t \in Caller, NeedQueue(t)
      PROVE  IInv'
  BY <1>8, CallerMoves
<1>9. ASSUME NEW t \in Service, SpuriousWakeUp(t)
      PROVE  IInv'
  BY <1>9, ServiceMoves
<1>10. CASE StartShutdown
  BY <1>10, MainMoves
<1> QED
  BY <1>1, <1>7, <1>8, <1>9, <1>10 DEF Next

-----------------------------------------------------------------------------

LEMMA Invariance == Spec => []IInv
<1>1. Init => IInv
  BY InitIInv
<1>2. IInv /\ [Next]_vars => IInv'
  BY NextIInv
<1> QED
  BY <1>1, <1>2, PTL DEF Spec

(***************************************************************************)
(* "each callback will complete before the next one is invoked", "in the   *)
(* order in which the events were generated" (validationinterface.h 66-73),*)
(* however many threads serve the scheduler.                               *)
(***************************************************************************)
THEOREM AlwaysOneAtATimeInOrder == Spec => []OneAtATimeInOrder
<1>1. ASSUME IInv PROVE OneAtATimeInOrder
  <2>1. Cardinality(Running) = Busy
    <3>1. CASE Running = {}
      BY <1>1, <3>1, FS_EmptySet DEF IInv, Serial, Busy
    <3>2. CASE Running # {}
      <4>1. PICK t \in Running : TRUE
        BY <3>2
      <4>2. Running = {t}
        BY <1>1, <4>1 DEF IInv, Serial
      <4>3. Cardinality({t}) = 1
        BY FS_Singleton, Zenon
      <4> QED
        BY <1>1, <3>2, <4>2, <4>3 DEF IInv, Serial, Busy
    <3> QED
      BY <3>1, <3>2
  <2>2. DOMAIN m_callbacks_pending = 1 .. Len(m_callbacks_pending)
    BY <1>1 DEF IInv, TypeOK
  <2>3. Busy <= 1
    BY DEF Busy
  <2> QED
    BY <1>1, <2>1, <2>2, <2>3 DEF IInv, Numbered, OneAtATimeInOrder
<1> QED
  BY <1>1, Invariance, PTL

(***************************************************************************)
(* A pending callback has somebody who runs it or sees that it is run      *)
(* until the scheduler is stopped, though MaybeScheduleProcessQueue        *)
(* schedules nothing while callbacks run (scheduler.cpp 132-171).          *)
(***************************************************************************)
THEOREM NeverStranded == Spec => []NoCallbackStranded
<1>1. IInv => NoCallbackStranded
  BY DEF IInv
<1> QED
  BY <1>1, Invariance, PTL

(***************************************************************************)
(* Shutdown empties the queue only when no thread serves it, and ends only *)
(* when every callback ever enqueued has run (init.cpp 256-270).           *)
(***************************************************************************)
THEOREM ShutdownDelivers == Spec => []FlushDelivers
<1>1. ASSUME IInv PROVE FlushDelivers
  <2>1. pc[Main] \in {"empty", "flush"} => \A t \in Service : pc[t] = "gone"
    BY <1>1, Kinships DEF IInv, Ended, LatePC
  <2>2. ASSUME pc[Main] = "gone" PROVE completed = enqueued
    <3>1. \A t \in Thread : pc[t] = "gone"
      BY <1>1, <2>2 DEF IInv, Ended, LatePC
    <3>2. Running = {} /\ m_callbacks_pending = <<>>
      BY <1>1, <2>2, <3>1 DEF IInv, Ended, Running
    <3>3. Busy = 0 /\ Len(m_callbacks_pending) = 0
      BY <1>1, <3>2 DEF IInv, Serial, Busy
    <3> QED
      BY <1>1, <3>3, SMTT(30) DEF IInv, TypeOK, Numbered
  <2> QED
    BY <2>1, <2>2 DEF FlushDelivers
<1> QED
  BY <1>1, Invariance, PTL
=============================================================================
