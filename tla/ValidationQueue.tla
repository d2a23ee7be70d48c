--------------------------- MODULE ValidationQueue ---------------------------
(***************************************************************************)
(* The scheduler (scheduler.cpp), the queue of validation callbacks that   *)
(* it serves (SingleThreadedSchedulerClient), the threads that wait for    *)
(* the queue, and the part of Shutdown (init.cpp) that ends them.          *)
(*                                                                         *)
(* One action per critical section of newTaskMutex, m_cs_callbacks_pending *)
(* or m_mutex.  All tasks of the scheduler are ProcessQueue tasks, due at  *)
(* once; the periodic ones, and the list of subscribers that a callback    *)
(* goes through, are left out.                                             *)
(***************************************************************************)
EXTENDS Integers, Sequences, FiniteSets

CONSTANTS
  Service,       \* threads that run serviceQueue
  Loader,        \* the thread of ThreadImport, which calls ActivateBestChain
  Cleaner,       \* the thread of CleanBlockIndex
  Rpc,           \* threads of the HTTP server, which wait for the queue
  Main,          \* the thread that runs Shutdown
  NoThread,      \* cs_main is free
  MaxPending,    \* the 10 of LimitValidationInterfaceQueue
  MaxCallbacks   \* bound: callbacks that are ever enqueued, but for the last

Caller == {Loader, Cleaner} \cup Rpc
Thread == Service \cup Caller \cup {Main}

ASSUME ThreadAssumption ==
  /\ Service # {} /\ NoThread \notin Thread
  /\ Service \cap Caller = {} /\ Main \notin Service \cup Caller
  /\ Loader # Cleaner /\ {Loader, Cleaner} \cap Rpc = {}
  /\ MaxPending \in Nat /\ MaxCallbacks \in Nat

VARIABLES
  taskQueue,          \* how many tasks are scheduled
  stopRequested,
  m_callbacks_pending,
  m_are_callbacks_running,
  cs_main,            \* who holds it
  ShutdownRequested,
  pc,
  cont,               \* where ProcessQueue or AddToProcessQueue returns to
  callback,           \* what each thread runs in ProcessQueue
  promised,           \* the threads whose promise has been set
  enqueued,           \* history: callbacks enqueued
  completed           \* history: callbacks completed

queueVars == <<m_callbacks_pending, m_are_callbacks_running, enqueued, completed>>
taskVars == <<taskQueue, stopRequested>>
nodeVars == <<cs_main, ShutdownRequested, promised>>
vars == <<queueVars, taskVars, nodeVars, pc, cont, callback>>

\* A callback carries its number, and the thread whose promise it sets or
\* NoThread if it is an event for the subscribers.
Callback == [n : Nat, sync : Caller \cup {NoThread}]

NoCallback == [n |-> 0, sync |-> NoThread]

PC ==
  {"check", "sleep", "timed",                       \* serviceQueue
   "process", "run", "reset",                       \* ProcessQueue
   "maybe", "schedule",                             \* MaybeScheduleProcessQueue
   "idle", "sync", "wait", "erase",                 \* threads that wait for the queue
   "limit", "section", "update", "unlock",          \* ActivateBestChain
   "up", "stop", "join", "joinall", "empty", "flush", \* Shutdown
   "gone"}

TypeOK ==
  /\ taskQueue \in Nat /\ stopRequested \in BOOLEAN
  /\ m_callbacks_pending \in Seq(Callback) /\ m_are_callbacks_running \in BOOLEAN
  /\ cs_main \in Caller \cup {NoThread} /\ ShutdownRequested \in BOOLEAN
  /\ pc \in [Thread -> PC] /\ cont \in [Thread -> PC]
  /\ callback \in [Thread -> Callback]
  /\ promised \subseteq Caller
  /\ enqueued \in Nat /\ completed \in 0 .. enqueued

Init ==
  /\ taskQueue = 0 /\ stopRequested = FALSE
  /\ m_callbacks_pending = <<>> /\ m_are_callbacks_running = FALSE
  /\ cs_main = NoThread /\ ShutdownRequested = FALSE
  /\ pc = [t \in Thread |-> IF t \in Service THEN "check"
                            ELSE IF t = Main THEN "up"
                            ELSE IF t = Loader THEN "limit" ELSE "idle"]
  /\ cont = [t \in Thread |-> IF t \in Service THEN "check" ELSE "idle"]
  /\ callback = [t \in Thread |-> NoCallback]
  /\ promised = {} /\ enqueued = 0 /\ completed = 0

Goto(t, label) == pc' = [pc EXCEPT ![t] = label]

-----------------------------------------------------------------------------
(* CScheduler                                                              *)

Waiting == {t \in Service : pc[t] \in {"sleep", "timed"}}

\* A thread in wait, or in wait_until with nothing left to wait for, leaves
\* it; one that still has a task to wait for goes back to wait_until.
Notified(W, tasks, stop) ==
  [t \in Thread |-> IF t \in W /\ (pc[t] = "sleep" \/ tasks = 0 \/ stop)
                    THEN "check" ELSE pc[t]]

\* serviceQueue at the head of its loop
ServiceQueue(t) ==
  /\ pc[t] = "check"
  /\ Goto(t, IF stopRequested THEN "gone"
             ELSE IF taskQueue = 0 THEN "sleep" ELSE "timed")
  /\ UNCHANGED <<queueVars, taskVars, nodeVars, cont, callback>>

SpuriousWakeUp(t) ==
  /\ pc[t] = "sleep"
  /\ Goto(t, "check")
  /\ UNCHANGED <<queueVars, taskVars, nodeVars, cont, callback>>

\* wait_until has timed out.
TakeTask(t) ==
  /\ pc[t] = "timed"
  /\ \/ /\ stopRequested \/ taskQueue = 0
        /\ Goto(t, "check")
        /\ UNCHANGED taskQueue
     \/ /\ ~stopRequested /\ taskQueue > 0
        /\ taskQueue' = taskQueue - 1
        /\ Goto(t, "process")
  /\ UNCHANGED <<queueVars, stopRequested, nodeVars, cont, callback>>

\* schedule, with notify_one
Schedule(t) ==
  /\ pc[t] = "schedule"
  /\ taskQueue' = taskQueue + 1
  /\ \E W \in {W \in SUBSET Waiting : Cardinality(W) = IF Waiting = {} THEN 0 ELSE 1} :
       pc' = [Notified(W, taskQueue + 1, stopRequested) EXCEPT ![t] = cont[t]]
  /\ UNCHANGED <<queueVars, stopRequested, nodeVars, cont, callback>>

-----------------------------------------------------------------------------
(* SingleThreadedSchedulerClient                                           *)

\* The first half of AddToProcessQueue: thread t appends a callback.
Push(t, sync, label) ==
  /\ enqueued' = enqueued + 1
  /\ m_callbacks_pending' = Append(m_callbacks_pending, [n |-> enqueued + 1, sync |-> sync])
  /\ cont' = [cont EXCEPT ![t] = label]
  /\ Goto(t, "maybe")
  /\ UNCHANGED <<m_are_callbacks_running, completed, taskVars, callback>>

MaybeScheduleProcessQueue(t) ==
  /\ pc[t] = "maybe"
  /\ Goto(t, IF m_are_callbacks_running \/ m_callbacks_pending = <<>>
             THEN cont[t] ELSE "schedule")
  /\ UNCHANGED <<queueVars, taskVars, nodeVars, cont, callback>>

\* A plausible mistake: the flag is not looked at.
ProcessQueueAnyway(t) ==
  /\ pc[t] = "process"
  /\ \/ /\ m_callbacks_pending = <<>>
        /\ Goto(t, cont[t])
        /\ UNCHANGED <<m_callbacks_pending, m_are_callbacks_running, callback>>
     \/ /\ m_callbacks_pending # <<>>
        /\ m_are_callbacks_running' = TRUE
        /\ callback' = [callback EXCEPT ![t] = Head(m_callbacks_pending)]
        /\ m_callbacks_pending' = Tail(m_callbacks_pending)
        /\ Goto(t, "run")
  /\ UNCHANGED <<enqueued, completed, taskVars, nodeVars, cont>>

\* ProcessQueue up to the call of the callback
ProcessQueue(t) ==
  /\ pc[t] = "process"
  /\ \/ /\ m_are_callbacks_running \/ m_callbacks_pending = <<>>
        /\ Goto(t, cont[t])
        /\ UNCHANGED <<m_callbacks_pending, m_are_callbacks_running, callback>>
     \/ /\ ~m_are_callbacks_running /\ m_callbacks_pending # <<>>
        /\ m_are_callbacks_running' = TRUE
        /\ callback' = [callback EXCEPT ![t] = Head(m_callbacks_pending)]
        /\ m_callbacks_pending' = Tail(m_callbacks_pending)
        /\ Goto(t, "run")
  /\ UNCHANGED <<enqueued, completed, taskVars, nodeVars, cont>>

\* A plausible mistake: only the flag is reset.
CallbackDoneSilent(t) ==
  /\ pc[t] = "reset"
  /\ m_are_callbacks_running' = FALSE
  /\ completed' = completed + 1
  /\ callback' = [callback EXCEPT ![t] = NoCallback]
  /\ Goto(t, cont[t])
  /\ UNCHANGED <<m_callbacks_pending, enqueued, taskVars, nodeVars, cont>>

\* ~RAIICallbacksRunning
CallbackDone(t) ==
  /\ pc[t] = "reset"
  /\ m_are_callbacks_running' = FALSE
  /\ completed' = completed + 1
  /\ callback' = [callback EXCEPT ![t] = NoCallback]
  /\ Goto(t, "maybe")
  /\ UNCHANGED <<m_callbacks_pending, enqueued, taskVars, nodeVars, cont>>

\* The callback: it sets a promise, or tells the subscribers (Iterate), which
\* may lock cs_main.
RunCallback(t) ==
  /\ pc[t] = "run"
  /\ \/ /\ callback[t].sync # NoThread
        /\ promised' = promised \cup {callback[t].sync}
     \/ /\ callback[t].sync = NoThread /\ cs_main = NoThread
        /\ UNCHANGED promised
  /\ Goto(t, "reset")
  /\ UNCHANGED <<queueVars, taskVars, cs_main, ShutdownRequested, cont, callback>>

-----------------------------------------------------------------------------
(* The threads that enqueue callbacks, and wait for the queue              *)

\* SyncWithValidationInterfaceQueue
SyncWithValidationInterfaceQueue(t) ==
  /\ pc[t] = "sync"
  /\ Push(t, t, "wait")
  /\ UNCHANGED nodeVars

Wait(t) ==
  /\ pc[t] = "wait" /\ t \in promised
  /\ Goto(t, IF t = Loader THEN "section" ELSE IF t = Cleaner THEN "erase" ELSE "idle")
  /\ promised' = promised \ {t}
  /\ cont' = [cont EXCEPT ![t] = "idle"]
  /\ UNCHANGED <<queueVars, taskVars, cs_main, ShutdownRequested, callback>>

\* CleanBlockIndex has selected blocks to erase, or a call of the RPC server
\* needs the wallet or an index to be up to date: neither holds cs_main.
NeedQueue(t) ==
  /\ t # Loader /\ pc[t] = "idle" /\ ~ShutdownRequested
  /\ cs_main = NoThread
  /\ enqueued < MaxCallbacks
  /\ Goto(t, "sync")
  /\ UNCHANGED <<queueVars, taskVars, nodeVars, cont, callback>>

\* CleanBlockIndex erases the blocks.
EraseBlocks ==
  /\ pc[Cleaner] = "erase" /\ cs_main = NoThread
  /\ Goto(Cleaner, "idle")
  /\ UNCHANGED <<queueVars, taskVars, nodeVars, cont, callback>>

\* The loop of CleanBlockIndex, or the HTTP server's thread, ends.
EndThread(t) ==
  /\ t # Loader /\ pc[t] = "idle" /\ ShutdownRequested
  /\ Goto(t, "gone")
  /\ UNCHANGED <<queueVars, taskVars, nodeVars, cont, callback>>

\* A plausible mistake: the queue is awaited with cs_main.
LimitValidationInterfaceQueueLocked ==
  /\ pc[Loader] = "limit" /\ cs_main = NoThread
  /\ Goto(Loader, IF Len(m_callbacks_pending) > MaxPending THEN "sync" ELSE "section")
  /\ cs_main' = IF Len(m_callbacks_pending) > MaxPending THEN Loader ELSE NoThread
  /\ UNCHANGED <<queueVars, taskVars, ShutdownRequested, promised, cont, callback>>

LimitValidationInterfaceQueue ==
  /\ pc[Loader] = "limit"
  /\ Goto(Loader, IF Len(m_callbacks_pending) > MaxPending THEN "sync" ELSE "section")
  /\ UNCHANGED <<queueVars, taskVars, nodeVars, cont, callback>>

\* ActivateBestChain locks cs_main and finds nothing to do,
NothingToConnect ==
  /\ pc[Loader] = "section" /\ cs_main = NoThread
  /\ Goto(Loader, "gone")
  /\ UNCHANGED <<queueVars, taskVars, nodeVars, cont, callback>>

\* or connects a block, of which it tells the subscribers while it holds cs_main.
BlockConnected ==
  /\ pc[Loader] = "section" /\ cs_main = NoThread
  /\ enqueued + 1 < MaxCallbacks
  /\ cs_main' = Loader
  /\ Push(Loader, NoThread, "update")
  /\ UNCHANGED <<ShutdownRequested, promised>>

UpdatedBlockTip ==
  /\ pc[Loader] = "update"
  /\ Push(Loader, NoThread, "unlock")
  /\ UNCHANGED nodeVars

\* The critical section of cs_main ends; the next round starts.
EndRound ==
  /\ pc[Loader] = "unlock"
  /\ cs_main' = NoThread
  /\ Goto(Loader, IF ShutdownRequested THEN "gone" ELSE "limit")
  /\ cont' = [cont EXCEPT ![Loader] = "idle"]
  /\ UNCHANGED <<queueVars, taskVars, ShutdownRequested, promised, callback>>

-----------------------------------------------------------------------------
(* Shutdown                                                                *)

StartShutdown ==
  /\ pc[Main] = "up"
  /\ ShutdownRequested' = TRUE
  /\ Goto(Main, "stop")
  /\ UNCHANGED <<queueVars, taskVars, cs_main, promised, cont, callback>>

\* StopHTTPServer has joined the threads of the RPC server; scheduler->stop().
StopScheduler ==
  /\ pc[Main] = "stop" /\ \A t \in Rpc : pc[t] = "gone"
  /\ stopRequested' = TRUE
  /\ pc' = [Notified(Waiting, taskQueue, TRUE) EXCEPT ![Main] = "join"]
  /\ UNCHANGED <<queueVars, taskQueue, nodeVars, cont, callback>>

\* g_load_block.join()
JoinLoader ==
  /\ pc[Main] = "join" /\ pc[Loader] = "gone"
  /\ Goto(Main, "joinall")
  /\ UNCHANGED <<queueVars, taskVars, nodeVars, cont, callback>>

\* threadGroup.join_all(), then ForceFlushStateToDisk, which enqueues
\* ChainStateFlushed
JoinAll ==
  /\ pc[Main] = "joinall" /\ \A t \in Service \cup {Cleaner} : pc[t] = "gone"
  /\ Push(Main, NoThread, "empty")
  /\ UNCHANGED nodeVars

\* FlushBackgroundCallbacks calls EmptyQueue.
EmptyQueue ==
  /\ pc[Main] = "empty"
  /\ cont' = [cont EXCEPT ![Main] = "flush"]
  /\ Goto(Main, "process")
  /\ UNCHANGED <<queueVars, taskVars, nodeVars, callback>>

\* A plausible mistake: one callback is run.
ShouldContinueNot ==
  /\ pc[Main] = "flush"
  /\ Goto(Main, "gone")
  /\ UNCHANGED <<queueVars, taskVars, nodeVars, cont, callback>>

ShouldContinue ==
  /\ pc[Main] = "flush"
  /\ Goto(Main, IF m_callbacks_pending = <<>> THEN "gone" ELSE "process")
  /\ UNCHANGED <<queueVars, taskVars, nodeVars, cont, callback>>

-----------------------------------------------------------------------------

Client(t) ==
  \/ MaybeScheduleProcessQueue(t) \/ Schedule(t)
  \/ ProcessQueue(t) \/ RunCallback(t) \/ CallbackDone(t)

Step(t) ==
  \/ Client(t)
  \/ t \in Service /\ (ServiceQueue(t) \/ TakeTask(t))
  \/ t \in Caller /\ (SyncWithValidationInterfaceQueue(t) \/ Wait(t) \/ EndThread(t))
  \/ t = Cleaner /\ EraseBlocks
  \/ /\ t = Loader
     /\ \/ LimitValidationInterfaceQueue \/ NothingToConnect \/ BlockConnected
        \/ UpdatedBlockTip \/ EndRound
  \/ /\ t = Main
     /\ \/ StopScheduler \/ JoinLoader \/ JoinAll \/ EmptyQueue
        \/ ShouldContinue

Next ==
  \/ \E t \in Thread : Step(t)
  \/ \E t \in Caller : NeedQueue(t)
  \/ \E t \in Service : SpuriousWakeUp(t)
  \/ StartShutdown

Spec == Init /\ [][Next]_vars

(***************************************************************************)
(* A thread that can go on does: the mutexes are held for short, callbacks *)
(* terminate, and cs_main is let go between the rounds of ActivateBestChain.*)
(***************************************************************************)
FairSpec == Spec /\ \A t \in Thread : WF_vars(Step(t))

-----------------------------------------------------------------------------

(***************************************************************************)
(* "each callback will complete before the next one is invoked", "in the   *)
(* order in which the events were generated" (validationinterface.h        *)
(* 66-73), whichever threads of the scheduler run them.                    *)
(***************************************************************************)
Running == {t \in Thread : pc[t] \in {"run", "reset"}}

OneAtATimeInOrder ==
  /\ \A t \in Running : callback[t].n = completed + 1
  /\ \A i \in DOMAIN m_callbacks_pending :
       m_callbacks_pending[i].n = completed + Cardinality(Running) + i
  /\ Cardinality(Running) <= 1

(***************************************************************************)
(* MaybeScheduleProcessQueue may schedule nothing when callbacks are       *)
(* running: still, as long as the scheduler is not stopped, a callback     *)
(* that is pending has somebody to run it or to see that it is run         *)
(* (scheduler.cpp 132-143, 158-171).                                       *)
(***************************************************************************)
NoCallbackStranded ==
  m_callbacks_pending # <<>> /\ ~stopRequested =>
    \/ \E t \in Thread : pc[t] \in {"maybe", "schedule", "process"}
    \/ Running # {}
    \/ taskQueue > 0 /\ \E t \in Service : pc[t] # "sleep"

(***************************************************************************)
(* Shutdown flushes the callbacks only when no thread serves the queue     *)
(* (the assertion of scheduler.cpp 189), and then runs every callback that *)
(* was ever enqueued before it unregisters the subscribers (init.cpp       *)
(* 256-270).                                                               *)
(***************************************************************************)
FlushDelivers ==
  /\ pc[Main] \in {"empty", "flush"} => \A t \in Service : pc[t] = "gone"
  /\ pc[Main] = "gone" => completed = enqueued

(***************************************************************************)
(* A thread that waits for the queue goes on, though ActivateBestChain     *)
(* waits while it holds m_cs_chainstate (validation.cpp 3502-3508), the    *)
(* callbacks need cs_main, and the others keep enqueueing - unless the     *)
(* scheduler is stopped first.                                             *)
(***************************************************************************)
WaitEnds ==
  \A t \in Caller : (pc[t] = "wait") ~> (pc[t] # "wait" \/ stopRequested)

(***************************************************************************)
(* "A clean exit happens when StartShutdown() or the SIGTERM signal        *)
(* handler sets ShutdownRequested()" (init.cpp 146-148): Shutdown joins    *)
(* every thread and ends.  It may not: the scheduler is stopped while a    *)
(* thread still waits for its queue (README, section 4).                   *)
(***************************************************************************)
ShutdownEnds == ShutdownRequested ~> (pc[Main] = "gone")
=============================================================================
