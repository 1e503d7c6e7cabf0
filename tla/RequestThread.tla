--------------------------- MODULE RequestThread ---------------------------
(***************************************************************************)
(* util::RequestThread: a RequestDispatcher that executes Runnables in a   *)
(* thread of its own.  Producers append to m_taskQueue under m_taskMutex   *)
(* and raise m_taskSemaphore only when the queue was empty; the worker     *)
(* waits for the semaphore, takes the whole queue under the mutex and      *)
(* executes it; the destructor stops the worker, joins it and deletes what *)
(* is left.  Every critical section of m_taskMutex is one step, and so is  *)
(* every semaphore operation made outside of it.                           *)
(***************************************************************************)
EXTENDS Sequences, Integers

CONSTANT Tasks          \* the Runnables; each one is posted at most once

VARIABLES
    m_taskQueue,        \* waiting tasks, protected by m_taskMutex
    m_taskSemaphore,    \* count of the semaphore
    m_stop,             \* stop flag, protected by m_taskMutex
    worker,             \* where the thread is in run()
    tasks,              \* the worker's local vector, without destroyed elements
    dtor,               \* where the destructor is; "alive" before it is called
    leftover,           \* the destructor's local vector
    posted, ran, destroyed    \* history: see RequestDispatcher

queueVars == <<m_taskQueue, m_taskSemaphore, m_stop>>
workerVars == <<worker, tasks>>
dtorVars == <<dtor, leftover>>
historyVars == <<posted, ran, destroyed>>
threadVars == <<queueVars, workerVars, dtorVars, historyVars>>

Members(s) == {s[i] : i \in DOMAIN s}

ThreadTypeOK ==
    /\ m_taskQueue \in Seq(Tasks)
    /\ m_taskSemaphore \in Nat
    /\ m_stop \in BOOLEAN
    /\ worker \in {"wait", "fetch", "run", "destroy", "done"}
    /\ tasks \in Seq(Tasks)
    /\ dtor \in {"alive", "stopping", "join", "drain", "gone"}
    /\ leftover \in Seq(Tasks)
    /\ posted \in Seq(Tasks)
    /\ ran \in Seq(Tasks)
    /\ destroyed \in Seq(Tasks)

ThreadInit ==
    /\ m_taskQueue = <<>>
    /\ m_taskSemaphore = 0
    /\ m_stop = FALSE
    /\ worker = "wait"
    /\ tasks = <<>>
    /\ dtor = "alive"
    /\ leftover = <<>>
    /\ posted = <<>>
    /\ ran = <<>>
    /\ destroyed = <<>>

-----------------------------------------------------------------------------
(* Producers *)

(* Mutant: the semaphore counts tasks instead of empty-to-nonempty changes. *)
PostEveryTime(t) ==
    /\ t \notin Members(posted)
    /\ posted' = Append(posted, t)
    /\ m_taskQueue' = Append(m_taskQueue, t)
    /\ m_taskSemaphore' = m_taskSemaphore + 1
    /\ UNCHANGED m_stop

(* postNewRunnable(), one critical section. *)
PostNewRunnable(t) ==
    /\ t \notin Members(posted)
    /\ posted' = Append(posted, t)
    /\ m_taskQueue' = Append(m_taskQueue, t)
    /\ m_taskSemaphore' = IF Len(m_taskQueue') = 1 THEN m_taskSemaphore + 1
                                                   ELSE m_taskSemaphore
    /\ UNCHANGED m_stop

(* Any thread may post as long as nobody destroys the object. *)
PostFromClient(t) ==
    /\ dtor = "alive"
    /\ PostNewRunnable(t)
    /\ UNCHANGED <<workerVars, dtorVars, ran, destroyed>>

(* A task that is being executed or deleted by the worker posts another    *)
(* one to its own thread, even when the destructor already waits in join().*)
PostFromTask(t) ==
    /\ worker = "destroy"
    /\ PostNewRunnable(t)
    /\ UNCHANGED <<workerVars, dtorVars, ran, destroyed>>

-----------------------------------------------------------------------------
(* The worker: run() *)

AwaitSemaphore ==
    /\ worker = "wait"
    /\ m_taskSemaphore > 0
    /\ m_taskSemaphore' = m_taskSemaphore - 1
    /\ worker' = "fetch"
    /\ UNCHANGED <<m_taskQueue, m_stop, tasks, dtorVars, historyVars>>

(* A stopped worker leaves m_taskQueue alone. *)
FetchStopped ==
    /\ worker = "fetch"
    /\ m_stop
    /\ worker' = "done"
    /\ UNCHANGED <<queueVars, tasks, dtorVars, historyVars>>

FetchTasks ==
    /\ worker = "fetch"
    /\ ~m_stop
    /\ tasks' = m_taskQueue
    /\ m_taskQueue' = <<>>
    /\ worker' = IF m_taskQueue = <<>> THEN "wait" ELSE "run"
    /\ UNCHANGED <<m_taskSemaphore, m_stop, dtorVars, historyVars>>

(* tasks[i]->run(); an exception is logged and changes nothing here.  From *)
(* here to DestroyTask the task's own code runs.                           *)
RunTask ==
    /\ worker = "run"
    /\ ran' = Append(ran, Head(tasks))
    /\ worker' = "destroy"
    /\ UNCHANGED <<queueVars, tasks, dtorVars, posted, destroyed>>

DestroyTask ==
    /\ worker = "destroy"
    /\ destroyed' = Append(destroyed, Head(tasks))
    /\ tasks' = Tail(tasks)
    /\ worker' = IF Tail(tasks) = <<>> THEN "wait" ELSE "run"
    /\ UNCHANGED <<queueVars, dtorVars, posted, ran>>

-----------------------------------------------------------------------------
(* The destructor *)

(* First half of stop(): the flag, under the mutex. *)
StopSetFlag ==
    /\ dtor = "alive"
    /\ m_stop' = TRUE
    /\ dtor' = "stopping"
    /\ UNCHANGED <<m_taskQueue, m_taskSemaphore, workerVars, leftover, historyVars>>

(* Mutant: stop() only sets the flag. *)
StopWithoutPost ==
    /\ dtor = "stopping"
    /\ dtor' = "join"
    /\ UNCHANGED <<queueVars, workerVars, leftover, historyVars>>

(* Second half of stop(): the semaphore, after the mutex was released. *)
StopPost ==
    /\ dtor = "stopping"
    /\ m_taskSemaphore' = m_taskSemaphore + 1
    /\ dtor' = "join"
    /\ UNCHANGED <<m_taskQueue, m_stop, workerVars, leftover, historyVars>>

(* Mutant: an idle worker is not waited for. *)
JoinIdle ==
    /\ dtor = "join"
    /\ worker \in {"wait", "done"}
    /\ dtor' = "drain"
    /\ UNCHANGED <<queueVars, workerVars, leftover, historyVars>>

Join ==
    /\ dtor = "join"
    /\ worker = "done"
    /\ dtor' = "drain"
    /\ UNCHANGED <<queueVars, workerVars, leftover, historyVars>>

(* One round of the loop that empties the queue. *)
DrainSwap ==
    /\ dtor = "drain"
    /\ leftover = <<>>
    /\ m_taskQueue # <<>>
    /\ leftover' = m_taskQueue
    /\ m_taskQueue' = <<>>
    /\ UNCHANGED <<m_taskSemaphore, m_stop, workerVars, dtor, historyVars>>

(* Mutant: PtrVector's own destructor works from back to front. *)
DestroyBackToFront ==
    /\ dtor = "drain"
    /\ leftover # <<>>
    /\ destroyed' = Append(destroyed, leftover[Len(leftover)])
    /\ leftover' = SubSeq(leftover, 1, Len(leftover) - 1)
    /\ UNCHANGED <<workerVars, dtor, ran>>

DestroyLeftover ==
    /\ dtor = "drain"
    /\ leftover # <<>>
    /\ destroyed' = Append(destroyed, Head(leftover))
    /\ leftover' = Tail(leftover)
    /\ UNCHANGED <<workerVars, dtor, ran>>

(* The destructor of a discarded task may itself post, which is why the   *)
(* code loops until the queue stays empty.                                *)
DrainDestroy ==
    /\ DestroyLeftover
    /\ \/ UNCHANGED <<queueVars, posted>>
       \/ \E t \in Tasks : PostNewRunnable(t)

(* Mutant: the queue is emptied once, without looping. *)
DrainOnce ==
    /\ dtor = "drain"
    /\ leftover = <<>>
    /\ dtor' = "gone"
    /\ UNCHANGED <<queueVars, workerVars, leftover, historyVars>>

DrainEnd ==
    /\ dtor = "drain"
    /\ leftover = <<>>
    /\ m_taskQueue = <<>>
    /\ dtor' = "gone"
    /\ UNCHANGED <<queueVars, workerVars, leftover, historyVars>>

-----------------------------------------------------------------------------
Client == \E t \in Tasks : PostFromClient(t)
Worker ==
    \/ AwaitSemaphore
    \/ FetchStopped
    \/ FetchTasks
    \/ RunTask
    \/ \E t \in Tasks : PostFromTask(t)
    \/ DestroyTask
WorkerProgress == AwaitSemaphore \/ FetchStopped \/ FetchTasks \/ RunTask \/ DestroyTask
DestructorProgress == StopPost \/ Join \/ DrainSwap \/ DrainDestroy \/ DrainEnd

ThreadNext == Client \/ Worker \/ StopSetFlag \/ DestructorProgress

ThreadSpec == ThreadInit /\ [][ThreadNext]_threadVars

(* Threads are scheduled and every task terminates; nobody has to post and *)
(* nobody has to destroy the object, but a destructor once called goes on. *)
FairThreadSpec == ThreadSpec /\ WF_threadVars(WorkerProgress) /\ WF_threadVars(DestructorProgress)

-----------------------------------------------------------------------------
(* Properties *)

Bit(b) == IF b THEN 1 ELSE 0

(* The count of the semaphore is exact: one unit, or a worker on its way to *)
(* the queue, for a queue that is not empty, and one unit for stop().  No  *)
(* wakeup is lost although only the empty-to-nonempty transition of        *)
(* postNewRunnable() posts, and none is spurious.                          *)
WakeupAccounting ==
    worker # "done" =>
        m_taskSemaphore + Bit(worker = "fetch")
            = Bit(m_taskQueue # <<>>) + Bit(dtor = "join")

(* Nothing is lost, duplicated or reordered between postNewRunnable() and  *)
(* the deletion of a task, whoever deletes it: the destructor's comment    *)
(* "Make sure tasks are destroyed in correct order (FIFO)".                *)
Fifo == posted = destroyed \o tasks \o leftover \o m_taskQueue

(* A task is executed at most once, before it is deleted, and no task that *)
(* was executed follows one that was skipped.                              *)
RunsBeforeDestroyed ==
    /\ worker # "done" => ran = IF worker = "destroy"
                                  THEN Append(destroyed, Head(tasks))
                                  ELSE destroyed
    /\ ran = SubSeq(posted, 1, Len(ran))

(* RequestThread is a RequestDispatcher. *)
Dispatcher == INSTANCE RequestDispatcher WITH discarding <- worker = "done"
ImplementsDispatcher == Dispatcher!Spec

(* Every posted task is eventually deleted, in the thread or by its destructor. *)
EveryTaskReleased ==
    \A t \in Tasks : t \in Members(posted) ~> t \in Members(destroyed)

(* The destructor returns. *)
DestructorReturns == (dtor # "alive") ~> (dtor = "gone")

=============================================================================
