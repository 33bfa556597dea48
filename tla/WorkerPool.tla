----------------------------- MODULE WorkerPool -----------------------------
(***************************************************************************)
(* The worker pool of the advanced reactor server: task_queue.c, a bounded *)
(* queue guarded by one mutex and two condition variables, and             *)
(* thread_pool.c, the worker threads that empty it and the functions that  *)
(* stop them.  The IO threads are the producers.                           *)
(*                                                                         *)
(* Each pass through task_queue_push or task_queue_pop from the test of    *)
(* the loop condition to the next release of the mutex is one step, since  *)
(* the queue is only touched with the mutex held.  pthread_cond_wait is    *)
(* the step into "blocked" (not_full) or "asleep" (not_empty); a thread    *)
(* that is signalled, broadcast to or woken spuriously goes back to the    *)
(* test.  pool->shutdown is read and written without the mutex, in steps   *)
(* of its own.                                                             *)
(***************************************************************************)
EXTENDS Integers, Sequences, FiniteSets

CONSTANTS Producers,      \* IO threads
          Workers,        \* worker threads
          Tasks,          \* tasks that may be created, each once, numbered in
                          \*   the order of their creation
          NoTask,         \* NULL
          MaxSize         \* queue->max_size

ASSUME PoolAssumption == /\ IsFiniteSet(Producers) /\ Producers # {}
                         /\ IsFiniteSet(Workers) /\ Workers # {}
                         /\ Tasks \subseteq Nat /\ NoTask \notin Tasks
                         /\ MaxSize \in Nat \ {0}

VARIABLES queue,         \* queue->head .. queue->tail; queue->size is Len(queue)
          queueShutdown, \* queue->shutdown
          poolShutdown,  \* pool->shutdown
          early,         \* who stops the pool, fixed for a behaviour.  FALSE:
                         \*   server_destroy, after it has joined the IO threads;
                         \* TRUE: a caller of thread_pool_shutdown that does not
                         \*   wait for them, as its declaration allows
          ppc, ptask,    \* producer -> where it is, the task it submits
          wpc, wtask,    \* worker -> where it is, the task it works on
          mpc,           \* the thread that stops the pool
          done,          \* tasks processed and destroyed by a worker
          discarded,     \* tasks destroyed by task_queue_destroy
          leaked         \* tasks whose submission failed: nobody destroys them

queueVars == <<queue, queueShutdown>>
poolVars == <<poolShutdown, early>>
producerVars == <<ppc, ptask>>
workerVars == <<wpc, wtask>>
fateVars == <<done, discarded, leaked>>
vars == <<queue, queueShutdown, poolShutdown, early, ppc, ptask, wpc, wtask, mpc,
          done, discarded, leaked>>

QueuedTasks == {queue[i] : i \in 1 .. Len(queue)}

\* A task nobody has created yet.
Fresh(t) == /\ \A p \in Producers : ptask[p] # t
            /\ \A w \in Workers : wtask[w] # t
            /\ t \notin QueuedTasks \cup done \cup discarded \cup leaked

TypeOK ==
    /\ queue \in Seq(Tasks) /\ Len(queue) <= MaxSize
    /\ queueShutdown \in BOOLEAN /\ poolShutdown \in BOOLEAN /\ early \in BOOLEAN
    /\ ppc \in [Producers -> {"idle", "submit", "push", "blocked", "stopped"}]
    /\ ptask \in [Producers -> Tasks \cup {NoTask}]
    /\ wpc \in [Workers -> {"loop", "pop", "asleep", "work", "exited"}]
    /\ wtask \in [Workers -> Tasks \cup {NoTask}]
    /\ mpc \in {"running", "flagged", "closed", "destroyed"}
    /\ done \subseteq Tasks /\ discarded \subseteq Tasks /\ leaked \subseteq Tasks

-----------------------------------------------------------------------------
(***************************************************************************)
(* pthread_cond_signal and pthread_cond_broadcast: threads waiting on the  *)
(* condition go back to the test they were waiting for.                    *)
(***************************************************************************)
Signal(pc, waiting, awake) ==
    LET asleep == {t \in DOMAIN pc : pc[t] = waiting}
    IN  IF asleep = {} THEN {pc}
        ELSE {[pc EXCEPT ![t] = awake] : t \in asleep}

Broadcast(pc, waiting, awake) ==
    [t \in DOMAIN pc |-> IF pc[t] = waiting THEN awake ELSE pc[t]]

-----------------------------------------------------------------------------
(***************************************************************************)
(* An IO thread: task_create in handle_read, thread_pool_submit,           *)
(* task_queue_push.  handle_read ignores the result, so a task that is     *)
(* refused is leaked.                                                      *)
(***************************************************************************)
Create(p, t) ==
    /\ ppc[p] = "idle"
    /\ Fresh(t) /\ \A u \in Tasks : Fresh(u) => t <= u
    /\ ppc' = [ppc EXCEPT ![p] = "submit"]
    /\ ptask' = [ptask EXCEPT ![p] = t]
    /\ UNCHANGED <<queueVars, poolVars, workerVars, mpc, fateVars>>

Refused(p) ==
    /\ leaked' = leaked \cup {ptask[p]}
    /\ ppc' = [ppc EXCEPT ![p] = "idle"]
    /\ ptask' = [ptask EXCEPT ![p] = NoTask]
    /\ UNCHANGED <<queueVars, poolVars, workerVars, mpc, done, discarded>>

SubmitToRunning(p) ==
    /\ ppc[p] = "submit"
    /\ ~poolShutdown
    /\ ppc' = [ppc EXCEPT ![p] = "push"]
    /\ UNCHANGED <<queueVars, poolVars, ptask, workerVars, mpc, fateVars>>

SubmitToStopped(p) ==
    /\ ppc[p] = "submit"
    /\ poolShutdown
    /\ Refused(p)

PushWait(p) ==
    /\ ppc[p] = "push"
    /\ Len(queue) >= MaxSize
    /\ ~queueShutdown
    /\ ppc' = [ppc EXCEPT ![p] = "blocked"]
    /\ UNCHANGED <<queueVars, poolVars, ptask, workerVars, mpc, fateVars>>

PushShutdown(p) ==
    /\ ppc[p] = "push"
    /\ queueShutdown
    /\ Refused(p)

PushAppendWithoutSignal(p) ==
    /\ ppc[p] = "push"
    /\ Len(queue) < MaxSize
    /\ ~queueShutdown
    /\ queue' = Append(queue, ptask[p])
    /\ ppc' = [ppc EXCEPT ![p] = "idle"]
    /\ ptask' = [ptask EXCEPT ![p] = NoTask]
    /\ UNCHANGED <<queueShutdown, poolVars, workerVars, mpc, fateVars>>

PushAppendOffByOne(p) ==
    /\ ppc[p] = "push"
    /\ Len(queue) <= MaxSize
    /\ ~queueShutdown
    /\ queue' = Append(queue, ptask[p])
    /\ wpc' \in Signal(wpc, "asleep", "pop")
    /\ ppc' = [ppc EXCEPT ![p] = "idle"]
    /\ ptask' = [ptask EXCEPT ![p] = NoTask]
    /\ UNCHANGED <<queueShutdown, poolVars, wtask, mpc, fateVars>>

PushAppend(p) ==
    /\ ppc[p] = "push"
    /\ Len(queue) < MaxSize
    /\ ~queueShutdown
    /\ queue' = Append(queue, ptask[p])
    /\ wpc' \in Signal(wpc, "asleep", "pop")
    /\ ppc' = [ppc EXCEPT ![p] = "idle"]
    /\ ptask' = [ptask EXCEPT ![p] = NoTask]
    /\ UNCHANGED <<queueShutdown, poolVars, wtask, mpc, fateVars>>

\* The IO thread sees its own shutdown flag between two events and returns.
ProducerStop(p) ==
    /\ ppc[p] = "idle"
    /\ ppc' = [ppc EXCEPT ![p] = "stopped"]
    /\ UNCHANGED <<queueVars, poolVars, ptask, workerVars, mpc, fateVars>>

-----------------------------------------------------------------------------
(***************************************************************************)
(* A worker: worker_thread and task_queue_pop.  A NULL from pop leads back *)
(* to the loop condition, which reads the same flag as the explicit test   *)
(* after the pop.                                                          *)
(***************************************************************************)
WorkerContinue(w) ==
    /\ wpc[w] = "loop"
    /\ ~poolShutdown
    /\ wpc' = [wpc EXCEPT ![w] = "pop"]
    /\ UNCHANGED <<queueVars, poolVars, producerVars, wtask, mpc, fateVars>>

WorkerExit(w) ==
    /\ wpc[w] = "loop"
    /\ poolShutdown
    /\ wpc' = [wpc EXCEPT ![w] = "exited"]
    /\ UNCHANGED <<queueVars, poolVars, producerVars, wtask, mpc, fateVars>>

PopWait(w) ==
    /\ wpc[w] = "pop"
    /\ queue = <<>>
    /\ ~queueShutdown
    /\ wpc' = [wpc EXCEPT ![w] = "asleep"]
    /\ UNCHANGED <<queueVars, poolVars, producerVars, wtask, mpc, fateVars>>

PopNull(w) ==
    /\ wpc[w] = "pop"
    /\ queue = <<>>
    /\ queueShutdown
    /\ wpc' = [wpc EXCEPT ![w] = "loop"]
    /\ UNCHANGED <<queueVars, poolVars, producerVars, wtask, mpc, fateVars>>

PopTakeWithoutSignal(w) ==
    /\ wpc[w] = "pop"
    /\ queue # <<>>
    /\ queue' = Tail(queue)
    /\ wpc' = [wpc EXCEPT ![w] = "work"]
    /\ wtask' = [wtask EXCEPT ![w] = Head(queue)]
    /\ UNCHANGED <<queueShutdown, poolVars, producerVars, mpc, fateVars>>

PopTakeNewest(w) ==
    /\ wpc[w] = "pop"
    /\ queue # <<>>
    /\ queue' = SubSeq(queue, 1, Len(queue) - 1)
    /\ wpc' = [wpc EXCEPT ![w] = "work"]
    /\ wtask' = [wtask EXCEPT ![w] = queue[Len(queue)]]
    /\ ppc' \in Signal(ppc, "blocked", "push")
    /\ UNCHANGED <<queueShutdown, poolVars, ptask, mpc, fateVars>>

PopTake(w) ==
    /\ wpc[w] = "pop"
    /\ queue # <<>>
    /\ queue' = Tail(queue)
    /\ wpc' = [wpc EXCEPT ![w] = "work"]
    /\ wtask' = [wtask EXCEPT ![w] = Head(queue)]
    /\ ppc' \in Signal(ppc, "blocked", "push")
    /\ UNCHANGED <<queueShutdown, poolVars, ptask, mpc, fateVars>>

WorkerDoneKeepsTask(w) ==
    /\ wpc[w] = "work"
    /\ done' = done \cup {wtask[w]}
    /\ wpc' = [wpc EXCEPT ![w] = "loop"]
    /\ UNCHANGED <<queueVars, poolVars, producerVars, wtask, mpc, discarded, leaked>>

\* The switch on the task type, tasks_completed and task_destroy.
WorkerDone(w) ==
    /\ wpc[w] = "work"
    /\ done' = done \cup {wtask[w]}
    /\ wpc' = [wpc EXCEPT ![w] = "loop"]
    /\ wtask' = [wtask EXCEPT ![w] = NoTask]
    /\ UNCHANGED <<queueVars, poolVars, producerVars, mpc, discarded, leaked>>

-----------------------------------------------------------------------------
(***************************************************************************)
(* POSIX lets pthread_cond_wait return without a signal.                   *)
(***************************************************************************)
SpuriousWakeup ==
    /\ \/ /\ \E p \in Producers : /\ ppc[p] = "blocked"
                                  /\ ppc' = [ppc EXCEPT ![p] = "push"]
          /\ UNCHANGED wpc
       \/ /\ \E w \in Workers : /\ wpc[w] = "asleep"
                                /\ wpc' = [wpc EXCEPT ![w] = "pop"]
          /\ UNCHANGED ppc
    /\ UNCHANGED <<queueVars, poolVars, ptask, wtask, mpc, fateVars>>

-----------------------------------------------------------------------------
(***************************************************************************)
(* Stopping: thread_pool_shutdown, thread_pool_destroy, task_queue_destroy *)
(* and the order in which server_destroy calls them.                       *)
(***************************************************************************)
ProducersStopped == \A p \in Producers : ppc[p] = "stopped"

SetPoolShutdownAnyTime ==
    /\ mpc = "running"
    /\ poolShutdown' = TRUE
    /\ mpc' = "flagged"
    /\ UNCHANGED <<early, queueVars, producerVars, workerVars, fateVars>>

SetPoolShutdown ==
    /\ mpc = "running"
    /\ early \/ ProducersStopped
    /\ poolShutdown' = TRUE
    /\ mpc' = "flagged"
    /\ UNCHANGED <<early, queueVars, producerVars, workerVars, fateVars>>

CloseQueueWithoutBroadcast ==
    /\ mpc = "flagged"
    /\ queueShutdown' = TRUE
    /\ mpc' = "closed"
    /\ UNCHANGED <<queue, poolVars, producerVars, workerVars, fateVars>>

\* task_queue_shutdown
CloseQueue ==
    /\ mpc = "flagged"
    /\ queueShutdown' = TRUE
    /\ wpc' = Broadcast(wpc, "asleep", "pop")
    /\ ppc' = Broadcast(ppc, "blocked", "push")
    /\ mpc' = "closed"
    /\ UNCHANGED <<queue, poolVars, ptask, wtask, fateVars>>

DestroyForgetsTasks ==
    /\ mpc = "closed"
    /\ early => ProducersStopped
    /\ \A w \in Workers : wpc[w] = "exited"
    /\ queue' = <<>>
    /\ mpc' = "destroyed"
    /\ UNCHANGED <<queueShutdown, poolVars, producerVars, workerVars, fateVars>>

\* The pthread_join loop of thread_pool_destroy, then task_queue_destroy.  It does not
\* look at the producers: in the order of server_destroy they have stopped before,
\* and whoever shuts the pool down early is taken to wait for them before it frees
\* the pool, nobody in the program doing otherwise.
Destroy ==
    /\ mpc = "closed"
    /\ early => ProducersStopped
    /\ \A w \in Workers : wpc[w] = "exited"
    /\ discarded' = discarded \cup QueuedTasks
    /\ queue' = <<>>
    /\ mpc' = "destroyed"
    /\ UNCHANGED <<queueShutdown, poolVars, producerVars, workerVars, done, leaked>>

Terminated == mpc = "destroyed" /\ UNCHANGED vars

-----------------------------------------------------------------------------
Init ==
    /\ queue = <<>>
    /\ queueShutdown = FALSE /\ poolShutdown = FALSE
    /\ early \in BOOLEAN
    /\ ppc = [p \in Producers |-> "idle"] /\ ptask = [p \in Producers |-> NoTask]
    /\ wpc = [w \in Workers |-> "loop"] /\ wtask = [w \in Workers |-> NoTask]
    /\ mpc = "running"
    /\ done = {} /\ discarded = {} /\ leaked = {}

\* The steps of a producer that is inside thread_pool_submit.
SubmitStep(p) == \/ SubmitToRunning(p) \/ SubmitToStopped(p)
                 \/ PushWait(p) \/ PushShutdown(p) \/ PushAppend(p)

WorkerStep(w) == \/ WorkerContinue(w) \/ WorkerExit(w)
                 \/ PopWait(w) \/ PopNull(w) \/ PopTake(w) \/ WorkerDone(w)

Next == \/ \E p \in Producers : \/ \E t \in Tasks : Create(p, t)
                                \/ SubmitStep(p)
                                \/ ProducerStop(p)
        \/ \E w \in Workers : WorkerStep(w)
        \/ SpuriousWakeup
        \/ SetPoolShutdown \/ CloseQueue \/ Destroy \/ Terminated

\* Threads that can run do run.  Nothing obliges an IO thread to have a task
\* or anybody to stop the pool.
Fairness == /\ \A p \in Producers : WF_vars(SubmitStep(p))
            /\ \A w \in Workers : WF_vars(WorkerStep(w))
            /\ WF_vars(CloseQueue) /\ WF_vars(Destroy)

Spec == Init /\ [][Next]_vars /\ Fairness

-----------------------------------------------------------------------------
\* Every task has at most one holder: it is never queued twice, never both
\* queued and in a worker's hands, never given to two workers, never destroyed
\* by a worker and again by task_queue_destroy.
OneHolder ==
    LET places == <<{ptask[p] : p \in Producers} \ {NoTask}, QueuedTasks,
                    {wtask[w] : w \in Workers} \ {NoTask}, done, discarded, leaked>>
    IN  /\ \A i, j \in 1 .. Len(queue) : queue[i] = queue[j] => i = j
        /\ \A p, q \in Producers : ptask[p] = ptask[q] => p = q \/ ptask[p] = NoTask
        /\ \A v, w \in Workers : wtask[v] = wtask[w] => v = w \/ wtask[v] = NoTask
        /\ \A i, j \in 1 .. 6 : i # j => places[i] \cap places[j] = {}

\* No worker sleeps in task_queue_pop while a task is left over for it: each
\* queued task has a worker of its own that is awake inside pop.  One signal
\* per push is enough.
NoSleeperWhileWork ==
    (\E w \in Workers : wpc[w] = "asleep") =>
        Len(queue) <= Cardinality({w \in Workers : wpc[w] = "pop"})

\* The same for the producers blocked in task_queue_push: each free place has a
\* producer of its own that is awake inside push.
NoBlockedWhileRoom ==
    (\E p \in Producers : ppc[p] = "blocked") =>
        MaxSize - Len(queue) <= Cardinality({p \in Producers : ppc[p] = "push"})

\* server_destroy joins the IO threads before it stops the worker pool.  In that
\* order no submission is ever refused, so no task (and no reference to its
\* connection) is leaked by handle_read, which ignores the result of
\* thread_pool_submit.
NoTaskLeaked == ~early => leaked = {}

\* A task that exists stays accounted for: no step loses it.
NoTaskVanishes == [][\A t \in Tasks : ~Fresh(t) => ~Fresh(t)']_vars

\* Whenever and by whomever the pool is stopped, its queue is a bounded FIFO
\* buffer that can be closed: first in first out, never over max_size, nothing
\* accepted once it is shut down, nothing thrown away before.
Abstract == INSTANCE BoundedFifo WITH Items <- Tasks, Capacity <- MaxSize,
                                      items <- queue, closed <- queueShutdown

QueueIsFifo == Abstract!Spec

\* Once the pool is told to stop, every worker leaves its loop, a worker asleep
\* in pop included, no producer stays inside thread_pool_submit, and in the order
\* of server_destroy the pool is torn down.
ShutdownCompletes ==
    (mpc = "flagged") ~> /\ \A w \in Workers : wpc[w] = "exited"
                         /\ \A p \in Producers : ppc[p] \in {"idle", "stopped"}
                         /\ early \/ mpc = "destroyed"

\* A queued task is processed or, in the end, discarded: no task is starved by the
\* others, whatever the order in which threads get the mutex.  (A pool stopped
\* early keeps its last tasks until somebody destroys it.)
TaskProcessed ==
    \A t \in Tasks : (t \in QueuedTasks) ~> (t \in done \cup discarded \/ (early /\ poolShutdown))
=============================================================================
