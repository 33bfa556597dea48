-------------------------- MODULE WorkerPoolProofs --------------------------
(***************************************************************************)
(* Proofs about WorkerPool, for any number of producers, workers and tasks *)
(* and any positive queue size.                                            *)
(***************************************************************************)
EXTENDS WorkerPool, SequenceTheorems, FiniteSetTheorems, TLAPS

USE DEF poolVars

\* A thread has a task exactly while it is inside the code that handles it.
Holding ==
    /\ \A p \in Producers :
          ppc[p] \in {"submit", "push", "blocked"} <=> ptask[p] # NoTask
    /\ \A w \in Workers : wpc[w] = "work" <=> wtask[w] # NoTask

\* How far the shutdown has come determines the two flags and who can still be
\* inside the queue.
Phases ==
    /\ poolShutdown <=> mpc # "running"
    /\ queueShutdown <=> mpc \in {"closed", "destroyed"}
    /\ queueShutdown => \A p \in Producers : ppc[p] # "blocked"
    /\ mpc = "destroyed" => /\ \A w \in Workers : wpc[w] = "exited"
                            /\ \A p \in Producers : ppc[p] = "stopped"

\* The order of server_destroy: the pool is stopped after its producers.
Ordered == ~early => /\ poolShutdown => \A p \in Producers : ppc[p] = "stopped"
                     /\ leaked = {}

\* pthread_cond_signal(&queue->not_empty) leaves the workers as they are when none
\* sleeps and otherwise takes one of them back to the test in task_queue_pop.
LEMMA WorkerSignalled ==
    ASSUME TypeOK, wpc' \in Signal(wpc, "asleep", "pop")
    PROVE  \/ wpc' = wpc /\ \A w \in Workers : wpc[w] # "asleep"
           \/ \E w \in Workers : wpc[w] = "asleep" /\ wpc' = [wpc EXCEPT ![w] = "pop"]
BY DEF Signal, TypeOK

\* pthread_cond_signal(&queue->not_full), the same for the producers.
LEMMA ProducerSignalled ==
    ASSUME TypeOK, ppc' \in Signal(ppc, "blocked", "push")
    PROVE  \/ ppc' = ppc /\ \A p \in Producers : ppc[p] # "blocked"
           \/ \E p \in Producers : ppc[p] = "blocked" /\ ppc' = [ppc EXCEPT ![p] = "push"]
BY DEF Signal, TypeOK

\* Every step keeps the types: the queue stays within max_size, and the threads'
\* tasks are where the control points say.
LEMMA PoolTypeStep == TypeOK /\ Holding /\ [Next]_vars => TypeOK' /\ Holding'
<1> SUFFICES ASSUME TypeOK, Holding, [Next]_vars
             PROVE  TypeOK' /\ Holding'
  OBVIOUS
<1> USE PoolAssumption
<1>1. ASSUME NEW p \in Producers, NEW t \in Tasks, Create(p, t)
      PROVE  TypeOK' /\ Holding'
  BY <1>1 DEF Create, TypeOK, Holding, queueVars, workerVars, fateVars
<1>2. ASSUME NEW p \in Producers, ppc[p] \in {"submit", "push"}, Refused(p)
      PROVE  TypeOK' /\ Holding'
  <2>1. ptask[p] \in Tasks
    BY <1>2 DEF TypeOK, Holding
  <2>2. QED
    BY <1>2, <2>1 DEF Refused, TypeOK, Holding, queueVars, workerVars
<1>3. ASSUME NEW p \in Producers, SubmitToRunning(p)
      PROVE  TypeOK' /\ Holding'
  BY <1>3 DEF SubmitToRunning, TypeOK, Holding, queueVars, workerVars, fateVars
<1>4. ASSUME NEW p \in Producers, PushWait(p)
      PROVE  TypeOK' /\ Holding'
  BY <1>4 DEF PushWait, TypeOK, Holding, queueVars, workerVars, fateVars
<1>5. ASSUME NEW p \in Producers, PushAppend(p)
      PROVE  TypeOK' /\ Holding'
  <2>1. ptask[p] \in Tasks
    BY <1>5 DEF PushAppend, TypeOK, Holding
  <2>2. queue' \in Seq(Tasks) /\ Len(queue') <= MaxSize
    BY <1>5, <2>1, AppendProperties, LenProperties DEF PushAppend, TypeOK
  <2>3. /\ wpc' \in [Workers -> {"loop", "pop", "asleep", "work", "exited"}]
        /\ \A w \in Workers : wpc'[w] = "work" <=> wpc[w] = "work"
    <3>1. CASE wpc' = wpc
      BY <3>1 DEF TypeOK
    <3>2. ASSUME NEW v \in Workers, wpc[v] = "asleep", wpc' = [wpc EXCEPT ![v] = "pop"]
          PROVE  /\ wpc' \in [Workers -> {"loop", "pop", "asleep", "work", "exited"}]
                 /\ \A w \in Workers : wpc'[w] = "work" <=> wpc[w] = "work"
      BY <3>2 DEF TypeOK
    <3>3. QED
      BY <1>5, <3>1, <3>2, WorkerSignalled DEF PushAppend
  <2>4. QED
    BY <1>5, <2>2, <2>3 DEF PushAppend, TypeOK, Holding, fateVars
<1>6. ASSUME NEW p \in Producers, ProducerStop(p)
      PROVE  TypeOK' /\ Holding'
  BY <1>6 DEF ProducerStop, TypeOK, Holding, queueVars, workerVars, fateVars
<1>7. ASSUME NEW w \in Workers, WorkerContinue(w) \/ WorkerExit(w) \/ PopWait(w) \/ PopNull(w)
      PROVE  TypeOK' /\ Holding'
  <2>1. PICK s \in {"loop", "pop", "asleep", "exited"} :
           wpc[w] \in {"loop", "pop"} /\ wpc' = [wpc EXCEPT ![w] = s]
    BY <1>7 DEF WorkerContinue, WorkerExit, PopWait, PopNull
  <2>2. UNCHANGED <<queueVars, poolVars, producerVars, wtask, mpc, fateVars>>
    BY <1>7 DEF WorkerContinue, WorkerExit, PopWait, PopNull
  <2>3. QED
    BY <2>1, <2>2 DEF TypeOK, Holding, queueVars, poolVars, producerVars, fateVars
<1>8. ASSUME NEW w \in Workers, PopTake(w)
      PROVE  TypeOK' /\ Holding'
  <2>1. /\ Head(queue) \in Tasks
        /\ queue' \in Seq(Tasks) /\ Len(queue') <= MaxSize
    BY <1>8, HeadTailProperties, LenProperties DEF PopTake, TypeOK
  <2>2. /\ ppc' \in [Producers -> {"idle", "submit", "push", "blocked", "stopped"}]
        /\ \A p \in Producers : ppc'[p] = ppc[p] \/ (ppc[p] = "blocked" /\ ppc'[p] = "push")
    <3>1. CASE ppc' = ppc
      BY <3>1 DEF TypeOK
    <3>2. ASSUME NEW q \in Producers, ppc[q] = "blocked", ppc' = [ppc EXCEPT ![q] = "push"]
          PROVE  /\ ppc' \in [Producers -> {"idle", "submit", "push", "blocked", "stopped"}]
                 /\ \A p \in Producers :
                       ppc'[p] = ppc[p] \/ (ppc[p] = "blocked" /\ ppc'[p] = "push")
      BY <3>2 DEF TypeOK
    <3>3. QED
      BY <1>8, <3>1, <3>2, ProducerSignalled DEF PopTake
  <2>3. QED
    BY <1>8, <2>1, <2>2 DEF PopTake, TypeOK, Holding, fateVars
<1>9. ASSUME NEW w \in Workers, WorkerDone(w)
      PROVE  TypeOK' /\ Holding'
  <2>1. wtask[w] \in Tasks
    BY <1>9 DEF WorkerDone, TypeOK, Holding
  <2>2. QED
    BY <1>9, <2>1 DEF WorkerDone, TypeOK, Holding, queueVars, producerVars
<1>10. CASE SpuriousWakeup
  BY <1>10 DEF SpuriousWakeup, TypeOK, Holding, queueVars, fateVars
<1>11. CASE SetPoolShutdown
  BY <1>11 DEF SetPoolShutdown, TypeOK, Holding, queueVars, producerVars, workerVars, fateVars
<1>12. CASE CloseQueue
  BY <1>12 DEF CloseQueue, Broadcast, TypeOK, Holding, fateVars
<1>13. CASE Destroy
  <2>1. queue' \in Seq(Tasks) /\ Len(queue') <= MaxSize
    BY <1>13, EmptySeq DEF Destroy
  <2>2. discarded' \subseteq Tasks
    <3>1. QueuedTasks \subseteq Tasks
      <4>1. \A i \in 1 .. Len(queue) : queue[i] \in Tasks
        BY ElementOfSeq DEF TypeOK
      <4>2. QED
        BY <4>1, Zenon DEF QueuedTasks
    <3>2. QED
      BY <1>13, <3>1 DEF Destroy, TypeOK
  <2>3. QED
    BY <1>13, <2>1, <2>2 DEF Destroy, TypeOK, Holding, producerVars, workerVars
<1>14. CASE UNCHANGED vars
  BY <1>14 DEF vars, TypeOK, Holding
<1>15. QED
  BY <1>1, <1>2, <1>3, <1>4, <1>5, <1>6, <1>7, <1>8, <1>9, <1>10, <1>11, <1>12, <1>13, <1>14
     DEF Next, SubmitStep, WorkerStep, SubmitToStopped, PushShutdown, Terminated

\* Every step keeps the phases of the shutdown: once task_queue_shutdown has
\* broadcast, no producer blocks again, and once the workers are joined nothing
\* moves.
LEMMA PhasesStep == TypeOK /\ Phases /\ Ordered /\ [Next]_vars => Phases'
<1> SUFFICES ASSUME TypeOK, Phases, Ordered, [Next]_vars
             PROVE  Phases'
  OBVIOUS
<1>1. ASSUME NEW p \in Producers,
             (\E t \in Tasks : Create(p, t)) \/ ProducerStop(p) \/ SubmitToRunning(p) \/ PushWait(p)
      PROVE  Phases'
  BY <1>1 DEF Create, ProducerStop, SubmitToRunning, PushWait, Phases, TypeOK, queueVars,
              workerVars, fateVars
<1>2. ASSUME NEW p \in Producers, ppc[p] \in {"submit", "push"}, Refused(p)
      PROVE  Phases'
  BY <1>2 DEF Refused, Phases, TypeOK, queueVars, workerVars
<1>3. ASSUME NEW p \in Producers, PushAppend(p)
      PROVE  Phases'
  BY <1>3 DEF PushAppend, Phases, TypeOK
<1>4. ASSUME NEW w \in Workers,
             WorkerContinue(w) \/ WorkerExit(w) \/ PopWait(w) \/ PopNull(w) \/ WorkerDone(w)
      PROVE  Phases'
  BY <1>4 DEF WorkerContinue, WorkerExit, PopWait, PopNull, WorkerDone, Phases, TypeOK, queueVars,
              producerVars
<1>5. ASSUME NEW w \in Workers, PopTake(w)
      PROVE  Phases'
  <2>1. \A p \in Producers : ppc'[p] = ppc[p] \/ (ppc[p] = "blocked" /\ ppc'[p] = "push")
    BY <1>5, ProducerSignalled DEF PopTake, TypeOK
  <2>2. QED
    BY <1>5, <2>1 DEF PopTake, Phases, TypeOK
<1>6. CASE SpuriousWakeup
  BY <1>6 DEF SpuriousWakeup, Phases, TypeOK, queueVars
<1>7. CASE SetPoolShutdown
  BY <1>7 DEF SetPoolShutdown, Phases, TypeOK, queueVars, producerVars, workerVars
<1>8. CASE CloseQueue
  BY <1>8 DEF CloseQueue, Broadcast, Phases, TypeOK
<1>9. CASE Destroy
  \* The caller, or the order of server_destroy, has seen the producers off.
  <2>1. \A p \in Producers : ppc[p] = "stopped"
    BY <1>9 DEF Destroy, ProducersStopped, Ordered, Phases
  <2>2. QED
    BY <1>9, <2>1 DEF Destroy, Phases, TypeOK, producerVars, workerVars
<1>10. CASE UNCHANGED vars
  BY <1>10 DEF vars, Phases
<1>11. QED
  BY <1>1, <1>2, <1>3, <1>4, <1>5, <1>6, <1>7, <1>8, <1>9, <1>10
     DEF Next, SubmitStep, WorkerStep, SubmitToStopped, PushShutdown, Terminated

\* In the order of server_destroy a submission is never refused: the flags that
\* would refuse it are only raised when no producer is left.
LEMMA OrderedStep == TypeOK /\ Phases /\ Ordered /\ [Next]_vars => Ordered'
<1> SUFFICES ASSUME TypeOK, Phases, Ordered, [Next]_vars, ~early'
             PROVE  (poolShutdown' => \A p \in Producers : ppc'[p] = "stopped") /\ leaked' = {}
  BY DEF Ordered
<1>a. early' = early
  BY DEF Next, SubmitStep, WorkerStep, Create, ProducerStop, SubmitToRunning, SubmitToStopped,
         Refused, PushWait, PushShutdown, PushAppend, WorkerContinue, WorkerExit, PopWait, PopNull,
         PopTake, WorkerDone, SpuriousWakeup, SetPoolShutdown, CloseQueue, Destroy, Terminated, vars
<1>0. (poolShutdown => \A p \in Producers : ppc[p] = "stopped") /\ leaked = {}
  BY <1>a DEF Ordered
<1>1. ASSUME NEW p \in Producers, ppc[p] # "stopped"
      PROVE  ~poolShutdown /\ ~queueShutdown
  BY <1>0, <1>1 DEF Phases, TypeOK
<1>2. ASSUME NEW p \in Producers, (\E t \in Tasks : Create(p, t)) \/ ProducerStop(p) \/ SubmitStep(p)
      PROVE  poolShutdown' = poolShutdown /\ ~poolShutdown /\ leaked' = leaked
  BY <1>1, <1>2 DEF Create, ProducerStop, SubmitStep, SubmitToRunning, SubmitToStopped, PushWait,
                    PushShutdown, PushAppend, fateVars
<1>3. ASSUME NEW w \in Workers, WorkerStep(w)
      PROVE  /\ poolShutdown' = poolShutdown /\ leaked' = leaked
             /\ ppc' = ppc \/ \E q \in Producers : ppc[q] = "blocked"
  <2>1. PopTake(w) => ppc' = ppc \/ \E q \in Producers : ppc[q] = "blocked"
    BY ProducerSignalled DEF PopTake
  <2>2. QED
    BY <1>3, <2>1 DEF WorkerStep, WorkerContinue, WorkerExit, PopWait, PopNull, PopTake, WorkerDone,
                      producerVars, fateVars
<1>4. CASE SpuriousWakeup
  <2>1. leaked' = leaked /\ poolShutdown' = poolShutdown
    BY <1>4 DEF SpuriousWakeup, fateVars
  <2>2. ppc' = ppc \/ \E q \in Producers : ppc[q] = "blocked"
    BY <1>4 DEF SpuriousWakeup
  <2>3. QED
    BY <1>0, <1>1, <2>1, <2>2
<1>5. CASE SetPoolShutdown
  BY <1>a, <1>0, <1>5 DEF SetPoolShutdown, ProducersStopped, producerVars, fateVars
<1>6. CASE CloseQueue
  BY <1>0, <1>6 DEF CloseQueue, Broadcast, TypeOK, fateVars
<1>7. CASE Destroy
  BY <1>0, <1>7 DEF Destroy, producerVars
<1>8. CASE UNCHANGED vars
  BY <1>0, <1>8 DEF vars
<1>9. QED
  BY <1>0, <1>1, <1>2, <1>3, <1>4, <1>5, <1>6, <1>7, <1>8 DEF Next, Terminated

\* The three facts together are an inductive invariant.
PoolInv == TypeOK /\ Holding /\ Phases /\ Ordered

\* It holds in the pool thread_pool_create returns.
LEMMA PoolInit == Init => PoolInv
<1> SUFFICES ASSUME Init
             PROVE  PoolInv
  OBVIOUS
<1> USE PoolAssumption DEF Init
<1>1. TypeOK
  <2>1. queue \in Seq(Tasks) /\ Len(queue) <= MaxSize
    BY EmptySeq
  <2>2. QED
    BY <2>1 DEF TypeOK
<1>2. Holding
  BY DEF Holding
<1>3. Phases
  BY DEF Phases
<1>4. Ordered
  BY DEF Ordered
<1>5. QED
  BY <1>1, <1>2, <1>3, <1>4 DEF PoolInv

\* The pool's state keeps its type, the queue its bound, and threads hold tasks
\* exactly where the code says.
THEOREM PoolTheorem == Spec => []PoolInv
<1>1. PoolInv /\ [Next]_vars => PoolInv'
  BY PoolTypeStep, PhasesStep, OrderedStep DEF PoolInv
<1>2. QED
  BY PoolInit, <1>1, PTL DEF Spec

\* The queue is within max_size and every variable has its type.
THEOREM PoolTypeTheorem == Spec => []TypeOK
<1>1. PoolInv => TypeOK
  BY DEF PoolInv
<1>2. QED
  BY <1>1, PoolTheorem, PTL

\* In the order in which server_destroy stops the threads, no task is refused and
\* so none is leaked by handle_read.
THEOREM NoLeakTheorem == Spec => []NoTaskLeaked
<1>1. PoolInv => NoTaskLeaked
  BY DEF PoolInv, Ordered, NoTaskLeaked
<1>2. QED
  BY <1>1, PoolTheorem, PTL

\* Whatever the threads do, the linked list between head and tail is a bounded
\* first-in first-out buffer: each step of the pool is a step of BoundedFifo or
\* leaves it alone.
THEOREM PoolIsFifo == Spec => QueueIsFifo
<1> USE PoolAssumption
<1>1. Init => Abstract!Init
  BY DEF Init, Abstract!Init
<1>2. PoolInv /\ [Next]_vars => [Abstract!Next]_(Abstract!fifo)
  <2> SUFFICES ASSUME PoolInv, [Next]_vars
               PROVE  Abstract!Next \/ UNCHANGED <<queue, queueShutdown>>
    BY DEF Abstract!fifo
  <2>1. ASSUME NEW p \in Producers, PushAppend(p)
        PROVE  Abstract!Next
    <3>1. ptask[p] \in Tasks
      BY <2>1 DEF PushAppend, PoolInv, TypeOK, Holding
    <3>2. Abstract!Put(ptask[p])
      BY <2>1 DEF PushAppend, Abstract!Put
    <3>3. QED
      BY <3>1, <3>2 DEF Abstract!Next
  <2>2. ASSUME NEW w \in Workers, PopTake(w)
        PROVE  Abstract!Next
    BY <2>2 DEF PopTake, Abstract!Next, Abstract!Get
  <2>3. CASE CloseQueue
    BY <2>3 DEF CloseQueue, Abstract!Next, Abstract!Close
  <2>4. CASE Destroy
    BY <2>4 DEF Destroy, PoolInv, Phases, Abstract!Next, Abstract!Discard
  <2>5. ASSUME NEW p \in Producers, (\E t \in Tasks : Create(p, t)) \/ ProducerStop(p)
        PROVE  UNCHANGED <<queue, queueShutdown>>
    BY <2>5 DEF Create, ProducerStop, queueVars
  <2>6. ASSUME NEW p \in Producers, SubmitStep(p), ~PushAppend(p)
        PROVE  UNCHANGED <<queue, queueShutdown>>
    BY <2>6 DEF SubmitStep, SubmitToRunning, SubmitToStopped, Refused, PushWait, PushShutdown, queueVars
  <2>7. ASSUME NEW w \in Workers, WorkerStep(w), ~PopTake(w)
        PROVE  UNCHANGED <<queue, queueShutdown>>
    BY <2>7 DEF WorkerStep, WorkerContinue, WorkerExit, PopWait, PopNull, WorkerDone, queueVars
  <2>8. CASE SpuriousWakeup \/ SetPoolShutdown \/ UNCHANGED vars
    BY <2>8 DEF SpuriousWakeup, SetPoolShutdown, queueVars, vars
  <2>9. QED
    BY <2>1, <2>2, <2>3, <2>4, <2>5, <2>6, <2>7, <2>8 DEF Next, Terminated
<1>3. QED
  BY <1>1, <1>2, PoolTheorem, PTL DEF Spec, QueueIsFifo, Abstract!Spec

-----------------------------------------------------------------------------
\* The threads of S that are at control point v.
At(S, pc, v) == {s \in S : pc[s] = v}

\* Moving one thread to control point v adds one to the threads that are there.
LEMMA CountArrive ==
    ASSUME NEW S, IsFiniteSet(S), NEW pc, NEW qc, NEW v, NEW t \in S,
           pc[t] # v, qc[t] = v, \A s \in S \ {t} : qc[s] = pc[s]
    PROVE  Cardinality(At(S, qc, v)) = Cardinality(At(S, pc, v)) + 1
<1>1. IsFiniteSet(At(S, pc, v))
  BY FS_Subset DEF At
<1>2. At(S, qc, v) = At(S, pc, v) \cup {t}
  BY DEF At
<1>3. t \notin At(S, pc, v)
  BY DEF At
<1>4. Cardinality(At(S, pc, v) \cup {t}) = Cardinality(At(S, pc, v)) + 1
  BY <1>1, <1>3, FS_AddElement
<1>5. QED
  BY <1>2, <1>4

\* Moving one thread away from it takes one off.
LEMMA CountLeave ==
    ASSUME NEW S, IsFiniteSet(S), NEW pc, NEW qc, NEW v, NEW t \in S,
           pc[t] = v, qc[t] # v, \A s \in S \ {t} : qc[s] = pc[s]
    PROVE  Cardinality(At(S, qc, v)) = Cardinality(At(S, pc, v)) - 1
<1>1. IsFiniteSet(At(S, pc, v))
  BY FS_Subset DEF At
<1>2. At(S, qc, v) = At(S, pc, v) \ {t}
  BY DEF At
<1>3. t \in At(S, pc, v)
  BY DEF At
<1>4. QED
  BY <1>1, <1>2, <1>3, FS_RemoveElement

\* Threads at a control point are counted by a natural number.
LEMMA CountNat ==
    ASSUME NEW S, IsFiniteSet(S), NEW pc, NEW v
    PROVE  Cardinality(At(S, pc, v)) \in Nat
<1>1. IsFiniteSet(At(S, pc, v))
  BY FS_Subset DEF At
<1>2. QED
  BY <1>1, FS_CardinalityType

\* One signal per push is enough: the step from one state without a sleeper too
\* many to the next.
LEMMA SleeperStep == PoolInv /\ NoSleeperWhileWork /\ [Next]_vars => NoSleeperWhileWork'
<1> USE PoolAssumption
<1> DEFINE Pop == Cardinality(At(Workers, wpc, "pop"))
           Asleep == \E w \in Workers : wpc[w] = "asleep"
<1> SUFFICES ASSUME PoolInv, NoSleeperWhileWork, [Next]_vars, Asleep'
             PROVE  Len(queue') <= Pop'
  BY DEF NoSleeperWhileWork, At
<1>0. /\ TypeOK /\ (Asleep => Len(queue) <= Pop)
      /\ Pop \in Nat /\ Pop' \in Nat /\ Len(queue) \in Nat
  <2>1. TypeOK /\ (Asleep => Len(queue) <= Pop)
    BY DEF PoolInv, NoSleeperWhileWork, At
  <2>2. Pop \in Nat /\ Pop' \in Nat
    BY CountNat
  <2>3. Len(queue) \in Nat
    BY <2>1, LenProperties DEF TypeOK
  <2>4. QED
    BY <2>1, <2>2, <2>3
<1>1. CASE UNCHANGED <<queue, wpc>>
  BY <1>0, <1>1
<1>2. ASSUME NEW p \in Producers, PushAppend(p)
      PROVE  Len(queue') <= Pop'
  <2>1. PICK w \in Workers : wpc[w] = "asleep" /\ wpc' = [wpc EXCEPT ![w] = "pop"]
    BY <1>0, <1>2, WorkerSignalled DEF PushAppend
  <2>2. /\ wpc[w] # "pop" /\ wpc'[w] = "pop" /\ \A s \in Workers \ {w} : wpc'[s] = wpc[s]
    BY <1>0, <2>1 DEF TypeOK
  <2>3. Pop' = Pop + 1
    BY <2>2, CountArrive
  <2>4. Len(queue') = Len(queue) + 1
    BY <1>0, <1>2, AppendProperties DEF PushAppend, TypeOK, PoolInv, Holding
  <2>5. QED
    BY <1>0, <2>1, <2>3, <2>4
<1>3. ASSUME NEW w \in Workers, WorkerContinue(w)
      PROVE  Len(queue') <= Pop'
  <2>1. /\ wpc[w] # "pop" /\ wpc'[w] = "pop" /\ \A s \in Workers \ {w} : wpc'[s] = wpc[s]
        /\ Asleep /\ queue' = queue
    BY <1>0, <1>3 DEF WorkerContinue, TypeOK, queueVars
  <2>2. Pop' = Pop + 1
    BY <2>1, CountArrive
  <2>3. QED
    BY <1>0, <2>1, <2>2
<1>4. ASSUME NEW w \in Workers, WorkerExit(w) \/ WorkerDone(w)
      PROVE  Len(queue') <= Pop'
  <2>1. /\ At(Workers, wpc', "pop") = At(Workers, wpc, "pop")
        /\ Asleep /\ queue' = queue
    BY <1>0, <1>4 DEF At, WorkerExit, WorkerDone, TypeOK, queueVars
  <2>2. QED
    BY <1>0, <2>1
<1>5. ASSUME NEW w \in Workers, PopWait(w) \/ PopNull(w)
      PROVE  Len(queue') <= Pop'
  <2>1. queue' = <<>>
    BY <1>5 DEF PopWait, PopNull, queueVars
  <2>2. QED
    BY <1>0, <2>1, EmptySeq
<1>6. ASSUME NEW w \in Workers, PopTake(w)
      PROVE  Len(queue') <= Pop'
  <2>1. /\ wpc[w] = "pop" /\ wpc'[w] # "pop" /\ \A s \in Workers \ {w} : wpc'[s] = wpc[s]
        /\ Asleep
    BY <1>0, <1>6 DEF PopTake, TypeOK
  <2>2. Pop' = Pop - 1
    BY <2>1, CountLeave
  <2>3. Len(queue') = Len(queue) - 1
    BY <1>0, <1>6, HeadTailProperties DEF PopTake, TypeOK
  <2>4. QED
    BY <1>0, <2>1, <2>2, <2>3
<1>7. CASE SpuriousWakeup
  <2>1. CASE wpc' = wpc
    BY <1>1, <1>7, <2>1 DEF SpuriousWakeup, queueVars
  <2>2. CASE wpc' # wpc
    <3>1. PICK w \in Workers : wpc[w] = "asleep" /\ wpc' = [wpc EXCEPT ![w] = "pop"]
      BY <1>7, <2>2 DEF SpuriousWakeup
    <3>2. /\ wpc[w] # "pop" /\ wpc'[w] = "pop" /\ \A s \in Workers \ {w} : wpc'[s] = wpc[s]
          /\ queue' = queue
      BY <1>0, <1>7, <3>1 DEF TypeOK, SpuriousWakeup, queueVars
    <3>3. Pop' = Pop + 1
      BY <3>2, CountArrive
    <3>4. QED
      BY <1>0, <3>1, <3>2, <3>3
  <2>3. QED
    BY <2>1, <2>2
<1>8. CASE CloseQueue
  <2>1. ~Asleep'
    BY <1>0, <1>8 DEF CloseQueue, Broadcast, TypeOK
  <2>2. QED
    BY <2>1
<1>9. CASE Destroy
  <2>1. queue' = <<>>
    BY <1>9 DEF Destroy
  <2>2. QED
    BY <1>0, <2>1, EmptySeq
<1>10. ASSUME NEW p \in Producers,
              \/ (\E t \in Tasks : Create(p, t)) \/ ProducerStop(p)
              \/ SubmitStep(p) /\ ~PushAppend(p)
       PROVE  UNCHANGED <<queue, wpc>>
  BY <1>10 DEF Create, ProducerStop, SubmitStep, SubmitToRunning, SubmitToStopped, Refused,
               PushWait, PushShutdown, queueVars, workerVars
<1>11. CASE SetPoolShutdown \/ UNCHANGED vars
  BY <1>1, <1>11 DEF SetPoolShutdown, queueVars, workerVars, vars
<1>12. QED
  BY <1>1, <1>2, <1>3, <1>4, <1>5, <1>6, <1>7, <1>8, <1>9, <1>10, <1>11
     DEF Next, WorkerStep, Terminated

\* No lost wake-up in task_queue_pop, for any number of threads and any queue size.
THEOREM NoSleeperTheorem == Spec => []NoSleeperWhileWork
<1>1. Init => NoSleeperWhileWork
  BY DEF Init, NoSleeperWhileWork
<1>2. QED
  BY <1>1, SleeperStep, PoolTheorem, PTL DEF Spec

\* One signal per pop is enough for the blocked producers.
LEMMA BlockedStep == PoolInv /\ NoBlockedWhileRoom /\ [Next]_vars => NoBlockedWhileRoom'
<1> USE PoolAssumption
<1> DEFINE Pushing == Cardinality(At(Producers, ppc, "push"))
           Blocked == \E p \in Producers : ppc[p] = "blocked"
<1> SUFFICES ASSUME PoolInv, NoBlockedWhileRoom, [Next]_vars, Blocked'
             PROVE  MaxSize - Len(queue') <= Pushing'
  BY DEF NoBlockedWhileRoom, At
<1>0. /\ TypeOK /\ (Blocked => MaxSize - Len(queue) <= Pushing)
      /\ Pushing \in Nat /\ Pushing' \in Nat /\ Len(queue) \in Nat
  <2>1. TypeOK /\ (Blocked => MaxSize - Len(queue) <= Pushing)
    BY DEF PoolInv, NoBlockedWhileRoom, At
  <2>2. Pushing \in Nat /\ Pushing' \in Nat
    BY CountNat
  <2>3. Len(queue) \in Nat
    BY <2>1, LenProperties DEF TypeOK
  <2>4. QED
    BY <2>1, <2>2, <2>3
<1>1. CASE UNCHANGED <<queue, ppc>>
  BY <1>0, <1>1
<1>2. ASSUME NEW p \in Producers,
             (\E t \in Tasks : Create(p, t)) \/ ProducerStop(p) \/ SubmitToStopped(p)
      PROVE  MaxSize - Len(queue') <= Pushing'
  <2>1. /\ At(Producers, ppc', "push") = At(Producers, ppc, "push")
        /\ Blocked /\ queue' = queue
    BY <1>0, <1>2 DEF At, Create, ProducerStop, SubmitToStopped, Refused, TypeOK, queueVars
  <2>2. QED
    BY <1>0, <2>1
<1>3. ASSUME NEW p \in Producers, SubmitToRunning(p)
      PROVE  MaxSize - Len(queue') <= Pushing'
  <2>1. /\ ppc[p] # "push" /\ ppc'[p] = "push" /\ \A s \in Producers \ {p} : ppc'[s] = ppc[s]
        /\ Blocked /\ queue' = queue
    BY <1>0, <1>3 DEF SubmitToRunning, TypeOK, queueVars
  <2>2. Pushing' = Pushing + 1
    BY <2>1, CountArrive
  <2>3. QED
    BY <1>0, <2>1, <2>2
<1>4. ASSUME NEW p \in Producers, PushWait(p)
      PROVE  MaxSize - Len(queue') <= Pushing'
  <2>1. queue' = queue /\ Len(queue) >= MaxSize
    BY <1>4 DEF PushWait, queueVars
  <2>2. QED
    BY <1>0, <2>1
<1>5. ASSUME NEW p \in Producers, PushShutdown(p)
      PROVE  FALSE
  <2>1. queueShutdown' /\ ppc' = [ppc EXCEPT ![p] = "idle"]
    BY <1>5 DEF PushShutdown, Refused, queueVars
  <2>2. \A q \in Producers : ppc[q] # "blocked"
    BY <1>5 DEF PushShutdown, PoolInv, Phases
  <2>3. QED
    BY <1>0, <2>1, <2>2 DEF TypeOK
<1>6. ASSUME NEW p \in Producers, PushAppend(p)
      PROVE  MaxSize - Len(queue') <= Pushing'
  <2>1. /\ ppc[p] = "push" /\ ppc'[p] # "push" /\ \A s \in Producers \ {p} : ppc'[s] = ppc[s]
        /\ Blocked
    BY <1>0, <1>6 DEF PushAppend, TypeOK
  <2>2. Pushing' = Pushing - 1
    BY <2>1, CountLeave
  <2>3. Len(queue') = Len(queue) + 1
    BY <1>0, <1>6, AppendProperties DEF PushAppend, TypeOK, PoolInv, Holding
  <2>4. QED
    BY <1>0, <2>1, <2>2, <2>3
<1>7. ASSUME NEW w \in Workers, PopTake(w)
      PROVE  MaxSize - Len(queue') <= Pushing'
  <2>1. PICK p \in Producers : ppc[p] = "blocked" /\ ppc' = [ppc EXCEPT ![p] = "push"]
    BY <1>0, <1>7, ProducerSignalled DEF PopTake
  <2>2. /\ ppc[p] # "push" /\ ppc'[p] = "push" /\ \A s \in Producers \ {p} : ppc'[s] = ppc[s]
    BY <1>0, <2>1 DEF TypeOK
  <2>3. Pushing' = Pushing + 1
    BY <2>2, CountArrive
  <2>4. Len(queue') = Len(queue) - 1
    BY <1>0, <1>7, HeadTailProperties DEF PopTake, TypeOK
  <2>5. QED
    BY <1>0, <2>1, <2>3, <2>4
<1>8. CASE SpuriousWakeup
  <2>1. CASE ppc' = ppc
    BY <1>1, <1>8, <2>1 DEF SpuriousWakeup, queueVars
  <2>2. CASE ppc' # ppc
    <3>1. PICK p \in Producers : ppc[p] = "blocked" /\ ppc' = [ppc EXCEPT ![p] = "push"]
      BY <1>8, <2>2 DEF SpuriousWakeup
    <3>2. /\ ppc[p] # "push" /\ ppc'[p] = "push" /\ \A s \in Producers \ {p} : ppc'[s] = ppc[s]
          /\ queue' = queue
      BY <1>0, <1>8, <3>1 DEF TypeOK, SpuriousWakeup, queueVars
    <3>3. Pushing' = Pushing + 1
      BY <3>2, CountArrive
    <3>4. QED
      BY <1>0, <3>1, <3>2, <3>3
  <2>3. QED
    BY <2>1, <2>2
<1>9. CASE CloseQueue
  <2>1. ~Blocked'
    BY <1>0, <1>9 DEF CloseQueue, Broadcast, TypeOK
  <2>2. QED
    BY <2>1
<1>10. CASE Destroy
  <2>1. ~Blocked'
    BY <1>0, <1>10 DEF Destroy, PoolInv, Phases, producerVars, TypeOK
  <2>2. QED
    BY <2>1
<1>11. ASSUME NEW w \in Workers, WorkerStep(w), ~PopTake(w)
       PROVE  UNCHANGED <<queue, ppc>>
  BY <1>11 DEF WorkerStep, WorkerContinue, WorkerExit, PopWait, PopNull, WorkerDone, queueVars,
               producerVars
<1>12. CASE SetPoolShutdown \/ UNCHANGED vars
  BY <1>1, <1>12 DEF SetPoolShutdown, queueVars, producerVars, vars
<1>13. QED
  BY <1>1, <1>2, <1>3, <1>4, <1>5, <1>6, <1>7, <1>8, <1>9, <1>10, <1>11, <1>12
     DEF Next, SubmitStep, Terminated

\* No lost wake-up in task_queue_push either.
THEOREM NoBlockedTheorem == Spec => []NoBlockedWhileRoom
<1>1. Init => NoBlockedWhileRoom
  BY DEF Init, NoBlockedWhileRoom
<1>2. QED
  BY <1>1, BlockedStep, PoolTheorem, PTL DEF Spec

-----------------------------------------------------------------------------
\* Where tasks are, variable by variable: OneHolder without its list of places.
Apart ==
    /\ \A i, j \in 1 .. Len(queue) : queue[i] = queue[j] => i = j
    /\ \A p, q \in Producers : ptask[p] = ptask[q] => p = q \/ ptask[p] = NoTask
    /\ \A v, w \in Workers : wtask[v] = wtask[w] => v = w \/ wtask[v] = NoTask
    /\ \A p \in Producers, i \in 1 .. Len(queue) : ptask[p] # queue[i]
    /\ \A p \in Producers, w \in Workers : ptask[p] = wtask[w] => ptask[p] = NoTask
    /\ \A w \in Workers, i \in 1 .. Len(queue) : wtask[w] # queue[i]
    /\ \A p \in Producers : ptask[p] \notin done \cup discarded \cup leaked
    /\ \A w \in Workers : wtask[w] \notin done \cup discarded \cup leaked
    /\ \A i \in 1 .. Len(queue) : queue[i] \notin done \cup discarded \cup leaked
    /\ done \cap discarded = {} /\ done \cap leaked = {} /\ discarded \cap leaked = {}

\* A step that moves no task keeps them apart; the six steps that do move one are
\* task_create, a refusal, the append, the removal, the end of the work and the
\* destruction of the queue.
LEMMA ApartStep == TypeOK /\ Holding /\ Apart /\ [Next]_vars => Apart'
<1> SUFFICES ASSUME TypeOK, Holding, Apart, [Next]_vars
             PROVE  Apart'
  OBVIOUS
<1> USE PoolAssumption
<1>a. /\ queue \in Seq(Tasks) /\ Len(queue) \in Nat /\ \A i \in 1 .. Len(queue) : queue[i] \in Tasks
      /\ ptask \in [Producers -> Tasks \cup {NoTask}] /\ wtask \in [Workers -> Tasks \cup {NoTask}]
      /\ done \subseteq Tasks /\ discarded \subseteq Tasks /\ leaked \subseteq Tasks
  BY ElementOfSeq, LenProperties DEF TypeOK
<1>0. CASE UNCHANGED <<queue, ptask, wtask, fateVars>>
  BY <1>0 DEF Apart, fateVars
<1>1. ASSUME NEW p \in Producers, NEW t \in Tasks, Create(p, t)
      PROVE  Apart'
  <2>1. UNCHANGED <<queue, wtask, done, discarded, leaked>> /\ ptask' = [ptask EXCEPT ![p] = t]
    BY <1>1 DEF Create, queueVars, workerVars, fateVars
  <2>2. /\ \A q \in Producers : ptask[q] # t
        /\ \A w \in Workers : wtask[w] # t
        /\ \A i \in 1 .. Len(queue) : queue[i] # t
        /\ t \notin done \cup discarded \cup leaked
    BY <1>1 DEF Create, Fresh, QueuedTasks
  <2>3. QED
    BY <1>a, <2>1, <2>2 DEF Apart
<1>2. ASSUME NEW p \in Producers, ppc[p] \in {"submit", "push"}, Refused(p)
      PROVE  Apart'
  <2>1. /\ UNCHANGED <<queue, wtask, done, discarded>> /\ ptask' = [ptask EXCEPT ![p] = NoTask]
        /\ leaked' = leaked \cup {ptask[p]}
    BY <1>2 DEF Refused, queueVars, workerVars
  <2>2. ptask[p] \in Tasks /\ NoTask \notin Tasks
    BY <1>2, <1>a DEF Holding
  <2>3. \A q \in Producers : ptask'[q] = NoTask \/ (q # p /\ ptask'[q] = ptask[q])
    BY <1>a, <2>1
  <2>4. /\ \A q, r \in Producers : ptask'[q] = ptask'[r] => q = r \/ ptask'[q] = NoTask
        /\ \A q \in Producers, i \in 1 .. Len(queue) : ptask'[q] # queue[i]
    BY <1>a, <2>2, <2>3 DEF Apart
  <2>5. /\ \A q \in Producers, w \in Workers : ptask'[q] = wtask[w] => ptask'[q] = NoTask
        /\ \A w \in Workers : wtask[w] # ptask[p]
    BY <2>2, <2>3 DEF Apart
  <2>6. \A q \in Producers : ptask'[q] \notin done \cup discarded \cup leaked \cup {ptask[p]}
    <3> SUFFICES ASSUME NEW q \in Producers
                 PROVE  ptask'[q] \notin done \cup discarded \cup leaked \cup {ptask[p]}
      OBVIOUS
    <3>1. CASE ptask'[q] = NoTask
      BY <1>a, <2>2, <3>1
    <3>2. CASE q # p /\ ptask'[q] = ptask[q]
      <4>1. ptask[q] # ptask[p]
        BY <2>2, <3>2 DEF Apart
      <4>2. ptask[q] \notin done \cup discarded \cup leaked
        BY DEF Apart
      <4>3. QED
        BY <3>2, <4>1, <4>2
    <3>3. QED
      BY <2>3, <3>1, <3>2
  <2>7. \A i \in 1 .. Len(queue) : queue[i] \notin done \cup discarded \cup leaked \cup {ptask[p]}
    BY DEF Apart
  <2>8. ptask[p] \notin done \cup discarded \cup leaked
    BY DEF Apart
  <2>9. QED
    BY <2>1, <2>4, <2>5, <2>6, <2>7, <2>8 DEF Apart
<1>3. ASSUME NEW p \in Producers, PushAppend(p)
      PROVE  Apart'
  <2>1. /\ UNCHANGED <<wtask, done, discarded, leaked>> /\ ptask' = [ptask EXCEPT ![p] = NoTask]
        /\ queue' = Append(queue, ptask[p])
    BY <1>3 DEF PushAppend, fateVars
  <2>2. ptask[p] \in Tasks
    BY <1>3, <1>a DEF PushAppend, Holding
  <2>3. /\ Len(queue') = Len(queue) + 1 /\ queue'[Len(queue) + 1] = ptask[p]
        /\ \A i \in 1 .. Len(queue) : queue'[i] = queue[i]
    BY <1>a, <2>1, <2>2, AppendProperties
  <2>4. \A i \in 1 .. Len(queue') : i \in 1 .. Len(queue) \/ i = Len(queue) + 1
    BY <1>a, <2>3
  <2>5. \A i, j \in 1 .. Len(queue') : queue'[i] = queue'[j] => i = j
    BY <2>3, <2>4 DEF Apart
  <2>6. /\ \A q \in Producers, i \in 1 .. Len(queue') : ptask'[q] # queue'[i]
        /\ \A q, r \in Producers : ptask'[q] = ptask'[r] => q = r \/ ptask'[q] = NoTask
    BY <1>a, <2>1, <2>2, <2>3, <2>4 DEF Apart
  <2>7. \A w \in Workers, i \in 1 .. Len(queue') : wtask'[w] # queue'[i]
    BY <1>a, <2>1, <2>2, <2>3, <2>4 DEF Apart
  <2>8. \A i \in 1 .. Len(queue') : queue'[i] \notin (done \cup discarded \cup leaked)'
    BY <1>a, <2>1, <2>2, <2>3, <2>4 DEF Apart
  <2>9. /\ \A q \in Producers : ptask'[q] = ptask[q] \/ ptask'[q] = NoTask
        /\ NoTask \notin done \cup discarded \cup leaked
    BY <1>a, <2>1
  <2>10. QED
    BY <2>1, <2>5, <2>6, <2>7, <2>8, <2>9 DEF Apart
<1>4. ASSUME NEW w \in Workers, PopTake(w)
      PROVE  Apart'
  <2>1. /\ UNCHANGED <<ptask, done, discarded, leaked>> /\ queue # <<>>
        /\ queue' = Tail(queue) /\ wtask' = [wtask EXCEPT ![w] = Head(queue)]
    BY <1>4 DEF PopTake, fateVars
  <2>2. /\ 1 \in 1 .. Len(queue) /\ Head(queue) = queue[1]
        /\ Len(queue') = Len(queue) - 1
        /\ \A i \in 1 .. Len(queue') : i + 1 \in 1 .. Len(queue) /\ queue'[i] = queue[i + 1]
    BY <1>a, <2>1, HeadTailProperties, EmptySeq
  <2>3. /\ wtask'[w] = queue[1] /\ \A v \in Workers \ {w} : wtask'[v] = wtask[v]
        /\ \A i \in 1 .. Len(queue') : \E j \in 1 .. Len(queue) : j # 1 /\ queue'[i] = queue[j]
    BY <1>a, <2>1, <2>2
  <2>4. \A i, j \in 1 .. Len(queue') : queue'[i] = queue'[j] => i = j
    <3> SUFFICES ASSUME NEW i \in 1 .. Len(queue'), NEW j \in 1 .. Len(queue'), queue'[i] = queue'[j]
                 PROVE  i = j
      OBVIOUS
    <3>1. i + 1 = j + 1
      BY <2>2 DEF Apart
    <3>2. QED
      BY <1>a, <2>2, <3>1
  <2>5. \A v, u \in Workers : wtask'[v] = wtask'[u] => v = u \/ wtask'[v] = NoTask
    BY <2>2, <2>3 DEF Apart
  <2>6. \A v \in Workers, i \in 1 .. Len(queue') : wtask'[v] # queue'[i]
    BY <2>2, <2>3 DEF Apart
  <2>7. \A p \in Producers, v \in Workers : ptask[p] = wtask'[v] => ptask[p] = NoTask
    BY <2>2, <2>3 DEF Apart
  <2>8. /\ \A p \in Producers, i \in 1 .. Len(queue') : ptask[p] # queue'[i]
        /\ \A i \in 1 .. Len(queue') : queue'[i] \notin done \cup discarded \cup leaked
        /\ \A v \in Workers : wtask'[v] \notin done \cup discarded \cup leaked
    BY <2>2, <2>3 DEF Apart
  <2>9. QED
    BY <2>1, <2>4, <2>5, <2>6, <2>7, <2>8 DEF Apart
<1>5. ASSUME NEW w \in Workers, WorkerDone(w)
      PROVE  Apart'
  <2>1. /\ UNCHANGED <<queue, ptask, discarded, leaked>> /\ wtask' = [wtask EXCEPT ![w] = NoTask]
        /\ done' = done \cup {wtask[w]}
    BY <1>5 DEF WorkerDone, queueVars, producerVars
  <2>2. wtask[w] \in Tasks /\ NoTask \notin Tasks
    BY <1>5, <1>a DEF WorkerDone, Holding
  <2>3. \A v \in Workers : wtask'[v] = NoTask \/ (v # w /\ wtask'[v] = wtask[v])
    BY <1>a, <2>1
  <2>4. /\ \A u, v \in Workers : wtask'[u] = wtask'[v] => u = v \/ wtask'[u] = NoTask
        /\ \A v \in Workers, i \in 1 .. Len(queue) : wtask'[v] # queue[i]
    BY <1>a, <2>2, <2>3 DEF Apart
  <2>5. /\ \A p \in Producers, v \in Workers : ptask[p] = wtask'[v] => ptask[p] = NoTask
        /\ \A p \in Producers : ptask[p] # wtask[w]
    BY <2>2, <2>3 DEF Apart
  <2>6. \A v \in Workers : wtask'[v] \notin done \cup discarded \cup leaked \cup {wtask[w]}
    <3> SUFFICES ASSUME NEW v \in Workers
                 PROVE  wtask'[v] \notin done \cup discarded \cup leaked \cup {wtask[w]}
      OBVIOUS
    <3>1. CASE wtask'[v] = NoTask
      BY <1>a, <2>2, <3>1
    <3>2. CASE v # w /\ wtask'[v] = wtask[v]
      <4>1. wtask[v] # wtask[w]
        BY <2>2, <3>2 DEF Apart
      <4>2. wtask[v] \notin done \cup discarded \cup leaked
        BY DEF Apart
      <4>3. QED
        BY <3>2, <4>1, <4>2
    <3>3. QED
      BY <2>3, <3>1, <3>2
  <2>7. \A i \in 1 .. Len(queue) : queue[i] \notin done \cup discarded \cup leaked \cup {wtask[w]}
    BY DEF Apart
  <2>8. wtask[w] \notin done \cup discarded \cup leaked
    BY DEF Apart
  <2>9. QED
    BY <2>1, <2>4, <2>5, <2>6, <2>7, <2>8 DEF Apart
<1>6. CASE Destroy
  <2>1. /\ UNCHANGED <<ptask, wtask, done, leaked>> /\ queue' = <<>>
        /\ discarded' = discarded \cup {queue[i] : i \in 1 .. Len(queue)}
    BY <1>6 DEF Destroy, QueuedTasks, producerVars, workerVars
  <2>2. \A i \in 1 .. Len(queue') : FALSE
    BY <2>1, EmptySeq
  <2>3. /\ \A p \in Producers : ptask[p] \notin discarded'
        /\ \A w \in Workers : wtask[w] \notin discarded'
        /\ done \cap discarded' = {} /\ discarded' \cap leaked = {}
    BY <2>1 DEF Apart
  <2>4. QED
    BY <2>1, <2>2, <2>3 DEF Apart
<1>7. ASSUME NEW p \in Producers, ProducerStop(p) \/ SubmitToRunning(p) \/ PushWait(p)
      PROVE  UNCHANGED <<queue, ptask, wtask, fateVars>>
  BY <1>7 DEF ProducerStop, SubmitToRunning, PushWait, queueVars, workerVars, fateVars
<1>8. ASSUME NEW w \in Workers, WorkerContinue(w) \/ WorkerExit(w) \/ PopWait(w) \/ PopNull(w)
      PROVE  UNCHANGED <<queue, ptask, wtask, fateVars>>
  BY <1>8 DEF WorkerContinue, WorkerExit, PopWait, PopNull, queueVars, producerVars, fateVars
<1>9. ASSUME SpuriousWakeup \/ SetPoolShutdown \/ CloseQueue \/ UNCHANGED vars
      PROVE  UNCHANGED <<queue, ptask, wtask, fateVars>>
  BY <1>9 DEF SpuriousWakeup, SetPoolShutdown, CloseQueue, queueVars, producerVars, workerVars,
              fateVars, vars
<1>10. QED
  BY <1>0, <1>1, <1>2, <1>3, <1>4, <1>5, <1>6, <1>7, <1>8, <1>9
     DEF Next, SubmitStep, WorkerStep, SubmitToStopped, PushShutdown, Terminated

\* No task is ever in two places, however many threads create, queue, take and
\* destroy them: none is processed twice and none freed twice.
THEOREM OneHolderTheorem == Spec => []OneHolder
<1>1. Init => Apart
  BY EmptySeq, PoolAssumption DEF Init, Apart
<1>2. PoolInv /\ Apart /\ [Next]_vars => Apart'
  BY ApartStep DEF PoolInv
<1>3. PoolInv /\ Apart => OneHolder
  <2> SUFFICES ASSUME TypeOK, Apart
               PROVE  OneHolder
    BY DEF PoolInv
  <2> DEFINE A == {ptask[p] : p \in Producers} \ {NoTask}
             W == {wtask[w] : w \in Workers} \ {NoTask}
             places == <<A, QueuedTasks, W, done, discarded, leaked>>
  <2>1. /\ A \cap QueuedTasks = {} /\ A \cap W = {} /\ A \cap done = {}
        /\ A \cap discarded = {} /\ A \cap leaked = {}
    BY DEF Apart, QueuedTasks
  <2>2. /\ QueuedTasks \cap W = {} /\ QueuedTasks \cap done = {} /\ QueuedTasks \cap discarded = {}
        /\ QueuedTasks \cap leaked = {}
    BY DEF Apart, QueuedTasks
  <2>3. W \cap done = {} /\ W \cap discarded = {} /\ W \cap leaked = {}
    BY DEF Apart
  <2>4. done \cap discarded = {} /\ done \cap leaked = {} /\ discarded \cap leaked = {}
    BY DEF Apart
  <2>5. \A i, j \in 1 .. 6 : i # j => places[i] \cap places[j] = {}
    <3> HIDE DEF A, W
    <3>1. \A i \in 1 .. 6 : i = 1 \/ i = 2 \/ i = 3 \/ i = 4 \/ i = 5 \/ i = 6
      OBVIOUS
    <3>2. QED
      BY <2>1, <2>2, <2>3, <2>4, <3>1
  <2>6. QED
    BY <2>5 DEF OneHolder, Apart
<1>4. QED
  BY <1>1, <1>2, <1>3, PoolTheorem, PTL DEF Spec

\* From its creation on a task is always somewhere: with a thread, in the queue,
\* or known to be done, discarded or leaked.
LEMMA AccountedStep ==
    TypeOK /\ Holding /\ [Next]_vars => \A t \in Tasks : ~Fresh(t) => ~Fresh(t)'
<1> SUFFICES ASSUME TypeOK, Holding, [Next]_vars, NEW t \in Tasks, ~Fresh(t)
             PROVE  ~Fresh(t)'
  OBVIOUS
<1> USE PoolAssumption
<1>a. /\ queue \in Seq(Tasks) /\ Len(queue) \in Nat
      /\ ptask \in [Producers -> Tasks \cup {NoTask}] /\ wtask \in [Workers -> Tasks \cup {NoTask}]
  BY LenProperties DEF TypeOK
<1>b. \/ \E p \in Producers : ptask[p] = t
      \/ \E w \in Workers : wtask[w] = t
      \/ \E i \in 1 .. Len(queue) : queue[i] = t
      \/ t \in done \cup discarded \cup leaked
  BY DEF Fresh, QueuedTasks
<1>c. SUFFICES \/ \E p \in Producers : ptask'[p] = t
               \/ \E w \in Workers : wtask'[w] = t
               \/ \E i \in 1 .. Len(queue') : queue'[i] = t
               \/ t \in done' \cup discarded' \cup leaked'
  BY DEF Fresh, QueuedTasks
<1> DEFINE Kept == \/ \E p \in Producers : ptask'[p] = t
                   \/ \E w \in Workers : wtask'[w] = t
                   \/ \E i \in 1 .. Len(queue') : queue'[i] = t
                   \/ t \in done' \cup discarded' \cup leaked'
<1>1. ASSUME NEW p \in Producers, NEW u \in Tasks, Create(p, u)
      PROVE  Kept
  <2>1. ptask[p] = NoTask
    BY <1>1, <1>a DEF Create, Holding
  <2>2. QED
    BY <1>a, <1>b, <1>1, <2>1 DEF Create, queueVars, workerVars, fateVars
<1>2. ASSUME NEW p \in Producers, Refused(p)
      PROVE  Kept
  BY <1>a, <1>b, <1>2 DEF Refused, queueVars, workerVars
<1>3. ASSUME NEW p \in Producers, PushAppend(p)
      PROVE  Kept
  <2>1. ptask[p] \in Tasks
    BY <1>3, <1>a DEF PushAppend, Holding
  <2>2. /\ Len(queue') = Len(queue) + 1 /\ queue'[Len(queue) + 1] = ptask[p]
        /\ \A i \in 1 .. Len(queue) : queue'[i] = queue[i]
    BY <1>a, <1>3, <2>1, AppendProperties DEF PushAppend
  <2>3. /\ Len(queue) + 1 \in 1 .. Len(queue') /\ 1 .. Len(queue) \subseteq 1 .. Len(queue')
    BY <1>a, <2>2
  <2>4. QED
    BY <1>a, <1>b, <1>3, <2>2, <2>3 DEF PushAppend, fateVars
<1>4. ASSUME NEW w \in Workers, PopTake(w)
      PROVE  Kept
  <2>1. wtask[w] = NoTask
    BY <1>4, <1>a DEF PopTake, Holding
  <2>2. /\ Head(queue) = queue[1] /\ Len(queue') = Len(queue) - 1
        /\ \A i \in 1 .. Len(queue') : queue'[i] = queue[i + 1]
    BY <1>a, <1>4, HeadTailProperties DEF PopTake
  <2>3. \A i \in 1 .. Len(queue) : i = 1 \/ (i - 1 \in 1 .. Len(queue') /\ queue'[i - 1] = queue[i])
    BY <1>a, <2>2
  <2>4. wtask'[w] = Head(queue)
    BY <1>a, <1>4 DEF PopTake
  <2>5. \A v \in Workers : wtask[v] = t => wtask'[v] = t
    BY <1>a, <1>4, <2>1 DEF PopTake
  <2>6. \A i \in 1 .. Len(queue) : queue[i] = t => Kept
    BY <2>2, <2>3, <2>4
  <2>7. QED
    BY <1>b, <1>4, <2>5, <2>6 DEF PopTake, fateVars
<1>5. ASSUME NEW w \in Workers, WorkerDone(w)
      PROVE  Kept
  BY <1>a, <1>b, <1>5 DEF WorkerDone, queueVars, producerVars
<1>6. ASSUME Destroy
      PROVE  Kept
  BY <1>a, <1>b, <1>6 DEF Destroy, QueuedTasks, producerVars, workerVars
<1>7. ASSUME UNCHANGED <<queue, ptask, wtask, fateVars>>
      PROVE  Kept
  BY <1>b, <1>7 DEF fateVars
<1>8. ASSUME NEW p \in Producers, ProducerStop(p) \/ SubmitToRunning(p) \/ PushWait(p)
      PROVE  UNCHANGED <<queue, ptask, wtask, fateVars>>
  BY <1>8 DEF ProducerStop, SubmitToRunning, PushWait, queueVars, workerVars, fateVars
<1>9. ASSUME NEW w \in Workers, WorkerContinue(w) \/ WorkerExit(w) \/ PopWait(w) \/ PopNull(w)
      PROVE  UNCHANGED <<queue, ptask, wtask, fateVars>>
  BY <1>9 DEF WorkerContinue, WorkerExit, PopWait, PopNull, queueVars, producerVars, fateVars
<1>10. ASSUME SpuriousWakeup \/ SetPoolShutdown \/ CloseQueue \/ UNCHANGED vars
       PROVE  UNCHANGED <<queue, ptask, wtask, fateVars>>
  BY <1>10 DEF SpuriousWakeup, SetPoolShutdown, CloseQueue, queueVars, producerVars, workerVars,
               fateVars, vars
<1>11. QED
  <2> HIDE DEF Kept
  <2>1. Kept
    BY <1>1, <1>2, <1>3, <1>4, <1>5, <1>6, <1>7, <1>8, <1>9, <1>10
       DEF Next, SubmitStep, WorkerStep, SubmitToStopped, PushShutdown, Terminated
  <2>2. QED
    BY <2>1 DEF Kept

\* No step of any thread loses a task, whatever the moment the pool is stopped.
THEOREM NoTaskVanishesTheorem == Spec => NoTaskVanishes
<1>1. PoolInv /\ [Next]_vars => [\A t \in Tasks : ~Fresh(t) => ~Fresh(t)']_vars
  BY AccountedStep DEF PoolInv
<1>2. QED
  BY <1>1, PoolTheorem, PTL DEF Spec, NoTaskVanishes
=============================================================================
