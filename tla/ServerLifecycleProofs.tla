------------------------ MODULE ServerLifecycleProofs ------------------------
(***************************************************************************)
(* Proofs about ServerLifecycle, for any number of IO threads and workers, *)
(* any queue size and any number of clients, with and without failures.    *)
(***************************************************************************)
EXTENDS ServerLifecycle, SequenceTheorems, TLAPS

USE DEF mainVars, listenVars, serveVars, poolVars, workerVars, ioVars, loadVars

\* The main thread has no IO thread yet; it is past the last of them.
BeforeIo == {"listen", "pool", "workers"}
AfterIo == {"poolStop", "poolJoin", "closeListen", "end"}

\* The pool exists from thread_pool_create to the end of thread_pool_destroy, and
\* its flag goes up in thread_pool_destroy only.
PoolPhase ==
    /\ poolLive <=> mpc \notin {"listen", "pool", "closeListen", "end"}
    /\ poolShutdown => mpc \in {"poolJoin", "closeListen", "end"}

\* How far the loop over the IO threads is: io_thread_pool_create starts them from
\* the first on, io_thread_pool_destroy frees them in the same order and stops at
\* the first that was not created.
IoPhase ==
    /\ \A i \in Io : iopc[i] = "none" <=> ioMem[i] = "none"
    /\ \A i \in Io : ioMem[i] = "freed" => iopc[i] = "exited"
    /\ \A i, j \in Io : i < j /\ iopc[i] = "none" => iopc[j] = "none"
    /\ mpc \in BeforeIo => \A i \in Io : iopc[i] = "none"
    /\ mpc = "io" => k \in Io /\ \A i \in Io : iopc[i] = "none" <=> i >= k
    /\ mpc = "ioStop" => k <= NumIo + 1
    /\ mpc = "ioJoin" => k \in Io /\ iopc[k] # "none"
    /\ mpc \in {"ioStop", "ioJoin"} => \A i \in Io : i < k => ioMem[i] = "freed"
    /\ mpc \in AfterIo => \A i \in Io : ioMem[i] # "live"

\* Which descriptors are open where.
FdPhase ==
    /\ <<"listen", 0>> \in fds =>
          mpc # "end" /\ (mpc \in {"ioStop", "ioJoin", "poolStop", "poolJoin"} => failed)
    /\ <<"loop", 0>> \in fds => mpc \in {"add", "running", "wait", "accept"}
    /\ \A i \in Io : <<"pipe", i>> \in fds \/ <<"loop", i>> \in fds => ioMem[i] = "live"

\* The listening socket: BacklogNoticed also where the main thread is on its way
\* to event_loop_wait, and no more clients wait or are connected than have come.
ListenPhase ==
    /\ mpc \in {"running", "wait"} /\ backlog > 0 => listenEdge \/ acceptFailed
    /\ backlog <= arrivals
    /\ \A i \in Io : clients[i] + backlog <= arrivals

\* Before server_create has succeeded, and for good when it has failed, there is no
\* connection and nothing that could come of one.
Unserved ==
    /\ failed => mpc \in AfterIo \cup {"ioStop", "ioJoin"}
    /\ failed \/ mpc \in BeforeIo \cup {"io", "loop", "add"} =>
          /\ queue = <<>>
          /\ \A w \in Workers : wpc[w] # "work"
          /\ \A i \in Io : clients[i] = 0 /\ msgs[i] = 0 /\ iopc[i] # "submit"

\* Nothing of this touches the worker's part of FreedAfterJoin, which is inductive
\* given PoolPhase.
WorkersRunOnPool == \A w \in Workers : wpc[w] \in {"pop", "work", "loop"} => poolLive

\* The inductive invariant.
ServerInv == /\ TypeOK /\ PoolPhase /\ IoPhase /\ FdPhase /\ ListenPhase
             /\ Unserved /\ WorkersRunOnPool

-----------------------------------------------------------------------------
\* The turn of io_thread_pool_add_connection stays within the IO threads.
LEMMA NextTurn ==
    ASSUME NEW n \in Io
    PROVE  (n % NumIo) + 1 \in Io
BY ServerAssumption DEF Io

\* Every step keeps the types; the loop index stays in range because IoPhase says
\* how far the loops over the threads can get.
LEMMA ServerTypeStep == TypeOK /\ IoPhase /\ ListenPhase /\ [Next]_vars => TypeOK'
<1> SUFFICES ASSUME TypeOK, IoPhase, ListenPhase, [Next]_vars
             PROVE  TypeOK'
  OBVIOUS
<1> USE ServerAssumption
<1>0. ServerFds \subseteq AllFds /\ \A i \in Io : IoFds(i) \subseteq AllFds
  BY DEF AllFds
<1>1. CASE CreateListenSocket
  BY <1>1, <1>0 DEF TypeOK, CreateListenSocket, ServerFds
<1>2. CASE CreatePool
  BY <1>2 DEF TypeOK, CreatePool
<1>3. CASE CreatePoolFails
  BY <1>3 DEF TypeOK, CreatePoolFails
<1>4. CASE StartWorker
  <2>1. k' \in 1 .. (NumIo + NumWorkers + 1)
    BY <1>4 DEF TypeOK, StartWorker
  <2>2. wpc' \in [Workers -> {"none", "pop", "work", "loop", "exited"}]
    BY <1>4 DEF TypeOK, StartWorker
  <2>3. QED
    BY <1>4, <2>1, <2>2 DEF TypeOK, StartWorker
<1>5. CASE StartWorkerFails
  BY <1>5 DEF TypeOK, StartWorkerFails
<1>6. CASE CreateIoThread
  <2>1. k \in Io
    BY <1>6 DEF IoPhase, CreateIoThread
  <2>2. fds' \subseteq AllFds
    BY <1>0, <1>6, <2>1 DEF TypeOK, CreateIoThread
  <2>3. k' \in 1 .. (NumIo + NumWorkers + 1)
    <3>1. k' \in {k + 1, 1} /\ k \in 1 .. NumIo
      BY <1>6, <2>1 DEF CreateIoThread, Io
    <3>2. QED
      BY <3>1
  <2>4. QED
    BY <1>6, <2>2, <2>3 DEF TypeOK, CreateIoThread
<1>7. CASE CreateIoThreadFails
  <2>1. <<"msg", k>> \in AllFds
    BY <1>0, <1>7 DEF IoPhase, CreateIoThreadFails, IoFds
  <2>2. fds' \subseteq AllFds
    <3>1. fds' = fds \/ fds' = fds \cup {<<"msg", k>>}
      BY <1>7 DEF CreateIoThreadFails
    <3>2. fds \subseteq AllFds
      BY DEF TypeOK
    <3>3. QED
      BY <2>1, <3>1, <3>2
  <2>3. k' \in 1 .. (NumIo + NumWorkers + 1)
    BY <1>7 DEF CreateIoThreadFails
  <2>4. QED
    BY <1>7, <2>2, <2>3 DEF TypeOK, CreateIoThreadFails
<1>8. CASE CreateMainLoop
  BY <1>8, <1>0 DEF TypeOK, CreateMainLoop, ServerFds
<1>9. CASE CreateMainLoopFails
  BY <1>9 DEF TypeOK, CreateMainLoopFails
<1>10. CASE AddListen
  BY <1>10 DEF TypeOK, AddListen
<1>11. CASE AddListenFails
  BY <1>11 DEF TypeOK, AddListenFails
<1>12. CASE Arrive
  BY <1>12 DEF TypeOK, Arrive, ListenPhase
<1>13. CASE Signal
  BY <1>13 DEF TypeOK, Signal
<1>14. CASE KeepServing
  BY <1>14 DEF TypeOK, KeepServing
<1>15. CASE ListenEvent
  BY <1>15 DEF TypeOK, ListenEvent
<1>16. CASE ListenError
  BY <1>16 DEF TypeOK, ListenError
<1>17. CASE AcceptConnection
  <2>1. clients' \in [Io -> 0 .. MaxArrivals]
    <3>1. /\ clients \in [Io -> 0 .. MaxArrivals] /\ nextThread \in Io
          /\ arrivals \in 0 .. MaxArrivals /\ backlog \in 0 .. MaxArrivals
      BY DEF TypeOK
    <3>2. backlog > 0 /\ clients[nextThread] + backlog <= arrivals
      BY <1>17, <3>1 DEF ListenPhase, AcceptConnection
    <3>3. clients[nextThread] + 1 \in 0 .. MaxArrivals
      BY <3>1, <3>2
    <3>4. QED
      BY <1>17, <3>1, <3>3 DEF AcceptConnection
  <2>2. QED
    BY <1>17, <2>1, NextTurn DEF TypeOK, AcceptConnection
<1>18. CASE AcceptAgain
  BY <1>18 DEF TypeOK, AcceptAgain
<1>19. CASE AcceptFails
  BY <1>19 DEF TypeOK, AcceptFails
<1>20. CASE Stop
  <2>1. backlog' \in 0 .. MaxArrivals /\ listenEdge' \in BOOLEAN
    <3>1. backlog' = 0 /\ listenEdge' = FALSE
      BY <1>20 DEF Stop, DropBacklog
    <3>2. 0 \in 0 .. MaxArrivals
      OBVIOUS
    <3>3. QED
      BY <3>1, <3>2
  <2>2. k' \in 1 .. (NumIo + NumWorkers + 1)
    BY <1>20 DEF Stop
  <2>3. QED
    BY <1>20, <2>1, <2>2 DEF TypeOK, Stop
<1>21. CASE StopIoThread
  BY <1>21 DEF TypeOK, StopIoThread
<1>22. CASE FreeIoThread
  <2>1. k' \in 1 .. (NumIo + NumWorkers + 1)
    BY <1>22 DEF TypeOK, IoPhase, FreeIoThread, Io
  <2>2. QED
    BY <1>22, <2>1 DEF TypeOK, FreeIoThread
<1>23. CASE StopPool
  BY <1>23 DEF TypeOK, StopPool
<1>24. CASE FreePool
  <2>1. queue' \in Seq(Io) /\ Len(queue') <= MaxSize
    BY <1>24, EmptySeq DEF FreePool
  <2>2. QED
    BY <1>24, <2>1 DEF TypeOK, FreePool
<1>25. CASE CloseListenSocket
  <2>1. backlog' \in 0 .. MaxArrivals /\ listenEdge' \in BOOLEAN
    <3>1. backlog' = 0 /\ listenEdge' = FALSE
      BY <1>25 DEF CloseListenSocket, DropBacklog
    <3>2. 0 \in 0 .. MaxArrivals
      OBVIOUS
    <3>3. QED
      BY <3>1, <3>2
  <2>2. QED
    BY <1>25, <2>1 DEF TypeOK, CloseListenSocket
<1>26. ASSUME NEW i \in Io, IoRead(i)
       PROVE  TypeOK'
  BY <1>26 DEF TypeOK, IoRead
<1>27. ASSUME NEW i \in Io, IoMessages(i)
       PROVE  TypeOK'
  BY <1>27 DEF TypeOK, IoMessages
<1>28. ASSUME NEW i \in Io, IoExit(i)
       PROVE  TypeOK'
  BY <1>28 DEF TypeOK, IoExit
<1>29. ASSUME NEW i \in Io, IoPush(i)
       PROVE  TypeOK'
  <2>1. queue' \in Seq(Io) /\ Len(queue') <= MaxSize
    BY <1>29, AppendProperties DEF TypeOK, IoPush
  <2>2. QED
    BY <1>29, <2>1 DEF TypeOK, IoPush
<1>30. ASSUME NEW w \in Workers, WorkerLoop(w)
       PROVE  TypeOK'
  BY <1>30 DEF TypeOK, WorkerLoop
<1>31. ASSUME NEW w \in Workers, WorkerPopNull(w)
       PROVE  TypeOK'
  BY <1>31 DEF TypeOK, WorkerPopNull
<1>32. ASSUME NEW w \in Workers, WorkerPop(w)
       PROVE  TypeOK'
  <2>1. /\ Head(queue) \in Io /\ Tail(queue) \in Seq(Io)
        /\ Len(Tail(queue)) = Len(queue) - 1 /\ Len(queue) \in Nat
    BY <1>32, HeadTailProperties, LenProperties DEF TypeOK, WorkerPop
  <2>2. QED
    <3>1. wpc' \in [Workers -> {"none", "pop", "work", "loop", "exited"}]
      BY <1>32 DEF TypeOK, WorkerPop
    <3>2. wfor' \in [Workers -> Io \cup {0}]
      BY <1>32, <2>1 DEF TypeOK, WorkerPop
    <3>3. queue' \in Seq(Io) /\ Len(queue') <= MaxSize
      BY <1>32, <2>1 DEF TypeOK, WorkerPop
    <3>4. QED
      BY <1>32, <3>1, <3>2, <3>3 DEF TypeOK, WorkerPop
<1>33. ASSUME NEW w \in Workers, WorkerWork(w)
       PROVE  TypeOK'
  <2>1. msgs' \in [Io -> 0 .. MaxMessages]
    <3>1. msgs \in [Io -> 0 .. MaxMessages] /\ MaxMessages \in Nat
      BY DEF TypeOK
    <3>2. \/ msgs' = msgs
          \/ /\ msgs[wfor[w]] < MaxMessages
             /\ msgs' = [msgs EXCEPT ![wfor[w]] = msgs[wfor[w]] + 1]
      BY <1>33 DEF WorkerWork
    <3>3. QED
      BY <3>1, <3>2
  <2>2. QED
    BY <1>33, <2>1 DEF TypeOK, WorkerWork
<1>34. ASSUME NEW i \in Io, IoWait(i) \/ IoBatchDone(i)
       PROVE  TypeOK'
  <2>1. iopc \in [Io -> {"none", "running", "handle", "submit", "exited"}]
    BY DEF TypeOK
  <2>2. iopc' \in [Io -> {"none", "running", "handle", "submit", "exited"}]
    BY <1>34, <2>1 DEF IoWait, IoBatchDone
  <2>3. UNCHANGED <<mainVars, serveVars, fds, poolVars, workerVars, ioFlag, ioMem, loadVars>>
    BY <1>34 DEF IoWait, IoBatchDone
  <2>4. QED
    BY <2>2, <2>3 DEF TypeOK
<1>35. ASSUME NEW i \in Io, IoClose(i)
       PROVE  TypeOK'
  <2>1. clients' \in [Io -> 0 .. MaxArrivals]
    BY <1>35 DEF TypeOK, IoClose
  <2>2. QED
    BY <1>35, <2>1 DEF TypeOK, IoClose
<1>36. CASE UNCHANGED vars
  BY <1>36 DEF TypeOK, vars
<1>37. QED
  BY <1>1, <1>2, <1>3, <1>4, <1>5, <1>6, <1>7, <1>8, <1>9, <1>10, <1>11, <1>12, <1>13, <1>14,
     <1>15, <1>16, <1>17, <1>18, <1>19, <1>20, <1>21, <1>22, <1>23, <1>24, <1>25, <1>26,
     <1>27, <1>28, <1>29, <1>30, <1>31, <1>32, <1>33, <1>34, <1>35,
     <1>36
  DEF Next, CreateStep, ServeStep, DestroyStep, IoStep, ClientStep, WorkerStep, Ended

\* The pool: nothing but server_create and server_destroy touches it, and workers
\* run only while it exists.
LEMMA PoolStep ==
    ServerInv /\ [Next]_vars => PoolPhase' /\ WorkersRunOnPool'
<1> SUFFICES ASSUME TypeOK, PoolPhase, WorkersRunOnPool, [Next]_vars
             PROVE  PoolPhase' /\ WorkersRunOnPool'
  BY DEF ServerInv
<1>0. wpc \in [Workers -> {"none", "pop", "work", "loop", "exited"}]
  BY DEF TypeOK
<1> USE DEF PoolPhase, WorkersRunOnPool
<1>1. CASE CreateStep
  BY <1>0, <1>1 DEF CreateStep, CreateListenSocket, CreatePool, CreatePoolFails, StartWorker,
              StartWorkerFails, CreateIoThread, CreateIoThreadFails, CreateMainLoop,
              CreateMainLoopFails, AddListen, AddListenFails
<1>2. CASE Arrive \/ Signal \/ ServeStep
  BY <1>2 DEF Arrive, Signal, ServeStep, KeepServing, ListenEvent, ListenError,
              AcceptConnection, AcceptAgain, AcceptFails, Stop, DropBacklog
<1>3. CASE DestroyStep
  BY <1>0, <1>3 DEF DestroyStep, StopIoThread, FreeIoThread, StopPool, FreePool,
                    CloseListenSocket, DropBacklog
<1>4. ASSUME NEW i \in Io, IoStep(i) \/ ClientStep(i)
      PROVE  PoolPhase' /\ WorkersRunOnPool'
  BY <1>4 DEF IoStep, ClientStep, IoWait, IoRead, IoPush, IoMessages, IoClose,
                    IoBatchDone, IoExit
<1>5. ASSUME NEW w \in Workers, WorkerStep(w)
      PROVE  PoolPhase' /\ WorkersRunOnPool'
  BY <1>0, <1>5 DEF WorkerStep, WorkerLoop, WorkerPop, WorkerPopNull, WorkerWork
<1>6. CASE UNCHANGED vars
  BY <1>6 DEF vars
<1>7. QED
  BY <1>1, <1>2, <1>3, <1>4, <1>5, <1>6 DEF Next, Ended

\* The loops over the IO threads: the one that starts them and the one that stops
\* them go the same way, so the second one frees exactly what the first has made.
LEMMA IoPhaseStep == ServerInv /\ [Next]_vars => IoPhase'
<1> SUFFICES ASSUME TypeOK, IoPhase, [Next]_vars
             PROVE  IoPhase'
  BY DEF ServerInv
<1>0. /\ iopc \in [Io -> {"none", "running", "handle", "submit", "exited"}]
      /\ ioMem \in [Io -> {"none", "live", "freed"}]
      /\ k \in Nat /\ k >= 1 /\ NumIo \in Nat /\ NumIo >= 1
  BY ServerAssumption DEF TypeOK
<1> USE DEF IoPhase, BeforeIo, AfterIo
<1>1. CASE CreateIoThread
  <2>1. k \in Io /\ \A i \in Io : iopc[i] = "none" <=> i >= k
    BY <1>1 DEF CreateIoThread
  <2>2. /\ \A i \in Io : iopc'[i] = (IF i = k THEN "running" ELSE iopc[i])
        /\ \A i \in Io : ioMem'[i] = (IF i = k THEN "live" ELSE ioMem[i])
    BY <1>0, <1>1 DEF CreateIoThread
  <2>3. \A i \in Io : iopc'[i] = "none" <=> i > k
    BY <1>0, <2>1, <2>2 DEF Io
  <2>4. CASE k < NumIo
    BY <1>0, <1>1, <2>1, <2>2, <2>3, <2>4 DEF CreateIoThread, Io
  <2>5. CASE ~(k < NumIo)
    BY <1>0, <1>1, <2>1, <2>2, <2>3, <2>5 DEF CreateIoThread, Io
  <2>6. QED
    BY <2>4, <2>5
<1>2. CASE \/ CreateListenSocket \/ CreatePool \/ CreatePoolFails \/ StartWorkerFails
           \/ CreateMainLoop \/ CreateMainLoopFails \/ AddListen \/ AddListenFails
  BY <1>0, <1>2 DEF CreateListenSocket, CreatePool, CreatePoolFails, StartWorkerFails,
              CreateMainLoop, CreateMainLoopFails, AddListen, AddListenFails, Io
<1>3. CASE StartWorker
  BY <1>0, <1>3 DEF StartWorker, Io
<1>4. CASE CreateIoThreadFails
  BY <1>0, <1>4 DEF CreateIoThreadFails, Io
<1>5. CASE Arrive \/ Signal \/ ServeStep
  BY <1>0, <1>5 DEF Arrive, Signal, ServeStep, KeepServing, ListenEvent, ListenError,
              AcceptConnection, AcceptAgain, AcceptFails, Stop, DropBacklog, Io
<1>6. CASE StopIoThread
  <2>1. CASE k <= NumIo /\ iopc[k] # "none"
    BY <1>0, <1>6, <2>1 DEF StopIoThread, Io
  <2>2. CASE ~(k <= NumIo /\ iopc[k] # "none")
    \* Past the last thread that was created: the ones before are freed, the
    \* others never were.
    <3>1. \A i \in Io : i >= k => iopc[i] = "none"
      BY <1>0, <1>6, <2>2 DEF StopIoThread, Io
    <3>2. \A i \in Io : ioMem[i] # "live"
      BY <1>0, <1>6, <3>1 DEF StopIoThread, Io
    <3>3. QED
      BY <1>0, <1>6, <2>2, <3>2 DEF StopIoThread
  <2>3. QED
    BY <2>1, <2>2
<1>7. CASE FreeIoThread
  <2>1. \A i \in Io : ioMem'[i] = (IF i = k THEN "freed" ELSE ioMem[i])
    BY <1>0, <1>7 DEF FreeIoThread
  <2>2. QED
    BY <1>0, <1>7, <2>1 DEF FreeIoThread, Io
<1>8. CASE StopPool \/ FreePool \/ CloseListenSocket
  BY <1>8 DEF StopPool, FreePool, CloseListenSocket, DropBacklog
<1>9. ASSUME NEW i \in Io, IoStep(i) \/ ClientStep(i)
      PROVE  IoPhase'
  <2>1. /\ UNCHANGED <<mpc, k, ioMem>>
        /\ \A j \in Io : iopc'[j] = "none" <=> iopc[j] = "none"
        /\ \A j \in Io : iopc[j] = "exited" => iopc'[j] = "exited"
    BY <1>0, <1>9 DEF IoStep, ClientStep, IoWait, IoRead, IoPush, IoMessages, IoClose,
                    IoBatchDone, IoExit
  <2>2. QED
    BY <2>1
<1>10. ASSUME NEW w \in Workers, WorkerStep(w)
       PROVE  IoPhase'
  BY <1>10 DEF WorkerStep, WorkerLoop, WorkerPop, WorkerPopNull, WorkerWork
<1>11. CASE UNCHANGED vars
  BY <1>11 DEF vars
<1>12. QED
  BY <1>1, <1>2, <1>3, <1>4, <1>5, <1>6, <1>7, <1>8, <1>9, <1>10, <1>11
  DEF Next, CreateStep, DestroyStep, Ended

\* The server's own descriptors: an error path and server_destroy close them, the
\* message pipes excepted.
LEMMA FdPhaseStep == ServerInv /\ [Next]_vars => FdPhase'
<1> SUFFICES ASSUME TypeOK, IoPhase, FdPhase, [Next]_vars
             PROVE  FdPhase'
  BY DEF ServerInv
<1>0. ioMem \in [Io -> {"none", "live", "freed"}] /\ 0 \notin Io
  BY DEF TypeOK, Io
<1> USE DEF FdPhase
<1>1. CASE CreateIoThread
  <2>1. k \in Io
    BY <1>1 DEF CreateIoThread, IoPhase
  <2>2. \A i \in Io : i # k => <<"pipe", i>> \notin IoFds(k) /\ <<"loop", i>> \notin IoFds(k)
    BY DEF IoFds
  <2>3. <<"listen", 0>> \notin IoFds(k) /\ <<"loop", 0>> \notin IoFds(k)
    BY <1>0, <2>1 DEF IoFds
  <2>4. QED
    BY <1>0, <1>1, <2>1, <2>2, <2>3 DEF CreateIoThread
<1>2. CASE CreateIoThreadFails
  BY <1>0, <1>2 DEF CreateIoThreadFails
<1>3. CASE \/ CreateListenSocket \/ CreatePool \/ CreatePoolFails \/ StartWorker
           \/ StartWorkerFails \/ CreateMainLoop \/ CreateMainLoopFails \/ AddListen
           \/ AddListenFails
  BY <1>0, <1>3 DEF CreateListenSocket, CreatePool, CreatePoolFails, StartWorker, StartWorkerFails,
              CreateMainLoop, CreateMainLoopFails, AddListen, AddListenFails
<1>4. CASE Arrive \/ Signal \/ ServeStep
  BY <1>0, <1>4 DEF Arrive, Signal, ServeStep, KeepServing, ListenEvent, ListenError,
              AcceptConnection, AcceptAgain, AcceptFails, Stop, DropBacklog
<1>5. CASE FreeIoThread
  <2>1. k \in Io
    BY <1>5 DEF FreeIoThread, IoPhase
  <2>2. QED
    BY <1>0, <1>5, <2>1 DEF FreeIoThread
<1>6. CASE StopIoThread \/ StopPool \/ FreePool \/ CloseListenSocket
  BY <1>0, <1>6 DEF StopIoThread, StopPool, FreePool, CloseListenSocket, DropBacklog
<1>7. ASSUME NEW i \in Io, IoStep(i) \/ ClientStep(i)
      PROVE  FdPhase'
  BY <1>7 DEF IoStep, ClientStep, IoWait, IoRead, IoPush, IoMessages, IoClose,
                    IoBatchDone, IoExit
<1>8. ASSUME NEW w \in Workers, WorkerStep(w)
       PROVE  FdPhase'
  BY <1>8 DEF WorkerStep, WorkerLoop, WorkerPop, WorkerPopNull, WorkerWork
<1>9. CASE UNCHANGED vars
  BY <1>9 DEF vars
<1>10. QED
  BY <1>1, <1>2, <1>3, <1>4, <1>5, <1>6, <1>7, <1>8, <1>9
  DEF Next, CreateStep, DestroyStep, Ended

\* The backlog: accept_connections goes on until EAGAIN, so an edge that is used
\* up leaves nobody behind.
LEMMA ListenPhaseStep == ServerInv /\ [Next]_vars => ListenPhase'
<1> SUFFICES ASSUME TypeOK, ListenPhase, [Next]_vars
             PROVE  ListenPhase'
  BY DEF ServerInv
<1>0. /\ backlog \in Nat /\ arrivals \in Nat /\ nextThread \in Io
      /\ clients \in [Io -> Nat]
  BY ServerAssumption DEF TypeOK
<1> USE DEF ListenPhase
<1>1. CASE CreateStep
  BY <1>0, <1>1 DEF CreateStep, CreateListenSocket, CreatePool, CreatePoolFails, StartWorker,
              StartWorkerFails, CreateIoThread, CreateIoThreadFails, CreateMainLoop,
              CreateMainLoopFails, AddListen, AddListenFails
<1>2. CASE Arrive
  <2>1. mpc \in {"running", "wait", "accept"} => listenEdge'
    BY <1>2 DEF Arrive
  <2>2. backlog' <= arrivals' /\ mpc' = mpc
    BY <1>0, <1>2 DEF Arrive
  <2>3. \A i \in Io : clients'[i] + backlog' <= arrivals'
    BY <1>0, <1>2 DEF Arrive
  <2>4. QED
    BY <2>1, <2>2, <2>3
<1>3. CASE Signal \/ KeepServing \/ ListenEvent \/ ListenError \/ AcceptAgain
  BY <1>0, <1>3 DEF Signal, KeepServing, ListenEvent, ListenError, AcceptAgain
<1>4. CASE AcceptConnection
  <2>1. \A i \in Io : clients'[i] \in {clients[i], clients[i] + 1}
    BY <1>0, <1>4 DEF AcceptConnection
  <2>2. backlog' = backlog - 1 /\ backlog > 0 /\ arrivals' = arrivals /\ mpc' = "accept"
    BY <1>4 DEF AcceptConnection
  <2>3. \A i \in Io : clients'[i] + backlog' <= arrivals'
    BY <1>0, <2>1, <2>2
  <2>4. QED
    BY <1>0, <2>2, <2>3
<1>5. CASE AcceptFails
  <2>1. backlog' \in Nat /\ backlog' <= backlog /\ clients' = clients /\ arrivals' = arrivals
    BY <1>0, <1>5 DEF AcceptFails
  <2>2. \A i \in Io : clients'[i] + backlog' <= arrivals'
    BY <1>0, <2>1
  <2>3. QED
    BY <1>0, <1>5, <2>1, <2>2 DEF AcceptFails
<1>6. CASE Stop \/ CloseListenSocket
  <2>1. backlog' = 0 /\ clients' = clients /\ arrivals' = arrivals
    BY <1>6 DEF Stop, CloseListenSocket, DropBacklog
  <2>2. \A i \in Io : clients'[i] + backlog' <= arrivals'
    BY <1>0, <2>1
  <2>3. QED
    BY <1>0, <2>1, <2>2
<1>7. CASE StopIoThread \/ FreeIoThread \/ StopPool \/ FreePool
  BY <1>7 DEF StopIoThread, FreeIoThread, StopPool, FreePool
<1>8. ASSUME NEW i \in Io, IoStep(i) \/ ClientStep(i)
      PROVE  ListenPhase'
  <2>1. \A j \in Io : clients'[j] <= clients[j] /\ clients'[j] \in Int
    BY <1>0, <1>8 DEF IoStep, ClientStep, IoWait, IoRead, IoPush, IoMessages, IoClose,
                      IoBatchDone, IoExit
  <2>2. UNCHANGED <<mpc, listenVars, acceptFailed>>
    BY <1>8 DEF IoStep, ClientStep, IoWait, IoRead, IoPush, IoMessages, IoClose,
                IoBatchDone, IoExit
  <2>3. \A j \in Io : clients'[j] + backlog' <= arrivals'
    BY <1>0, <2>1, <2>2
  <2>4. QED
    BY <2>2, <2>3
<1>9. ASSUME NEW w \in Workers, WorkerStep(w)
      PROVE  ListenPhase'
  BY <1>9 DEF WorkerStep, WorkerLoop, WorkerPop, WorkerPopNull, WorkerWork
<1>10. CASE UNCHANGED vars
  BY <1>10 DEF vars
<1>11. QED
  BY <1>1, <1>2, <1>3, <1>4, <1>5, <1>6, <1>7, <1>8, <1>9, <1>10
  DEF Next, ServeStep, DestroyStep, Ended

\* Connections come from accept_connections alone, tasks from connections, messages
\* from tasks: a server that is never started has none of them.
LEMMA UnservedStep == ServerInv /\ [Next]_vars => Unserved'
<1> SUFFICES ASSUME TypeOK, Unserved, [Next]_vars
             PROVE  Unserved'
  BY DEF ServerInv
<1>0. /\ wpc \in [Workers -> {"none", "pop", "work", "loop", "exited"}]
      /\ iopc \in [Io -> {"none", "running", "handle", "submit", "exited"}]
      /\ clients \in [Io -> Nat] /\ msgs \in [Io -> Nat]
  BY ServerAssumption DEF TypeOK
<1> USE DEF Unserved, BeforeIo, AfterIo
<1>1. CASE CreateStep
  BY <1>0, <1>1 DEF CreateStep, CreateListenSocket, CreatePool, CreatePoolFails, StartWorker,
              StartWorkerFails, CreateIoThread, CreateIoThreadFails, CreateMainLoop,
              CreateMainLoopFails, AddListen, AddListenFails
<1>2. CASE Arrive \/ Signal
  BY <1>2 DEF Arrive, Signal
<1>3. CASE ServeStep
  <2>1. ~failed /\ ~failed' /\ mpc' \in {"running", "wait", "accept", "ioStop"}
    BY <1>3 DEF ServeStep, KeepServing, ListenEvent, ListenError, AcceptConnection,
                AcceptAgain, AcceptFails, Stop
  <2>2. QED
    BY <2>1
<1>4. CASE DestroyStep
  BY <1>0, <1>4 DEF DestroyStep, StopIoThread, FreeIoThread, StopPool, FreePool,
                    CloseListenSocket
<1>5. ASSUME NEW i \in Io, IoStep(i) \/ ClientStep(i)
      PROVE  Unserved'
  BY <1>0, <1>5 DEF IoStep, ClientStep, IoWait, IoRead, IoPush, IoMessages, IoClose,
                    IoBatchDone, IoExit
<1>6. ASSUME NEW w \in Workers, WorkerStep(w)
      PROVE  Unserved'
  BY <1>0, <1>6 DEF WorkerStep, WorkerLoop, WorkerPop, WorkerPopNull, WorkerWork
<1>7. CASE UNCHANGED vars
  BY <1>7 DEF vars
<1>8. QED
  BY <1>1, <1>2, <1>3, <1>4, <1>5, <1>6, <1>7 DEF Next, Ended

\* The program starts with nothing.
LEMMA ServerInit == Init => ServerInv
<1> SUFFICES ASSUME Init
             PROVE  ServerInv
  OBVIOUS
<1> USE ServerAssumption
<1>1. queue \in Seq(Io) /\ Len(queue) <= MaxSize
  BY EmptySeq DEF Init
<1>2. TypeOK
  <2>1. /\ wpc \in [Workers -> {"none", "pop", "work", "loop", "exited"}]
        /\ wfor \in [Workers -> Io \cup {0}]
    BY DEF Init
  <2>2. /\ iopc \in [Io -> {"none", "running", "handle", "submit", "exited"}]
        /\ ioFlag \in [Io -> BOOLEAN] /\ ioMem \in [Io -> {"none", "live", "freed"}]
        /\ msgs \in [Io -> 0 .. MaxMessages] /\ clients \in [Io -> 0 .. MaxArrivals]
    BY DEF Init
  <2>3. /\ backlog \in 0 .. MaxArrivals /\ arrivals \in 0 .. MaxArrivals
        /\ k \in 1 .. (NumIo + NumWorkers + 1) /\ nextThread \in Io
    BY DEF Init, Io
  <2>4. QED
    BY <1>1, <2>1, <2>2, <2>3 DEF Init, TypeOK
<1>3. PoolPhase /\ WorkersRunOnPool
  BY DEF Init, PoolPhase, WorkersRunOnPool
<1>4. IoPhase
  BY DEF Init, IoPhase, BeforeIo, AfterIo
<1>5. FdPhase /\ ListenPhase /\ Unserved
  BY DEF Init, FdPhase, ListenPhase, Unserved
<1>6. QED
  BY <1>2, <1>3, <1>4, <1>5 DEF ServerInv

\* ServerInv is inductive.
LEMMA ServerStep == ServerInv /\ [Next]_vars => ServerInv'
BY ServerTypeStep, PoolStep, IoPhaseStep, FdPhaseStep, ListenPhaseStep, UnservedStep
DEF ServerInv

\* An IO thread that runs is live, and the main thread is then somewhere between
\* io_thread_create and the join.
LEMMA RunningIoThread ==
    ASSUME ServerInv, NEW i \in Io, iopc[i] \in {"running", "handle", "submit"}
    PROVE  ioMem[i] = "live" /\ mpc \notin BeforeIo \cup AfterIo
<1>1. ioMem[i] \in {"none", "live", "freed"}
  BY DEF ServerInv, TypeOK
<1>2. QED
  BY <1>1 DEF ServerInv, IoPhase

-----------------------------------------------------------------------------
\* Every variable has its type, the loop index and the task queue included.
THEOREM ServerTypeTheorem == Spec => []TypeOK
<1>1. ServerInv => TypeOK
  BY DEF ServerInv
<1>2. QED
  BY <1>1, ServerInit, ServerStep, PTL DEF Spec

\* thread_pool_submit is never called on a pool that is gone or shutting down: on
\* every path through server_create and server_destroy the IO threads are joined
\* first.
THEOREM PoolOutlivesIoTheorem == Spec => []PoolOutlivesIo
<1>1. ServerInv => PoolOutlivesIo
  BY RunningIoThread DEF ServerInv, PoolPhase, PoolOutlivesIo, BeforeIo, AfterIo
<1>2. QED
  BY <1>1, ServerInit, ServerStep, PTL DEF Spec

\* No io_thread_t and no pool is freed while a thread runs on it.
THEOREM FreedAfterJoinTheorem == Spec => []FreedAfterJoin
<1>1. ServerInv => FreedAfterJoin
  BY RunningIoThread DEF ServerInv, WorkersRunOnPool, FreedAfterJoin
<1>2. QED
  BY <1>1, ServerInit, ServerStep, PTL DEF Spec

\* However many threads had been started when server_create failed, and after every
\* normal stop, the threads, the pool, each io_thread_t and the server's descriptors
\* but the message pipes are given back.  Connections and messages, which nothing
\* releases at the end, can only be left by a server that has served.
THEOREM LeftAtEndTheorem == Spec => []LeftAtEnd
<1>1. ServerInv => LeftAtEnd
  <2> SUFFICES ASSUME ServerInv, mpc = "end"
               PROVE  /\ \A i \in Io : iopc[i] \in {"none", "exited"} /\ ioMem[i] # "live"
                      /\ \A w \in Workers : wpc[w] \in {"none", "exited"}
                      /\ ~poolLive
                      /\ fds \subseteq MessagePipes
                      /\ failed => \A i \in Io : clients[i] = 0 /\ msgs[i] = 0
    BY DEF LeftAtEnd
  <2>1. \A i \in Io : iopc[i] \in {"none", "exited"} /\ ioMem[i] # "live"
    BY RunningIoThread DEF ServerInv, TypeOK, IoPhase, AfterIo
  <2>2. ~poolLive /\ \A w \in Workers : wpc[w] \in {"none", "exited"}
    BY DEF ServerInv, TypeOK, PoolPhase, WorkersRunOnPool
  <2>3. ASSUME NEW f \in fds
        PROVE  f \in MessagePipes
    <3>1. f \notin ServerFds
      BY DEF ServerInv, FdPhase, ServerFds
    <3>2. PICK i \in Io : f \in IoFds(i)
      BY <3>1 DEF ServerInv, TypeOK, AllFds
    <3>3. QED
      BY <2>1, <3>2 DEF ServerInv, FdPhase, IoFds, MessagePipes
  <2>4. failed => \A i \in Io : clients[i] = 0 /\ msgs[i] = 0
    BY DEF ServerInv, Unserved
  <2>5. QED
    BY <2>1, <2>2, <2>3, <2>4
<1>2. QED
  BY <1>1, ServerInit, ServerStep, PTL DEF Spec

\* The main thread never goes to wait for an edge that will not come while clients
\* are in the backlog, unless accept has failed.
THEOREM BacklogTheorem == Spec => []BacklogNoticed
<1>1. ServerInv => BacklogNoticed
  BY DEF ServerInv, ListenPhase, BacklogNoticed
<1>2. QED
  BY <1>1, ServerInit, ServerStep, PTL DEF Spec
=============================================================================
