--------------------------- MODULE ServerLifecycle ---------------------------
(***************************************************************************)
(* Start and stop of the advanced reactor server: server_create with its   *)
(* error paths, server_start with its accept loop and the signal that ends *)
(* it, and server_destroy, run by the main thread while the workers and IO *)
(* threads it starts go about their work (server.c, thread_pool.c,         *)
(* io_thread.c).                                                           *)
(*                                                                         *)
(* What is followed is what each function acquires and releases: threads,  *)
(* the server's own descriptors, the two structures other threads point    *)
(* into (the worker pool and each io_thread_t), and for each IO thread how *)
(* many connections and unread messages it has.  A task is represented by  *)
(* the IO thread its connection belongs to.                                *)
(***************************************************************************)
EXTENDS Naturals, Sequences

CONSTANTS NumIo,       \* io_threads
          NumWorkers,  \* worker_threads
          MaxSize,     \* queue_size of the worker pool
          MaxMessages, \* bound of the model: unread messages per IO thread
          MaxArrivals, \* bound of the model: clients that connect
          MayFail      \* TRUE: allocations, pipes, pthread_create, accept and
                       \*   the listening socket may fail

ASSUME ServerAssumption ==
    /\ NumIo \in Nat \ {0} /\ NumWorkers \in Nat \ {0} /\ MaxSize \in Nat \ {0}
    /\ MaxMessages \in Nat \ {0} /\ MaxArrivals \in Nat /\ MayFail \in BOOLEAN

Io == 1 .. NumIo
Workers == 1 .. NumWorkers

\* The server's own descriptors: listen_fd and the main event loop, and per IO
\* thread its two pipes and its event loop.  Those of the clients are counted by
\* the variable clients.
ServerFds == {<<"listen", 0>>, <<"loop", 0>>}
IoFds(i) == {<<"pipe", i>>, <<"msg", i>>, <<"loop", i>>}
AllFds == ServerFds \cup UNION {IoFds(i) : i \in Io}
MessagePipes == {<<"msg", i>> : i \in Io}

VARIABLES mpc, k,       \* where the main thread is, its loop index
          failed,       \* server_create is on its way to return NULL
          serving,      \* server->running
          g_shutdown,   \* set by the signal handler
          backlog,      \* clients waiting on the listening socket
          listenEdge,   \* it has an event that was not reported yet
          arrivals,     \* clients that have connected so far
          acceptFailed, \* the last pass of accept_connections ended in an error
          nextThread,   \* io_pool->next_thread
          fds,          \* open descriptors
          poolLive,     \* the worker pool and its queue are allocated
          poolShutdown, \* pool->shutdown and queue->shutdown
          wpc, wfor,    \* worker -> where it is, the IO thread of its task
          iopc,         \* IO thread -> where it is
          ioFlag,       \* IO thread -> io_thread->shutdown
          ioMem,        \* IO thread -> its io_thread_t
          clients,      \* IO thread -> its connections: a descriptor and a
                        \*   connection_t each, from accept until it is closed
          queue,        \* the task queue: the IO thread each task came from
          msgs          \* IO thread -> messages in its list

mainVars == <<mpc, k, failed>>
listenVars == <<backlog, listenEdge, arrivals>>
serveVars == <<serving, g_shutdown, listenVars, acceptFailed, nextThread>>
poolVars == <<poolLive, poolShutdown>>
workerVars == <<wpc, wfor>>
ioVars == <<iopc, ioFlag, ioMem>>
loadVars == <<clients, queue, msgs>>
vars == <<mpc, k, failed, serving, g_shutdown, backlog, listenEdge, arrivals,
          acceptFailed, nextThread, fds, poolLive, poolShutdown, wpc, wfor, iopc, ioFlag,
          ioMem, clients, queue, msgs>>

TypeOK ==
    /\ mpc \in {"listen", "pool", "workers", "io", "loop", "add", "running", "wait",
                "accept", "ioStop", "ioJoin", "poolStop", "poolJoin", "closeListen", "end"}
    /\ k \in 1 .. (NumIo + NumWorkers + 1) /\ failed \in BOOLEAN
    /\ serving \in BOOLEAN /\ g_shutdown \in BOOLEAN /\ acceptFailed \in BOOLEAN
    /\ backlog \in 0 .. MaxArrivals /\ arrivals \in 0 .. MaxArrivals
    /\ listenEdge \in BOOLEAN /\ nextThread \in Io
    /\ fds \subseteq AllFds
    /\ poolLive \in BOOLEAN /\ poolShutdown \in BOOLEAN
    /\ wpc \in [Workers -> {"none", "pop", "work", "loop", "exited"}]
    /\ wfor \in [Workers -> Io \cup {0}]
    /\ iopc \in [Io -> {"none", "running", "handle", "submit", "exited"}]
    /\ ioFlag \in [Io -> BOOLEAN]
    /\ ioMem \in [Io -> {"none", "live", "freed"}]
    /\ clients \in [Io -> 0 .. MaxArrivals]
    /\ queue \in Seq(Io) /\ Len(queue) <= MaxSize
    /\ msgs \in [Io -> 0 .. MaxMessages]

-----------------------------------------------------------------------------
(***************************************************************************)
(* server_create                                                           *)
(***************************************************************************)
CreateListenSocket ==
    /\ mpc = "listen"
    /\ fds' = fds \cup {<<"listen", 0>>}
    /\ mpc' = "pool"
    /\ UNCHANGED <<serveVars, k, failed, poolVars, workerVars, ioVars, loadVars>>

CreatePool ==
    /\ mpc = "pool"
    /\ poolLive' = TRUE
    /\ mpc' = "workers" /\ k' = 1
    /\ UNCHANGED <<serveVars, failed, fds, poolShutdown, workerVars, ioVars, loadVars>>

\* A malloc of thread_pool_create fails; what it had allocated it frees.
CreatePoolFails ==
    /\ mpc = "pool" /\ MayFail
    /\ failed' = TRUE
    /\ mpc' = "closeListen"
    /\ UNCHANGED <<serveVars, k, fds, poolVars, workerVars, ioVars, loadVars>>

StartWorker ==
    /\ mpc = "workers"
    /\ wpc' = [wpc EXCEPT ![k] = "loop"]
    /\ IF k < NumWorkers THEN k' = k + 1 /\ mpc' = mpc ELSE k' = 1 /\ mpc' = "io"
    /\ UNCHANGED <<serveVars, failed, fds, poolVars, wfor, ioVars, loadVars>>

\* pthread_create fails: thread_count is cut to the threads that exist and the
\* pool is destroyed.
StartWorkerFails ==
    /\ mpc = "workers" /\ MayFail
    /\ failed' = TRUE
    /\ mpc' = "poolStop"
    /\ UNCHANGED <<serveVars, k, fds, poolVars, workerVars, ioVars, loadVars>>

\* io_thread_create
CreateIoThread ==
    /\ mpc = "io"
    /\ fds' = fds \cup IoFds(k)
    /\ iopc' = [iopc EXCEPT ![k] = "running"]
    /\ ioMem' = [ioMem EXCEPT ![k] = "live"]
    /\ IF k < NumIo THEN k' = k + 1 /\ mpc' = mpc ELSE k' = 1 /\ mpc' = "loop"
    /\ UNCHANGED <<serveVars, failed, poolVars, workerVars, ioFlag, loadVars>>

\* io_thread_create fails: it closes what it had opened, but for the message
\* pipe when event_loop_create or pthread_create was what failed.  The IO
\* threads created before are destroyed.
CreateIoThreadFails ==
    /\ mpc = "io" /\ MayFail
    /\ \E left \in {{}, {<<"msg", k>>}} : fds' = fds \cup left
    /\ failed' = TRUE
    /\ mpc' = "ioStop" /\ k' = 1
    /\ UNCHANGED <<serveVars, poolVars, workerVars, ioVars, loadVars>>

CreateMainLoop ==
    /\ mpc = "loop"
    /\ fds' = fds \cup {<<"loop", 0>>}
    /\ mpc' = "add"
    /\ UNCHANGED <<serveVars, k, failed, poolVars, workerVars, ioVars, loadVars>>

CreateMainLoopFails ==
    /\ mpc = "loop" /\ MayFail
    /\ failed' = TRUE
    /\ mpc' = "ioStop" /\ k' = 1
    /\ UNCHANGED <<serveVars, fds, poolVars, workerVars, ioVars, loadVars>>

AddListenMissesEarly ==
    /\ mpc = "add"
    /\ serving' = TRUE
    /\ mpc' = "running"
    /\ UNCHANGED <<k, failed, g_shutdown, listenVars, acceptFailed, nextThread, fds, poolVars,
                   workerVars, ioVars, loadVars>>

\* The listening socket is added to the main loop, which reports clients that
\* came before; server_start follows.
AddListen ==
    /\ mpc = "add"
    /\ listenEdge' = (backlog > 0)
    /\ serving' = TRUE
    /\ mpc' = "running"
    /\ UNCHANGED <<k, failed, g_shutdown, backlog, arrivals, acceptFailed, nextThread, fds,
                   poolVars, workerVars, ioVars, loadVars>>

AddListenFails ==
    /\ mpc = "add" /\ MayFail
    /\ fds' = fds \ {<<"loop", 0>>}
    /\ failed' = TRUE
    /\ mpc' = "ioStop" /\ k' = 1
    /\ UNCHANGED <<serveVars, poolVars, workerVars, ioVars, loadVars>>

-----------------------------------------------------------------------------
(***************************************************************************)
(* server_start and accept_connections.  Clients connect and the signal    *)
(* arrives when they like; what the main thread makes of it is decided at  *)
(* the top of its loop.  The listening socket is edge-triggered.           *)
(***************************************************************************)
Arrive ==
    /\ <<"listen", 0>> \in fds
    /\ arrivals < MaxArrivals
    /\ arrivals' = arrivals + 1
    /\ backlog' = backlog + 1
    /\ listenEdge' = (mpc \in {"running", "wait", "accept"})
    /\ UNCHANGED <<mainVars, serving, g_shutdown, acceptFailed, nextThread, fds, poolVars,
                   workerVars, ioVars, loadVars>>

\* signal_handler, installed by server_start.
Signal ==
    /\ mpc \in {"running", "wait", "accept"}
    /\ g_shutdown' = TRUE
    /\ UNCHANGED <<mainVars, serving, listenVars, acceptFailed, nextThread, fds, poolVars,
                   workerVars, ioVars, loadVars>>

\* The loop condition holds: on to event_loop_wait.
KeepServing ==
    /\ mpc = "running"
    /\ serving /\ ~g_shutdown
    /\ mpc' = "wait"
    /\ UNCHANGED <<serveVars, k, failed, fds, poolVars, workerVars, ioVars, loadVars>>

\* event_loop_wait returns the listening socket, or nothing after 1 ms.
ListenEvent ==
    /\ mpc = "wait"
    /\ mpc' = IF listenEdge THEN "accept" ELSE "running"
    /\ listenEdge' = FALSE
    /\ UNCHANGED <<k, failed, serving, g_shutdown, backlog, arrivals, acceptFailed, nextThread, fds,
                   poolVars, workerVars, ioVars, loadVars>>

\* event_loop_wait fails, or reports an error of the listening socket, alone or
\* together with clients, who are accepted before the loop ends.
ListenError ==
    /\ mpc = "wait" /\ MayFail
    /\ serving' = FALSE
    /\ \/ mpc' = "running" /\ UNCHANGED listenEdge
       \/ listenEdge /\ mpc' = "accept" /\ listenEdge' = FALSE
    /\ UNCHANGED <<k, failed, g_shutdown, backlog, arrivals, acceptFailed, nextThread, fds, poolVars,
                   workerVars, ioVars, loadVars>>

AcceptConnectionOnce ==
    /\ mpc = "accept"
    /\ backlog > 0
    /\ backlog' = backlog - 1
    /\ nextThread' = (nextThread % NumIo) + 1
    /\ clients' = [clients EXCEPT ![nextThread] = @ + 1]
    /\ mpc' = "running"
    /\ UNCHANGED <<k, failed, serving, g_shutdown, listenEdge, arrivals, acceptFailed, fds, poolVars,
                   workerVars, ioVars, queue, msgs>>

\* A client is accepted and handed to the next IO thread in turn; when that
\* fails the client is closed and the turn is used up.  Then accept is called
\* again.
AcceptConnection ==
    /\ mpc = "accept"
    /\ backlog > 0
    /\ backlog' = backlog - 1
    /\ nextThread' = (nextThread % NumIo) + 1
    /\ \/ clients' = [clients EXCEPT ![nextThread] = @ + 1]
       \/ MayFail /\ clients' = clients
    /\ UNCHANGED <<mainVars, serving, g_shutdown, listenEdge, arrivals, acceptFailed, fds, poolVars,
                   workerVars, ioVars, queue, msgs>>

\* EAGAIN: nobody is left.
AcceptAgain ==
    /\ mpc = "accept"
    /\ backlog = 0
    /\ acceptFailed' = FALSE
    /\ mpc' = "running"
    /\ UNCHANGED <<k, failed, serving, g_shutdown, listenVars, nextThread, fds, poolVars, workerVars,
                   ioVars, loadVars>>

\* Any other error but EINTR, with the client it is about still waiting (no
\* descriptor left) or gone (aborted).
AcceptFails ==
    /\ mpc = "accept" /\ MayFail
    /\ backlog > 0
    /\ backlog' \in {backlog, backlog - 1}
    /\ acceptFailed' = TRUE
    /\ mpc' = "running"
    /\ UNCHANGED <<k, failed, serving, g_shutdown, listenEdge, arrivals, nextThread, fds, poolVars,
                   workerVars, ioVars, loadVars>>

-----------------------------------------------------------------------------
(***************************************************************************)
(* server_destroy.  The helpers that stop the IO threads and the worker    *)
(* pool are the ones the error paths of server_create run through.         *)
(***************************************************************************)
\* Closing the listening socket turns away whoever is in its backlog.
DropBacklog == backlog' = 0 /\ listenEdge' = FALSE

StopPoolFirst ==
    /\ mpc = "running"
    /\ ~serving \/ g_shutdown
    /\ fds' = fds \ {<<"listen", 0>>, <<"loop", 0>>}
    /\ DropBacklog
    /\ poolShutdown' = TRUE
    /\ mpc' = "ioStop" /\ k' = 1
    /\ UNCHANGED <<serving, g_shutdown, arrivals, acceptFailed, nextThread, failed, poolLive,
                   workerVars, ioVars, loadVars>>

StopKeepsMainLoop ==
    /\ mpc = "running"
    /\ ~serving \/ g_shutdown
    /\ fds' = fds \ {<<"listen", 0>>}
    /\ DropBacklog
    /\ mpc' = "ioStop" /\ k' = 1
    /\ UNCHANGED <<serving, g_shutdown, arrivals, acceptFailed, nextThread, failed, poolVars,
                   workerVars, ioVars, loadVars>>

\* The signal, or an error of the main loop, ends server_start; server_destroy
\* closes listen_fd and destroys the main loop.
Stop ==
    /\ mpc = "running"
    /\ ~serving \/ g_shutdown
    /\ fds' = fds \ {<<"listen", 0>>, <<"loop", 0>>}
    /\ DropBacklog
    /\ mpc' = "ioStop" /\ k' = 1
    /\ UNCHANGED <<serving, g_shutdown, arrivals, acceptFailed, nextThread, failed, poolVars,
                   workerVars, ioVars, loadVars>>

StopIoThreadUntold ==
    /\ mpc = "ioStop"
    /\ mpc' = IF k <= NumIo /\ iopc[k] # "none" THEN "ioJoin" ELSE "poolStop"
    /\ UNCHANGED <<serveVars, k, failed, fds, poolVars, workerVars, ioVars, loadVars>>

\* io_thread_destroy, for each thread that was created: set the flag ...
StopIoThread ==
    /\ mpc = "ioStop"
    /\ IF k <= NumIo /\ iopc[k] # "none"
       THEN /\ ioFlag' = [ioFlag EXCEPT ![k] = TRUE]
            /\ mpc' = "ioJoin"
       ELSE mpc' = "poolStop" /\ UNCHANGED ioFlag
    /\ UNCHANGED <<serveVars, k, failed, fds, poolVars, workerVars, iopc, ioMem, loadVars>>

FreeIoThreadUnjoined ==
    /\ mpc = "ioJoin"
    /\ fds' = fds \ {<<"pipe", k>>, <<"loop", k>>}
    /\ ioMem' = [ioMem EXCEPT ![k] = "freed"]
    /\ mpc' = "ioStop" /\ k' = k + 1
    /\ UNCHANGED <<serveVars, failed, poolVars, workerVars, iopc, ioFlag, loadVars>>

\* ... join it, destroy its loop, close pipe_fd and free the structure.  The
\* message pipe, the connections (those in pipe_fd included) and the messages in
\* the list are left as they are.
FreeIoThread ==
    /\ mpc = "ioJoin"
    /\ iopc[k] = "exited"
    /\ fds' = fds \ {<<"pipe", k>>, <<"loop", k>>}
    /\ ioMem' = [ioMem EXCEPT ![k] = "freed"]
    /\ mpc' = "ioStop" /\ k' = k + 1
    /\ UNCHANGED <<serveVars, failed, poolVars, workerVars, iopc, ioFlag, loadVars>>

\* thread_pool_destroy: the flags and the broadcast ...
StopPool ==
    /\ mpc = "poolStop"
    /\ poolShutdown' = TRUE
    /\ mpc' = "poolJoin"
    /\ UNCHANGED <<serveVars, k, failed, fds, poolLive, workerVars, ioVars, loadVars>>

\* ... join the workers, destroy the queue with the tasks still in it.
FreePool ==
    /\ mpc = "poolJoin"
    /\ \A w \in Workers : wpc[w] \in {"none", "exited"}
    /\ poolLive' = FALSE
    /\ queue' = <<>>
    /\ mpc' = IF failed THEN "closeListen" ELSE "end"
    /\ UNCHANGED <<serveVars, k, failed, fds, poolShutdown, workerVars, ioVars, clients, msgs>>

CloseListenSocket ==
    /\ mpc = "closeListen"
    /\ fds' = fds \ {<<"listen", 0>>}
    /\ DropBacklog
    /\ mpc' = "end"
    /\ UNCHANGED <<k, failed, serving, g_shutdown, arrivals, acceptFailed, nextThread, poolVars,
                   workerVars, ioVars, loadVars>>

Ended == mpc = "end" /\ UNCHANGED vars

-----------------------------------------------------------------------------
(***************************************************************************)
(* The threads.  io_thread_run tests its flag, waits at most 1 ms and      *)
(* handles a batch: messages, clients that hang up, and requests, of which *)
(* handle_read goes on reading until there are no more.  Each becomes a    *)
(* task, and the thread waits while the queue is full.  The flag is not    *)
(* looked at again before the batch is done.                               *)
(***************************************************************************)
IoWait(i) ==
    /\ iopc[i] = "running"
    /\ ~ioFlag[i]
    /\ iopc' = [iopc EXCEPT ![i] = "handle"]
    /\ UNCHANGED <<serveVars, mainVars, fds, poolVars, workerVars, ioFlag, ioMem, loadVars>>

\* handle_read finds a request: only a client that has sent one makes it happen.
IoRead(i) ==
    /\ iopc[i] = "handle"
    /\ clients[i] > 0
    /\ iopc' = [iopc EXCEPT ![i] = "submit"]
    /\ UNCHANGED <<serveVars, mainVars, fds, poolVars, workerVars, ioFlag, ioMem, loadVars>>

IoPushUnbounded(i) ==
    /\ iopc[i] = "submit"
    /\ queue' = Append(queue, i)
    /\ iopc' = [iopc EXCEPT ![i] = "handle"]
    /\ UNCHANGED <<serveVars, mainVars, fds, poolVars, workerVars, ioFlag, ioMem, clients, msgs>>

IoPush(i) ==
    /\ iopc[i] = "submit"
    /\ Len(queue) < MaxSize \/ poolShutdown
    /\ queue' = IF poolShutdown THEN queue ELSE Append(queue, i)
    /\ iopc' = [iopc EXCEPT ![i] = "handle"]
    /\ UNCHANGED <<serveVars, mainVars, fds, poolVars, workerVars, ioFlag, ioMem, clients, msgs>>

IoMessages(i) ==
    /\ iopc[i] = "handle"
    /\ msgs[i] > 0
    /\ msgs' = [msgs EXCEPT ![i] = 0]
    /\ UNCHANGED <<serveVars, mainVars, fds, poolVars, workerVars, ioVars, clients, queue>>

\* A client hangs up, or reading or writing fails: the connection is closed.
IoClose(i) ==
    /\ iopc[i] = "handle"
    /\ clients[i] > 0
    /\ clients' = [clients EXCEPT ![i] = @ - 1]
    /\ UNCHANGED <<serveVars, mainVars, fds, poolVars, workerVars, ioVars, queue, msgs>>

\* The last handler of the batch has met EAGAIN: back to the test of the flag.
IoBatchDone(i) ==
    /\ iopc[i] = "handle"
    /\ iopc' = [iopc EXCEPT ![i] = "running"]
    /\ UNCHANGED <<serveVars, mainVars, fds, poolVars, workerVars, ioFlag, ioMem, loadVars>>

IoExit(i) ==
    /\ iopc[i] = "running"
    /\ ioFlag[i]
    /\ iopc' = [iopc EXCEPT ![i] = "exited"]
    /\ UNCHANGED <<serveVars, mainVars, fds, poolVars, workerVars, ioFlag, ioMem, loadVars>>

WorkerLoop(w) ==
    /\ wpc[w] = "loop"
    /\ wpc' = [wpc EXCEPT ![w] = IF poolShutdown THEN "exited" ELSE "pop"]
    /\ UNCHANGED <<serveVars, mainVars, fds, poolVars, wfor, ioVars, loadVars>>

\* task_queue_pop: a worker inside it takes a task even after the shutdown.
WorkerPop(w) ==
    /\ wpc[w] = "pop"
    /\ queue # <<>>
    /\ queue' = Tail(queue)
    /\ wfor' = [wfor EXCEPT ![w] = Head(queue)]
    /\ wpc' = [wpc EXCEPT ![w] = "work"]
    /\ UNCHANGED <<serveVars, mainVars, fds, poolVars, ioVars, clients, msgs>>

WorkerPopNull(w) ==
    /\ wpc[w] = "pop"
    /\ queue = <<>> /\ poolShutdown
    /\ wpc' = [wpc EXCEPT ![w] = "loop"]
    /\ UNCHANGED <<serveVars, mainVars, fds, poolVars, wfor, ioVars, loadVars>>

\* process_request ends in io_thread_send_message when the connection is still
\* valid.  A write into a structure that was freed has no effect that is followed.
WorkerWork(w) ==
    /\ wpc[w] = "work"
    /\ \/ UNCHANGED msgs
       \/ /\ ioMem[wfor[w]] = "live"
          /\ msgs[wfor[w]] < MaxMessages
          /\ msgs' = [msgs EXCEPT ![wfor[w]] = @ + 1]
    /\ wpc' = [wpc EXCEPT ![w] = "loop"]
    /\ wfor' = [wfor EXCEPT ![w] = 0]
    /\ UNCHANGED <<serveVars, mainVars, fds, poolVars, ioVars, clients, queue>>

-----------------------------------------------------------------------------
Init ==
    /\ mpc = "listen" /\ k = 1 /\ failed = FALSE
    /\ serving = FALSE /\ g_shutdown = FALSE /\ acceptFailed = FALSE
    /\ backlog = 0 /\ listenEdge = FALSE /\ arrivals = 0 /\ nextThread = 1
    /\ fds = {}
    /\ poolLive = FALSE /\ poolShutdown = FALSE
    /\ wpc = [w \in Workers |-> "none"] /\ wfor = [w \in Workers |-> 0]
    /\ iopc = [i \in Io |-> "none"] /\ ioFlag = [i \in Io |-> FALSE]
    /\ ioMem = [i \in Io |-> "none"]
    /\ clients = [i \in Io |-> 0] /\ queue = <<>> /\ msgs = [i \in Io |-> 0]

CreateStep == \/ CreateListenSocket \/ CreatePool \/ CreatePoolFails
              \/ StartWorker \/ StartWorkerFails \/ CreateIoThread \/ CreateIoThreadFails
              \/ CreateMainLoop \/ CreateMainLoopFails \/ AddListen \/ AddListenFails

ServeStep == \/ KeepServing \/ ListenEvent \/ ListenError
             \/ AcceptConnection \/ AcceptAgain \/ AcceptFails \/ Stop

DestroyStep == \/ StopIoThread \/ FreeIoThread \/ StopPool \/ FreePool \/ CloseListenSocket

\* What an IO thread does by itself, and what its clients make it do.
IoStep(i) == IoWait(i) \/ IoPush(i) \/ IoMessages(i) \/ IoBatchDone(i) \/ IoExit(i)
ClientStep(i) == IoRead(i) \/ IoClose(i)

WorkerStep(w) == WorkerLoop(w) \/ WorkerPop(w) \/ WorkerPopNull(w) \/ WorkerWork(w)

Next == \/ CreateStep \/ Arrive \/ Signal \/ ServeStep \/ DestroyStep \/ Ended
        \/ \E i \in Io : IoStep(i) \/ ClientStep(i)
        \/ \E w \in Workers : WorkerStep(w)

\* Threads run when they can.  Nothing obliges a client to send or to hang up.
Fairness == /\ WF_vars(CreateStep) /\ WF_vars(ServeStep) /\ WF_vars(DestroyStep)
            /\ \A i \in Io : WF_vars(IoStep(i))
            /\ \A w \in Workers : WF_vars(WorkerStep(w))

Spec == Init /\ [][Next]_vars /\ Fairness

-----------------------------------------------------------------------------
\* The pool outlives its users: as long as an IO thread runs, also one that waits
\* in thread_pool_submit, the pool exists and accepts tasks, on every path
\* through server_create and server_destroy.
PoolOutlivesIo ==
    \A i \in Io : iopc[i] \in {"running", "handle", "submit"} => poolLive /\ ~poolShutdown

\* Nothing a thread runs on is freed under it: an io_thread_t is freed after its
\* thread has returned, the pool after the last worker has.
FreedAfterJoin ==
    /\ \A i \in Io : iopc[i] \in {"running", "handle", "submit"} => ioMem[i] = "live"
    /\ \A w \in Workers : wpc[w] \in {"pop", "work", "loop"} => poolLive

\* What the end leaves.  However far server_create came before it failed, and after
\* a normal stop, no thread runs, the pool and every io_thread_t are freed, and of
\* the server's own descriptors only message pipes are open.  A server that never
\* started leaves nothing else; one that has served leaves the connections whose
\* clients had not hung up, descriptor and memory, and the messages nobody read:
\* neither io_thread_destroy nor server_destroy releases them.
LeftAtEnd ==
    mpc = "end" => /\ \A i \in Io : iopc[i] \in {"none", "exited"} /\ ioMem[i] # "live"
                   /\ \A w \in Workers : wpc[w] \in {"none", "exited"}
                   /\ ~poolLive
                   /\ fds \subseteq MessagePipes
                   /\ failed => \A i \in Io : clients[i] = 0 /\ msgs[i] = 0

\* No client is forgotten in the backlog of the edge-triggered listening socket:
\* whenever the main thread waits with clients there, an event is due, unless the
\* last pass of accept_connections was broken off by an error.
BacklogNoticed == mpc = "wait" /\ backlog > 0 => listenEdge \/ acceptFailed

\* The clients in the backlog are all accepted, those included that came before
\* the socket was added to the main loop, unless accept fails or the server stops.
BacklogServed ==
    (mpc = "running" /\ backlog > 0) ~> (backlog = 0 \/ acceptFailed \/ g_shutdown \/ ~serving)

\* What the code needs of others to stop: handle_read, which does not look at the
\* flag, comes to EAGAIN, that is, no client keeps one of them reading for ever ...
ClientsPause == \A i \in Io : []<><<IoRead(i)>>_vars => []<><<IoBatchDone(i)>>_vars
\* ... and a thread waiting in task_queue_push does not lose every race for room.
PushersServed == \A i \in Io : SF_vars(IoPush(i))

\* A server that is told to stop, loses its listening socket or fails to start
\* comes to its end, wherever the main thread is when it happens, although IO
\* threads may be in the middle of a batch or waiting for room in the task queue,
\* and although clients go on sending, as long as they pause.
TeardownEnds ==
    ClientsPause /\ PushersServed =>
        ((failed \/ g_shutdown \/ (mpc = "running" /\ ~serving)) ~> (mpc = "end"))

\* What README.md promises of the shutdown, a graceful cleanup: a worker never
\* answers to an io_thread_t that was freed.
WorkerFindsIoThread == \A w \in Workers : wpc[w] = "work" => ioMem[wfor[w]] = "live"
=============================================================================
