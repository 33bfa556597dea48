------------------------ MODULE ConnectionLifecycle ------------------------
(***************************************************************************)
(* The life of a connection_t in the advanced reactor server, from accept  *)
(* in the main thread to the last conn_release, with the three kinds of    *)
(* thread that hold pointers to it: the main thread (server.c), ONE IO     *)
(* thread (io_thread.c, connection.c) and the workers (thread_pool.c).     *)
(*                                                                         *)
(* Memory is reference counted.  The reference conn_create makes belongs   *)
(* to the IO thread; every task and every message has one of its own.      *)
(* Descriptors are the kernel's: a closed one is handed out again by the   *)
(* next accept, which may fall between any two steps of the IO thread.     *)
(*                                                                         *)
(* The two queues are bags here, one count per connection: their order,    *)
(* bounds, locks and wake-ups are the subject of WorkerPool and            *)
(* MessageChannel.  The event loop is the epoll backend.                   *)
(***************************************************************************)
EXTENDS Integers, Sequences, FiniteSets

CONSTANTS Conns,        \* blocks conn_create may allocate, each once, numbered
                        \*   in the order of their allocation
          Fds,          \* descriptors the kernel may hand out
          NoFd,         \* -1
          NoConn,       \* NULL
          Workers,      \* worker threads
          InboxCap,     \* pointers the pipe pipe_fd holds
          MaxReads,     \* bound of the model: requests read from the connections
          MallocFails,  \* TRUE: malloc (and epoll_ctl ADD) may fail
          FreedReads    \* what conn_is_valid may return for a freed block

ASSUME LifecycleAssumption ==
    /\ Fds \subseteq Nat /\ NoFd \notin Fds
    /\ Conns \subseteq Nat /\ NoConn \notin Conns
    /\ IsFiniteSet(Workers)
    /\ InboxCap \in Nat \ {0} /\ MaxReads \in Nat
    /\ MallocFails \in BOOLEAN
    /\ FreedReads \subseteq BOOLEAN

VARIABLES
    \* connection_t
    mem,        \* conn -> "none", "live", "freed"
    ref,        \* conn -> ref_count
    closing,    \* conn -> closing
    fd,         \* conn -> fd
    \* kernel
    open,       \* open client descriptors
    reg,        \* the IO thread's epoll set: descriptor -> [conn, want]
    inbox,      \* pointers in pipe_fd
    inboxEdge,  \* an event for pipe_fd[0] has not been reported yet
    \* the two queues
    tasks,      \* conn -> its tasks in the worker pool's queue
    msgs,       \* conn -> its messages in the IO thread's list
    \* workers
    wpc, wconn, \* worker -> where it is, the connection of its task
    \* IO thread
    iopc, iocur, iofd, iomask, \* where it is; conn, conn_fd, ev->events left
    batch,      \* conn -> events returned by event_loop_wait, not yet handled
    pipes,      \* the pipes among those events: "inbox", "msgs"
    \* main thread
    mpc, mfd,   \* where accept_connections is, client_fd
    \* history
    reads,      \* requests read so far
    lost        \* conn -> references nobody will ever release

connVars == <<mem, ref, closing, fd>>
kernelVars == <<open, reg>>
inboxVars == <<inbox, inboxEdge>>
workerVars == <<wpc, wconn>>
ioVars == <<iopc, iocur, iofd, iomask, batch, pipes>>
mainVars == <<mpc, mfd>>
countVars == <<reads, lost>>
vars == <<mem, ref, closing, fd, open, reg, inbox, inboxEdge, tasks, msgs,
          wpc, wconn, iopc, iocur, iofd, iomask, batch, pipes, mpc, mfd,
          reads, lost>>

Bits == {"read", "write", "err"}
NoReg == [conn |-> NoConn, want |-> "read"]

TypeOK ==
    /\ mem \in [Conns -> {"none", "live", "freed"}]
    /\ ref \in [Conns -> Int]
    /\ closing \in [Conns -> BOOLEAN]
    /\ fd \in [Conns -> Fds \cup {NoFd}]
    /\ open \subseteq Fds
    /\ reg \in [Fds -> [conn : Conns \cup {NoConn}, want : {"read", "write"}]]
    /\ inbox \in Seq(Conns) /\ inboxEdge \in BOOLEAN
    /\ tasks \in [Conns -> Nat] /\ msgs \in [Conns -> Nat]
    /\ wpc \in [Workers -> {"idle", "check", "process", "send", "destroy"}]
    /\ wconn \in [Workers -> Conns \cup {NoConn}]
    /\ iopc \in {"wait", "dispatch", "handle", "mark", "del", "release", "check",
                 "message"}
    /\ iocur \in Conns \cup {NoConn} /\ iofd \in Fds \cup {NoFd}
    /\ iomask \subseteq Bits
    /\ batch \in [Conns -> SUBSET Bits] /\ pipes \subseteq {"inbox", "msgs"}
    /\ mpc \in {"accept", "add", "close"} /\ mfd \in Fds \cup {NoFd}
    /\ reads \in Nat /\ lost \in [Conns -> Nat]

InInbox(c) == \E i \in 1 .. Len(inbox) : inbox[i] = c
Registered(c) == \E f \in Fds : reg[f].conn = c

-----------------------------------------------------------------------------
(***************************************************************************)
(* connection.c                                                            *)
(***************************************************************************)
\* close(2): the descriptor may be handed out again, and the kernel drops its
\* epoll registration.
Close(f) ==
    /\ open' = open \ {f}
    /\ reg' = IF f \in Fds THEN [reg EXCEPT ![f] = NoReg] ELSE reg

\* conn_is_valid may be called on a freed block: then it returns what is there.
IsValid(c) == IF mem[c] = "live" THEN {~closing[c]} ELSE FreedReads

ReleaseTooEarly(c) ==
    /\ ref' = [ref EXCEPT ![c] = @ - 1]
    /\ IF ref[c] - 1 <= 1
       THEN /\ mem' = [mem EXCEPT ![c] = "freed"]
            /\ fd' = [fd EXCEPT ![c] = NoFd]
            /\ Close(fd[c])
       ELSE UNCHANGED <<mem, fd, open, reg>>
    /\ UNCHANGED closing

\* conn_release.  Once the count is down to zero nobody else has the pointer,
\* so the free is part of the same step.
Release(c) ==
    /\ ref' = [ref EXCEPT ![c] = @ - 1]
    /\ IF ref[c] - 1 <= 0
       THEN /\ mem' = [mem EXCEPT ![c] = "freed"]
            /\ fd' = [fd EXCEPT ![c] = NoFd]
            /\ Close(fd[c])
       ELSE UNCHANGED <<mem, fd, open, reg>>
    /\ UNCHANGED closing

-----------------------------------------------------------------------------
(***************************************************************************)
(* The main thread: accept_connections and io_thread_add_connection.       *)
(***************************************************************************)
\* The kernel hands out the lowest descriptor that is free.
Accept(f) ==
    /\ mpc = "accept"
    /\ f \notin open /\ \A g \in Fds \ open : f <= g
    /\ open' = open \cup {f}
    /\ mfd' = f
    /\ mpc' = "add"
    /\ UNCHANGED <<connVars, reg, inboxVars, tasks, msgs, workerVars, ioVars, countVars>>

AddConnectionRegisters(c) ==
    /\ mpc = "add"
    /\ mem[c] = "none" /\ \A b \in Conns : mem[b] = "none" => c <= b
    /\ mem' = [mem EXCEPT ![c] = "live"]
    /\ ref' = [ref EXCEPT ![c] = 1]
    /\ fd' = [fd EXCEPT ![c] = mfd]
    /\ reg' = [reg EXCEPT ![mfd] = [conn |-> c, want |-> "read"]]
    /\ mpc' = "accept" /\ mfd' = NoFd
    /\ UNCHANGED <<closing, open, inboxVars, tasks, msgs, workerVars, ioVars, countVars>>

\* conn_create, then the pointer is written to the pipe.
AddConnection(c) ==
    /\ mpc = "add"
    /\ mem[c] = "none" /\ \A b \in Conns : mem[b] = "none" => c <= b
    /\ Len(inbox) < InboxCap
    /\ mem' = [mem EXCEPT ![c] = "live"]
    /\ ref' = [ref EXCEPT ![c] = 1]
    /\ fd' = [fd EXCEPT ![c] = mfd]
    /\ inbox' = Append(inbox, c)
    /\ inboxEdge' = TRUE
    /\ mpc' = "accept" /\ mfd' = NoFd
    /\ UNCHANGED <<closing, kernelVars, tasks, msgs, workerVars, ioVars, countVars>>

\* The pipe is full: conn_release closes client_fd and frees the block at once.
AddRefused ==
    /\ mpc = "add"
    /\ Len(inbox) >= InboxCap
    /\ Close(mfd)
    /\ mpc' = "close"
    /\ UNCHANGED <<connVars, inboxVars, tasks, msgs, workerVars, ioVars, mfd, countVars>>

\* conn_create returns NULL.
CreateFails ==
    /\ mpc = "add"
    /\ MallocFails
    /\ mpc' = "close"
    /\ UNCHANGED <<connVars, kernelVars, inboxVars, tasks, msgs, workerVars, ioVars, mfd, countVars>>

\* close(client_fd) in the error branch of accept_connections: after AddRefused
\* it closes the same number a second time.
CloseClient ==
    /\ mpc = "close"
    /\ Close(mfd)
    /\ mpc' = "accept" /\ mfd' = NoFd
    /\ UNCHANGED <<connVars, inboxVars, tasks, msgs, workerVars, ioVars, countVars>>

-----------------------------------------------------------------------------
(***************************************************************************)
(* A worker: worker_thread, process_request, io_thread_send_message.       *)
(***************************************************************************)
WorkerTakeUnchecked(w, c) ==
    /\ wpc[w] = "idle"
    /\ mem[c] = "live"
    /\ tasks' = [tasks EXCEPT ![c] = @ - 1]
    /\ wpc' = [wpc EXCEPT ![w] = "check"]
    /\ wconn' = [wconn EXCEPT ![w] = c]
    /\ UNCHANGED <<connVars, kernelVars, inboxVars, msgs, ioVars, mainVars, countVars>>

WorkerTake(w, c) ==
    /\ wpc[w] = "idle"
    /\ tasks[c] > 0
    /\ tasks' = [tasks EXCEPT ![c] = @ - 1]
    /\ wpc' = [wpc EXCEPT ![w] = "check"]
    /\ wconn' = [wconn EXCEPT ![w] = c]
    /\ UNCHANGED <<connVars, kernelVars, inboxVars, msgs, ioVars, mainVars, countVars>>

\* The first conn_is_valid, in worker_thread ("check"), and the second, at the
\* end of process_request ("process").
WorkerCheck(w) ==
    /\ wpc[w] \in {"check", "process"}
    /\ \E valid \in IsValid(wconn[w]) :
          wpc' = [wpc EXCEPT ![w] = IF ~valid THEN "destroy"
                                    ELSE IF @ = "check" THEN "process" ELSE "send"]
    /\ UNCHANGED <<connVars, kernelVars, inboxVars, tasks, msgs, wconn, ioVars, mainVars, countVars>>

WorkerSendUnreferenced(w) ==
    /\ wpc[w] = "send"
    /\ msgs' = [msgs EXCEPT ![wconn[w]] = @ + 1]
    /\ wpc' = [wpc EXCEPT ![w] = "destroy"]
    /\ UNCHANGED <<connVars, kernelVars, inboxVars, tasks, wconn, ioVars, mainVars, countVars>>

WorkerSend(w) ==
    /\ wpc[w] = "send"
    /\ ref' = [ref EXCEPT ![wconn[w]] = @ + 1]
    /\ msgs' = [msgs EXCEPT ![wconn[w]] = @ + 1]
    /\ wpc' = [wpc EXCEPT ![w] = "destroy"]
    /\ UNCHANGED <<mem, closing, fd, kernelVars, inboxVars, tasks, wconn, ioVars, mainVars, countVars>>

\* io_thread_send_message returns without a message.
WorkerSendFails(w) ==
    /\ wpc[w] = "send"
    /\ MallocFails
    /\ wpc' = [wpc EXCEPT ![w] = "destroy"]
    /\ UNCHANGED <<connVars, kernelVars, inboxVars, tasks, msgs, wconn, ioVars, mainVars, countVars>>

WorkerDestroyUnreleased(w) ==
    /\ wpc[w] = "destroy"
    /\ wpc' = [wpc EXCEPT ![w] = "idle"]
    /\ wconn' = [wconn EXCEPT ![w] = NoConn]
    /\ UNCHANGED <<connVars, kernelVars, inboxVars, tasks, msgs, ioVars, mainVars, countVars>>

\* task_destroy
WorkerDestroy(w) ==
    /\ wpc[w] = "destroy"
    /\ Release(wconn[w])
    /\ wpc' = [wpc EXCEPT ![w] = "idle"]
    /\ wconn' = [wconn EXCEPT ![w] = NoConn]
    /\ UNCHANGED <<inboxVars, tasks, msgs, ioVars, mainVars, countVars>>

-----------------------------------------------------------------------------
(***************************************************************************)
(* The IO thread: event_loop_wait and the dispatch of one batch.  What the *)
(* peers do is arbitrary, so any registered connection may be ready for    *)
(* what it is registered for, for an error or hang-up, or for both; the    *)
(* pipes are reported when they have something to report.  Events of one   *)
(* batch may be handled in any order.                                      *)
(***************************************************************************)
Ready(c) == {m \in SUBSET Bits : \E f \in Fds : /\ reg[f].conn = c
                                                /\ m \subseteq {reg[f].want, "err"}}

EventLoopWait ==
    /\ iopc = "wait"
    /\ batch' \in [Conns -> SUBSET Bits]
    /\ \A c \in Conns : batch'[c] \in Ready(c) \cup {{}}
    /\ pipes' = (IF inboxEdge THEN {"inbox"} ELSE {})
                   \cup (IF \E c \in Conns : msgs[c] > 0 THEN {"msgs"} ELSE {})
    /\ pipes' # {} \/ \E c \in Conns : batch'[c] # {}
    /\ inboxEdge' = FALSE
    /\ iopc' = "dispatch"
    /\ UNCHANGED <<connVars, kernelVars, inbox, tasks, msgs, workerVars, iocur, iofd, iomask,
                   mainVars, countVars>>

BatchDone ==
    /\ iopc = "dispatch"
    /\ pipes = {} /\ \A c \in Conns : batch[c] = {}
    /\ iopc' = "wait"
    /\ UNCHANGED <<connVars, kernelVars, inboxVars, tasks, msgs, workerVars, iocur, iofd, iomask,
                   batch, pipes, mainVars, countVars>>

\* The pipe of new connections: ONE pointer is read per event.
InboxAdd ==
    /\ iopc = "dispatch" /\ "inbox" \in pipes /\ inbox # <<>>
    /\ reg' = [reg EXCEPT ![fd[Head(inbox)]] = [conn |-> Head(inbox), want |-> "read"]]
    /\ inbox' = Tail(inbox)
    /\ pipes' = pipes \ {"inbox"}
    /\ UNCHANGED <<connVars, open, inboxEdge, tasks, msgs, workerVars, iopc, iocur, iofd, iomask,
                   batch, mainVars, countVars>>

InboxAddForgets ==
    /\ iopc = "dispatch" /\ "inbox" \in pipes /\ inbox # <<>>
    /\ MallocFails
    /\ inbox' = Tail(inbox)
    /\ pipes' = pipes \ {"inbox"}
    /\ UNCHANGED <<connVars, kernelVars, inboxEdge, tasks, msgs, workerVars, iopc, iocur, iofd, iomask,
                   batch, mainVars, countVars>>

\* event_loop_add fails: the connection is released.
InboxAddFails ==
    /\ iopc = "dispatch" /\ "inbox" \in pipes /\ inbox # <<>>
    /\ MallocFails
    /\ Release(Head(inbox))
    /\ inbox' = Tail(inbox)
    /\ pipes' = pipes \ {"inbox"}
    /\ UNCHANGED <<inboxEdge, tasks, msgs, workerVars, iopc, iocur, iofd, iomask,
                   batch, mainVars, countVars>>

\* event_loop_mod: fails on descriptor -1 and on one that is not registered.
Modify(c, want) ==
    reg' = IF fd[c] \in Fds /\ reg[fd[c]].conn # NoConn
           THEN [reg EXCEPT ![fd[c]] = [conn |-> c, want |-> want]]
           ELSE reg

\* One turn of the message loop: the message is taken off the list and, when its
\* connection is still valid, that connection is switched to writing; ...
MessageTake(c) ==
    /\ iopc = "dispatch" /\ "msgs" \in pipes
    /\ msgs[c] > 0
    /\ msgs' = [msgs EXCEPT ![c] = @ - 1]
    /\ \E valid \in IsValid(c) : IF valid THEN Modify(c, "write") ELSE reg' = reg
    /\ iocur' = c
    /\ iopc' = "message"
    /\ UNCHANGED <<connVars, open, inboxVars, tasks, workerVars, iofd, iomask, batch, pipes,
                   mainVars, countVars>>

\* ... then its reference is released.
MessageRelease ==
    /\ iopc = "message"
    /\ Release(iocur)
    /\ iopc' = "dispatch" /\ iocur' = NoConn
    /\ UNCHANGED <<inboxVars, tasks, msgs, workerVars, iofd, iomask, batch, pipes,
                   mainVars, countVars>>

MessagesDone ==
    /\ iopc = "dispatch" /\ "msgs" \in pipes
    /\ \A c \in Conns : msgs[c] = 0
    /\ pipes' = pipes \ {"msgs"}
    /\ UNCHANGED <<connVars, kernelVars, inboxVars, tasks, msgs, workerVars, iopc, iocur, iofd,
                   iomask, batch, mainVars, countVars>>

\* An event of a connection: dropped when the connection is closing.
ConnectionEvent(c) ==
    /\ iopc = "dispatch"
    /\ batch[c] # {}
    /\ batch' = [batch EXCEPT ![c] = {}]
    /\ \E valid \in IsValid(c) :
          IF valid THEN /\ iopc' = "handle" /\ iocur' = c /\ iomask' = batch[c] /\ iofd' = fd[c]
                   ELSE UNCHANGED <<iopc, iocur, iomask, iofd>>
    /\ UNCHANGED <<connVars, kernelVars, inboxVars, tasks, msgs, workerVars, pipes, mainVars, countVars>>

-----------------------------------------------------------------------------
(***************************************************************************)
(* handle_read, handle_write and the error branch.  The bits of ev->events *)
(* are looked at in this order; Bit is the one being handled.              *)
(***************************************************************************)
Bit == IF "read" \in iomask THEN "read" ELSE IF "write" \in iomask THEN "write" ELSE "err"

Handling(bit) == iopc = "handle" /\ iomask # {} /\ Bit = bit

\* The handler returns to io_thread_run, which looks at the connection again.
HandlerReturns == iopc' = "check" /\ iomask' = iomask \ {Bit} /\ UNCHANGED <<iocur, iofd>>

\* The event is done with; its local variables go out of scope.
NextEvent == iopc' = "dispatch" /\ iocur' = NoConn /\ iofd' = NoFd /\ iomask' = {}

\* A request was read: task_create takes a reference and the task is queued.
ReadRequest ==
    /\ Handling("read")
    /\ reads < MaxReads
    /\ reads' = reads + 1
    /\ ref' = [ref EXCEPT ![iocur] = @ + 1]
    /\ tasks' = [tasks EXCEPT ![iocur] = @ + 1]
    /\ UNCHANGED <<mem, closing, fd, kernelVars, inboxVars, msgs, workerVars, ioVars, mainVars, lost>>

\* task_create fails, on its first malloc or, with the reference taken, on its
\* second.
ReadRequestFails ==
    /\ Handling("read")
    /\ MallocFails
    /\ reads < MaxReads
    /\ reads' = reads + 1
    /\ \/ UNCHANGED <<ref, lost>>
       \/ /\ ref' = [ref EXCEPT ![iocur] = @ + 1]
          /\ lost' = [lost EXCEPT ![iocur] = @ + 1]
    /\ UNCHANGED <<mem, closing, fd, kernelVars, inboxVars, tasks, msgs, workerVars, ioVars, mainVars>>

\* read returns EAGAIN.
ReadAgain ==
    /\ Handling("read")
    /\ HandlerReturns
    /\ UNCHANGED <<connVars, kernelVars, inboxVars, tasks, msgs, workerVars, batch,
                   pipes, mainVars, countVars>>

\* The response is out, or there was none: back to reading.
WriteDone ==
    /\ Handling("write")
    /\ Modify(iocur, "read")
    /\ HandlerReturns
    /\ UNCHANGED <<connVars, open, inboxVars, tasks, msgs, workerVars, batch,
                   pipes, mainVars, countVars>>

\* write returns EAGAIN.
WriteAgain ==
    /\ Handling("write")
    /\ HandlerReturns
    /\ UNCHANGED <<connVars, kernelVars, inboxVars, tasks, msgs, workerVars, batch,
                   pipes, mainVars, countVars>>

\* End of file or an error in handle_read, an error in handle_write, or the
\* EVENT_ERROR | EVENT_HUP branch: the three calls that close a connection.
StartClose ==
    /\ iopc = "handle" /\ iomask # {}
    /\ iopc' = "mark"
    /\ iofd' = IF Bit = "err" THEN iofd ELSE fd[iocur]
    /\ UNCHANGED <<connVars, kernelVars, inboxVars, tasks, msgs, workerVars, iocur, iomask, batch,
                   pipes, mainVars, countVars>>

MarkClosingKeepsFd ==
    /\ iopc = "mark"
    /\ Close(fd[iocur])
    /\ closing' = [closing EXCEPT ![iocur] = TRUE]
    /\ iopc' = "del"
    /\ UNCHANGED <<mem, ref, fd, inboxVars, tasks, msgs, workerVars, iocur, iofd, iomask, batch,
                   pipes, mainVars, countVars>>

\* conn_mark_closing
MarkClosing ==
    /\ iopc = "mark"
    /\ IF closing[iocur]
       THEN UNCHANGED <<closing, fd, kernelVars>>
       ELSE /\ closing' = [closing EXCEPT ![iocur] = TRUE]
            /\ Close(fd[iocur])
            /\ fd' = [fd EXCEPT ![iocur] = NoFd]
    /\ iopc' = "del"
    /\ UNCHANGED <<mem, ref, inboxVars, tasks, msgs, workerVars, iocur, iofd, iomask, batch,
                   pipes, mainVars, countVars>>

\* event_loop_del(conn_fd), after the descriptor was closed.
DeleteEvent ==
    /\ iopc = "del"
    /\ reg' = [reg EXCEPT ![iofd] = NoReg]
    /\ iopc' = "release"
    /\ UNCHANGED <<connVars, open, inboxVars, tasks, msgs, workerVars, iocur, iofd, iomask, batch,
                   pipes, mainVars, countVars>>

\* The IO thread's own reference.
ReleaseBase ==
    /\ iopc = "release"
    /\ Release(iocur)
    /\ IF Bit = "err" THEN NextEvent ELSE HandlerReturns
    /\ UNCHANGED <<inboxVars, tasks, msgs, workerVars, batch, pipes, mainVars, countVars>>

\* conn_is_valid after handle_read and after handle_write.
CheckAfterHandler ==
    /\ iopc = "check"
    /\ \E valid \in IsValid(iocur) :
          IF valid /\ iomask # {} THEN iopc' = "handle" /\ UNCHANGED <<iocur, iofd, iomask>>
                                  ELSE NextEvent
    /\ UNCHANGED <<connVars, kernelVars, inboxVars, tasks, msgs, workerVars, batch,
                   pipes, mainVars, countVars>>

-----------------------------------------------------------------------------
Init ==
    /\ mem = [c \in Conns |-> "none"] /\ ref = [c \in Conns |-> 0]
    /\ closing = [c \in Conns |-> FALSE] /\ fd = [c \in Conns |-> NoFd]
    /\ open = {} /\ reg = [f \in Fds |-> NoReg]
    /\ inbox = <<>> /\ inboxEdge = FALSE
    /\ tasks = [c \in Conns |-> 0] /\ msgs = [c \in Conns |-> 0]
    /\ wpc = [w \in Workers |-> "idle"] /\ wconn = [w \in Workers |-> NoConn]
    /\ iopc = "wait" /\ iocur = NoConn /\ iofd = NoFd /\ iomask = {}
    /\ batch = [c \in Conns |-> {}] /\ pipes = {}
    /\ mpc = "accept" /\ mfd = NoFd
    /\ reads = 0 /\ lost = [c \in Conns |-> 0]

MainStep == \/ \E f \in Fds : Accept(f)
            \/ \E c \in Conns : AddConnection(c)
            \/ AddRefused \/ CreateFails \/ CloseClient

WorkerStep(w) == \/ \E c \in Conns : WorkerTake(w, c)
                 \/ WorkerCheck(w) \/ WorkerSend(w) \/ WorkerSendFails(w) \/ WorkerDestroy(w)

IoStep == \/ EventLoopWait \/ BatchDone \/ InboxAdd \/ InboxAddFails
          \/ \E c \in Conns : MessageTake(c) \/ ConnectionEvent(c)
          \/ MessageRelease \/ MessagesDone
          \/ ReadRequest \/ ReadRequestFails \/ ReadAgain \/ WriteDone \/ WriteAgain
          \/ StartClose \/ MarkClosing \/ DeleteEvent \/ ReleaseBase \/ CheckAfterHandler

Next == MainStep \/ (\E w \in Workers : WorkerStep(w)) \/ IoStep

\* The IO thread and the workers run when they can; nobody has to connect.
Fairness == WF_vars(IoStep) /\ \A w \in Workers : WF_vars(WorkerStep(w))

Spec == Init /\ [][Next]_vars /\ Fairness

-----------------------------------------------------------------------------
\* Who holds a pointer to connection c.
HeldByWorkers(c) == {w \in Workers : wconn[w] = c}
HeldByIoThread(c) == iocur = c /\ iopc \in {"handle", "mark", "del", "release", "message"}

\* The reference conn_create makes: the IO thread's, until it has closed the
\* connection and released it.
BaseRef(c) == IF ~closing[c] \/ (iocur = c /\ iopc \in {"del", "release"}) THEN 1 ELSE 0
MessageRef(c) == IF iocur = c /\ iopc = "message" THEN 1 ELSE 0

\* Reference counting is exact: ref_count of a live connection is the number of
\* parties that will still call conn_release on it, plus the references that
\* task_create loses when it runs out of memory.
RefsExact ==
    \A c \in Conns : mem[c] = "live" =>
        ref[c] = BaseRef(c) + MessageRef(c) + tasks[c] + msgs[c]
                    + Cardinality(HeldByWorkers(c)) + lost[c]

\* Whoever will dereference a pointer to a connection finds it alive: queued
\* tasks, messages, workers, the pipe of new connections, the epoll set, the rest
\* of the batch and the handlers of the IO thread.
NoDanglingReference ==
    \A c \in Conns :
        \/ tasks[c] > 0 \/ msgs[c] > 0 \/ HeldByWorkers(c) # {}
        \/ InInbox(c) \/ Registered(c) \/ batch[c] # {} \/ HeldByIoThread(c)
        => mem[c] = "live"

\* Descriptors have one owner: a connection's descriptor is open and nobody
\* else's, and an open one belongs to a live connection or is the one the main
\* thread is about to hand over.  So no close in the program, the second close of
\* client_fd included, hits a descriptor that was handed out again, and no
\* descriptor leaks.
FdOwnership ==
    /\ \A c \in Conns : fd[c] # NoFd => fd[c] \in open /\ mem[c] = "live"
    /\ \A b, c \in Conns : fd[b] = fd[c] => b = c \/ fd[b] = NoFd
    /\ \A f \in open : \/ \E c \in Conns : fd[c] = f
                       \/ mfd = f

\* A connection that is not closing is in somebody's hands: waiting in the pipe,
\* or registered with epoll under its own descriptor.  None is forgotten.
NoOrphan ==
    \A c \in Conns : mem[c] = "live" /\ ~closing[c] =>
        \/ InInbox(c)
        \/ fd[c] \in Fds /\ reg[fd[c]].conn = c

\* The epoll set names only open descriptors of connections that are not closing:
\* event_loop_del, called with a number that was closed before, never removes the
\* registration of a connection that got the number since.
DeleteHitsNobody == iopc = "del" => reg[iofd] = NoReg

\* A connection that is closing is freed, once tasks and messages that name it
\* are through, unless task_create has lost a reference to it.
ClosedIsFreed == \A c \in Conns : closing[c] ~> mem[c] = "freed" \/ lost[c] > 0

\* What the comments on the two tests after the handlers take for granted: the
\* connection they look at still exists.
CheckSeesConnection == iopc = "check" => mem[iocur] = "live"

\* What README.md says of the hand-over: the IO thread an accepted connection is
\* assigned to monitors it.
HandedOverIsMonitored == \A c \in Conns : InInbox(c) ~> ~InInbox(c)
=============================================================================
