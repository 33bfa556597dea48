--------------------------- MODULE SimpleReactor ---------------------------
(***************************************************************************)
(* The simple reactor server of linux/reactor-server: a main thread that   *)
(* accepts and registers connections, IO threads that read them, workers   *)
(* that poll a global array of tasks.                                      *)
(*                                                                         *)
(* Unlike in the advanced server it is the MAIN thread that adds a new     *)
(* connection to an IO thread's epoll set, at any moment, and events name  *)
(* descriptors.  Connections are numbered in the order in which they are   *)
(* accepted, so that a descriptor handed out again can be told from its    *)
(* former use.  No descriptor is ever registered for EPOLLOUT, since       *)
(* nothing calls io_thread_handle_response.                                *)
(***************************************************************************)
EXTENDS Naturals

CONSTANTS NumIo,      \* MAX_IO_THREADS
          Workers,    \* worker threads
          Fds,        \* descriptors the kernel may hand out
          NumSlots,   \* MAX_TASKS
          MaxConns    \* bound of the model: connections accepted

ASSUME ReactorAssumption == /\ NumIo \in Nat \ {0} /\ NumSlots \in Nat \ {0}
                            /\ MaxConns \in Nat

Io == 0 .. NumIo - 1
Slots == 1 .. NumSlots
Conns == 1 .. MaxConns
None == 0            \* a closed descriptor, an invalid slot, no task, no connection

VARIABLES sock,      \* descriptor -> the connection it is, or None
          accepted,  \* connections accepted so far
          current,   \* the IO thread the next connection goes to
          mpc, mfd,  \* the main thread: where it is, client_fd
          epoll,     \* IO thread -> the descriptors in its epoll set
          batch,     \* IO thread -> descriptors with an event still to handle
          iopc, iofd,\* IO thread -> where it is, the descriptor it handles
          slot,      \* g_tasks: slot -> the connection its task came from
          wtask      \* worker -> the connection of the task it has

mainVars == <<current, mpc, mfd>>
ioVars == <<batch, iopc, iofd>>
vars == <<sock, accepted, current, mpc, mfd, epoll, batch, iopc, iofd, slot, wtask>>

TypeOK ==
    /\ sock \in [Fds -> Conns \cup {None}]
    /\ accepted \in 0 .. MaxConns
    /\ current \in Io
    /\ mpc \in {"accept", "add"} /\ mfd \in Fds \cup {None}
    /\ epoll \in [Io -> SUBSET Fds] /\ batch \in [Io -> SUBSET Fds]
    /\ iopc \in [Io -> {"wait", "read", "del"}] /\ iofd \in [Io -> Fds \cup {None}]
    /\ slot \in [Slots -> Conns \cup {None}]
    /\ wtask \in [Workers -> Conns \cup {None}]

-----------------------------------------------------------------------------
(***************************************************************************)
(* The main thread.                                                        *)
(***************************************************************************)
Accept(f) ==
    /\ mpc = "accept"
    /\ accepted < MaxConns
    /\ sock[f] = None
    /\ accepted' = accepted + 1
    /\ sock' = [sock EXCEPT ![f] = accepted']
    /\ mfd' = f
    /\ mpc' = "add"
    /\ UNCHANGED <<current, epoll, ioVars, slot, wtask>>

AddConnToAll ==
    /\ mpc = "add"
    /\ epoll' = [i \in Io |-> epoll[i] \cup {mfd}]
    /\ current' = (current + 1) % NumIo
    /\ mpc' = "accept" /\ mfd' = None
    /\ UNCHANGED <<sock, accepted, ioVars, slot, wtask>>

AddConnNoWrap ==
    /\ mpc = "add"
    /\ epoll' = [epoll EXCEPT ![current] = @ \cup {mfd}]
    /\ current' = current + 1
    /\ mpc' = "accept" /\ mfd' = None
    /\ UNCHANGED <<sock, accepted, ioVars, slot, wtask>>

\* Round robin, and io_thread_add_conn.
AddConn ==
    /\ mpc = "add"
    /\ epoll' = [epoll EXCEPT ![current] = @ \cup {mfd}]
    /\ current' = (current + 1) % NumIo
    /\ mpc' = "accept" /\ mfd' = None
    /\ UNCHANGED <<sock, accepted, ioVars, slot, wtask>>

\* epoll_ctl ADD fails: the connection is closed.
AddConnFails ==
    /\ mpc = "add"
    /\ sock' = [sock EXCEPT ![mfd] = None]
    /\ current' = (current + 1) % NumIo
    /\ mpc' = "accept" /\ mfd' = None
    /\ UNCHANGED <<accepted, epoll, ioVars, slot, wtask>>

-----------------------------------------------------------------------------
(***************************************************************************)
(* An IO thread.  Any registered connection may have something to read.    *)
(***************************************************************************)
EpollWait(i) ==
    /\ iopc[i] = "wait"
    /\ batch[i] = {}
    /\ \E ready \in SUBSET epoll[i] : ready # {} /\ batch' = [batch EXCEPT ![i] = ready]
    /\ UNCHANGED <<sock, accepted, mainVars, epoll, iopc, iofd, slot, wtask>>

NextEvent(i, f) ==
    /\ iopc[i] = "wait"
    /\ f \in batch[i]
    /\ batch' = [batch EXCEPT ![i] = @ \ {f}]
    /\ iopc' = [iopc EXCEPT ![i] = "read"]
    /\ iofd' = [iofd EXCEPT ![i] = f]
    /\ UNCHANGED <<sock, accepted, mainVars, epoll, slot, wtask>>

\* global_queue_add_task: the first slot that is not valid; a full array drops
\* the request, as io_thread_loop ignores the result.
AddTask(c) ==
    IF \E s \in Slots : slot[s] = None
    THEN \E s \in Slots : /\ slot[s] = None
                          /\ \A r \in 1 .. s - 1 : slot[r] # None
                          /\ slot' = [slot EXCEPT ![s] = c]
    ELSE UNCHANGED slot

ReadData(i) ==
    /\ iopc[i] = "read"
    /\ sock[iofd[i]] # None
    /\ AddTask(sock[iofd[i]])
    /\ UNCHANGED <<sock, accepted, mainVars, epoll, ioVars, wtask>>

\* read returns EAGAIN.
ReadAgain(i) ==
    /\ iopc[i] = "read"
    /\ iopc' = [iopc EXCEPT ![i] = "wait"]
    /\ iofd' = [iofd EXCEPT ![i] = None]
    /\ UNCHANGED <<sock, accepted, mainVars, epoll, batch, slot, wtask>>

\* End of file or an error: close(fd), which also takes the descriptor out of
\* the epoll set, ...
ReadClosed(i) ==
    /\ iopc[i] = "read"
    /\ sock' = [sock EXCEPT ![iofd[i]] = None]
    /\ epoll' = [j \in Io |-> epoll[j] \ {iofd[i]}]
    /\ iopc' = [iopc EXCEPT ![i] = "del"]
    /\ UNCHANGED <<accepted, mainVars, batch, iofd, slot, wtask>>

\* ... then epoll_ctl DEL with the same number.
Delete(i) ==
    /\ iopc[i] = "del"
    /\ epoll' = [epoll EXCEPT ![i] = @ \ {iofd[i]}]
    /\ iopc' = [iopc EXCEPT ![i] = "wait"]
    /\ iofd' = [iofd EXCEPT ![i] = None]
    /\ UNCHANGED <<sock, accepted, mainVars, batch, slot, wtask>>

-----------------------------------------------------------------------------
(***************************************************************************)
(* A worker: global_queue_get_task takes the first valid slot; the echo is *)
(* made and printed.  With no valid slot the worker sleeps and tries again.*)
(***************************************************************************)
GetTaskStopsAtHole(w) ==
    /\ wtask[w] = None
    /\ slot[1] # None
    /\ slot' = [slot EXCEPT ![1] = None]
    /\ wtask' = [wtask EXCEPT ![w] = slot[1]]
    /\ UNCHANGED <<sock, accepted, mainVars, epoll, ioVars>>

GetTask(w) ==
    /\ wtask[w] = None
    /\ \E s \in Slots : /\ slot[s] # None
                        /\ \A r \in 1 .. s - 1 : slot[r] = None
                        /\ slot' = [slot EXCEPT ![s] = None]
                        /\ wtask' = [wtask EXCEPT ![w] = slot[s]]
    /\ UNCHANGED <<sock, accepted, mainVars, epoll, ioVars>>

ProcessTask(w) ==
    /\ wtask[w] # None
    /\ wtask' = [wtask EXCEPT ![w] = None]
    /\ UNCHANGED <<sock, accepted, mainVars, epoll, ioVars, slot>>

-----------------------------------------------------------------------------
Init ==
    /\ sock = [f \in Fds |-> None] /\ accepted = 0
    /\ current = 0 /\ mpc = "accept" /\ mfd = None
    /\ epoll = [i \in Io |-> {}] /\ batch = [i \in Io |-> {}]
    /\ iopc = [i \in Io |-> "wait"] /\ iofd = [i \in Io |-> None]
    /\ slot = [s \in Slots |-> None] /\ wtask = [w \in Workers |-> None]

IoStep(i) == \/ EpollWait(i) \/ (\E f \in Fds : NextEvent(i, f))
             \/ ReadData(i) \/ ReadAgain(i) \/ ReadClosed(i) \/ Delete(i)

WorkerStep(w) == GetTask(w) \/ ProcessTask(w)

Next == \/ (\E f \in Fds : Accept(f)) \/ AddConn \/ AddConnFails
        \/ \E i \in Io : IoStep(i)
        \/ \E w \in Workers : WorkerStep(w)

\* Every thread that can run does.
Fairness == /\ WF_vars(AddConn \/ AddConnFails)
            /\ \A i \in Io : WF_vars(IoStep(i))
            /\ \A w \in Workers : WF_vars(WorkerStep(w))

Spec == Init /\ [][Next]_vars /\ Fairness

-----------------------------------------------------------------------------
\* What IO thread i may read from or close: its epoll set, the events it still
\* has to handle and the one it is handling.
Reach(i) == epoll[i] \cup batch[i] \cup (IF iopc[i] = "read" THEN {iofd[i]} ELSE {})

\* Every descriptor within an IO thread's reach is open and within the reach of
\* no other IO thread: events carry bare descriptor numbers, yet no thread reads
\* or closes a descriptor that was handed out again meanwhile.
OneReader ==
    \A i \in Io : /\ \A f \in Reach(i) : sock[f] # None
                  /\ \A j \in Io : Reach(i) \cap Reach(j) # {} => i = j

\* Once the clients leave off sending, every slot is emptied, also one behind a hole
\* that workers have left: a task is not forgotten because others were taken, or
\* put, before it.  (While they go on, a task in a higher slot may be passed over
\* for ever by tasks in the lower ones.)
QueuedIsServed ==
    <>[][\A i \in Io : ~ReadData(i)]_vars => \A s \in Slots : []<>(slot[s] = None)

\* What linux/reactor-server/README.md says of the IO threads, which handle the
\* socket events of the connections distributed to them: a connection that was
\* handed over is in an epoll set as long as it is open.
HandedOverIsWatched ==
    \A f \in Fds : sock[f] # None /\ mfd # f =>
        \E i \in Io : f \in epoll[i]
=============================================================================
