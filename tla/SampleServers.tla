---------------------------- MODULE SampleServers ----------------------------
(***************************************************************************)
(* The three sample servers: basic_epoll_server.c ("basic": one thread,    *)
(* clients edge-triggered), epoll_multithread_server.c ("multithread": the *)
(* main thread accepts and hands descriptors through pipes to workers with *)
(* an epoll each, clients edge-triggered) and kqueue_server.c ("kqueue":   *)
(* one thread, everything level-triggered).  All of them make ONE read per *)
(* event and take every read that returns no data for the end of the       *)
(* connection.                                                             *)
(*                                                                         *)
(* A poller is a thread with an epoll or a kqueue; the single-threaded     *)
(* servers have poller 1.  Interest lists hold connections (the kernel     *)
(* keys them by open file), everything in the program holds descriptors,   *)
(* which are reused: accept returns the lowest free one, and fails when    *)
(* there is none.  The pipes are taken to be large enough for all          *)
(* descriptors.                                                            *)
(***************************************************************************)
EXTENDS Integers, Sequences, FiniteSets

CONSTANTS Servers,       \* which of the three servers
          Clients,       \* the clients, numbered; each connects once, in this order
          Fds,           \* descriptors there are for connections
          WORKER_COUNT,  \* workers of the multi-threaded server
          BUFFER_SIZE,   \* bytes of one read
          MaxSent        \* bound of the model: bytes all clients send

Listen == 0              \* the listening socket in a batch of events
Pipe == -1               \* the read end of the poller's pipe in a batch
None == -2               \* no descriptor

ASSUME SampleAssumption ==
    /\ Servers \subseteq {"basic", "multithread", "kqueue"}
    /\ IsFiniteSet(Clients) /\ Clients \subseteq Nat /\ IsFiniteSet(Fds) /\ Fds \subseteq Nat \ {0}
    /\ WORKER_COUNT \in Nat \ {0} /\ BUFFER_SIZE \in Nat \ {0} /\ MaxSent \in Nat

Pollers == 1 .. WORKER_COUNT

VARIABLES server,     \* the server, fixed for a behaviour
          status,     \* client -> where its connection is
          hungup,     \* clients that have closed their end or died
          sent,       \* bytes the clients have sent
          inbuf,      \* client -> bytes in its socket, not yet read
          backlog,    \* the listening socket's queue
          fd,         \* client -> the server's descriptor of it
          interest,   \* poller -> connections registered with it
          edge,       \* poller -> registered connections with an unreported edge
          pipe,       \* poller -> descriptors in its pipe
          batch,      \* poller -> events reported, not yet handled
          del,        \* poller -> descriptor it has closed and will unregister
          hand,       \* main thread: the descriptor accepted, not yet handed over
          current_worker,
          left,       \* connections of which the last read left something
          ended       \* the process has ended

clientVars == <<status, hungup, sent, inbuf, backlog, fd>>
pollVars == <<interest, edge>>
mainVars == <<hand, current_worker, ended>>
vars == <<server, clientVars, pollVars, pipe, batch, del, mainVars, left>>

TypeOK ==
    /\ server \in Servers
    /\ status \in [Clients -> {"new", "backlog", "open", "closed"}]
    /\ hungup \subseteq Clients
    /\ sent \in 0 .. MaxSent /\ inbuf \in [Clients -> 0 .. MaxSent]
    /\ backlog \in Seq(Clients)
    /\ fd \in [Clients -> Fds \cup {None}]
    /\ interest \in [Pollers -> SUBSET Clients] /\ edge \in [Pollers -> SUBSET Clients]
    /\ pipe \in [Pollers -> Seq(Fds)]
    /\ batch \in [Pollers -> SUBSET (Fds \cup {Listen, Pipe})]
    /\ del \in [Pollers -> Fds \cup {None}]
    /\ hand \in Fds \cup {None} /\ current_worker \in Pollers
    /\ left \subseteq Clients /\ ended \in BOOLEAN

FreeFds == Fds \ {fd[c] : c \in Clients}
LowestFree == CHOOSE f \in FreeFds : \A g \in FreeFds : f <= g
Open(f) == {c \in Clients : fd[c] = f}        \* the connection f stands for, if any
Readable(c) == inbuf[c] > 0 \/ c \in hungup

-----------------------------------------------------------------------------
(***************************************************************************)
(* The clients.                                                            *)
(***************************************************************************)
Raise(c) == edge' = [p \in Pollers |-> edge[p] \cup ({c} \cap interest[p])]

Connect(c) ==
    /\ status[c] = "new" /\ \A d \in Clients : d < c => status[d] # "new"
    /\ status' = [status EXCEPT ![c] = "backlog"]
    /\ backlog' = Append(backlog, c)
    /\ UNCHANGED <<server, hungup, sent, inbuf, fd, pollVars, pipe, batch, del, mainVars, left>>

Send(c) ==
    /\ status[c] \in {"backlog", "open"} /\ c \notin hungup
    /\ sent < MaxSent
    /\ sent' = sent + 1
    /\ inbuf' = [inbuf EXCEPT ![c] = @ + 1]
    /\ Raise(c)
    /\ UNCHANGED <<server, status, hungup, backlog, fd, interest, pipe, batch, del, mainVars, left>>

HangUp(c) ==
    /\ status[c] \in {"backlog", "open"} /\ c \notin hungup
    /\ hungup' = hungup \cup {c}
    /\ Raise(c)
    /\ UNCHANGED <<server, status, sent, inbuf, backlog, fd, interest, pipe, batch, del, mainVars,
                   left>>

-----------------------------------------------------------------------------
(***************************************************************************)
(* A poller: epoll_wait or kevent, and the loop over the events.           *)
(***************************************************************************)
Register(p, cs) ==
    /\ interest' = [interest EXCEPT ![p] = @ \cup cs]
    /\ edge' = [edge EXCEPT ![p] = @ \cup {c \in cs : Readable(c)}]

\* An event is reported when its descriptor is ready now and, for the
\* edge-triggered clients of the epoll servers, something happened since.
Wait(p) ==
    /\ batch[p] = {} /\ del[p] = None
    /\ LET due == {c \in interest[p] : Readable(c) /\ (server = "kqueue" \/ c \in edge[p])}
       IN  batch' = [batch EXCEPT ![p] =
                       {fd[c] : c \in due}
                       \cup {e \in {Listen} : server # "multithread" /\ p = 1 /\ backlog # <<>>}
                       \cup {e \in {Pipe} : pipe[p] # <<>>}]
    /\ batch'[p] # {}
    /\ edge' = [edge EXCEPT ![p] = {}]
    /\ UNCHANGED <<server, clientVars, interest, pipe, del, mainVars, left>>

\* kqueue_server.c leaves its loop, and with it the process, when kevent fails.
WaitFails(p) ==
    /\ server = "kqueue" /\ p = 1
    /\ batch[p] = {} /\ del[p] = None
    /\ ended' = TRUE
    /\ UNCHANGED <<server, clientVars, pollVars, pipe, batch, del, hand, current_worker, left>>

\* accept takes the head of the backlog; without a free descriptor it fails.
Accepted == /\ backlog' = Tail(backlog)
            /\ status' = [status EXCEPT ![Head(backlog)] = "open"]
            /\ fd' = [fd EXCEPT ![Head(backlog)] = LowestFree]

\* The listening socket's event in the single-threaded servers.  The result of
\* accept is not looked at: after a failure -1 is "registered", to no effect.
AcceptHere(p) ==
    /\ del[p] = None /\ Listen \in batch[p]
    /\ batch' = [batch EXCEPT ![p] = @ \ {Listen}]
    /\ IF FreeFds # {}
       THEN Accepted /\ Register(p, {Head(backlog)})
       ELSE UNCHANGED <<backlog, status, fd, pollVars>>
    /\ UNCHANGED <<server, hungup, sent, inbuf, pipe, del, mainVars, left>>

\* Whatever the descriptor from the pipe stands for by now is registered.
WorkerReceiveMissesEarly(p) ==
    /\ del[p] = None /\ Pipe \in batch[p]
    /\ batch' = [batch EXCEPT ![p] = @ \ {Pipe}]
    /\ pipe' = [pipe EXCEPT ![p] = Tail(@)]
    /\ interest' = [interest EXCEPT ![p] = @ \cup Open(Head(pipe[p]))]
    /\ UNCHANGED <<server, clientVars, edge, del, mainVars, left>>

WorkerReceive(p) ==
    /\ del[p] = None /\ Pipe \in batch[p]
    /\ batch' = [batch EXCEPT ![p] = @ \ {Pipe}]
    /\ pipe' = [pipe EXCEPT ![p] = Tail(@)]
    /\ Register(p, Open(Head(pipe[p])))
    /\ UNCHANGED <<server, clientVars, del, mainVars, left>>

\* close: the kernel drops the connection from every interest list.
Close(cs) ==
    /\ status' = [c \in Clients |-> IF c \in cs THEN "closed" ELSE status[c]]
    /\ fd' = [c \in Clients |-> IF c \in cs THEN None ELSE fd[c]]
    /\ interest' = [q \in Pollers |-> interest[q] \ cs]
    /\ edge' = [q \in Pollers |-> edge[q] \ cs]

ReadEventUntilEmpty(p, f) ==
    /\ del[p] = None /\ f \in batch[p] \cap Fds
    /\ batch' = [batch EXCEPT ![p] = @ \ {f}]
    /\ inbuf' = [c \in Clients |-> IF c \in Open(f) THEN 0 ELSE inbuf[c]]
    /\ Close(Open(f))
    /\ del' = [del EXCEPT ![p] = f]
    /\ UNCHANGED <<server, hungup, sent, backlog, pipe, mainVars, left>>

\* A client's event: one read; end of file, an error and EAGAIN all close, and
\* the descriptor is unregistered before the next event.
ReadEvent(p, f) ==
    /\ del[p] = None /\ f \in batch[p] \cap Fds
    /\ batch' = [batch EXCEPT ![p] = @ \ {f}]
    /\ IF \E c \in Open(f) : inbuf[c] > 0
       THEN LET c == CHOOSE d \in Open(f) : TRUE
                n == IF inbuf[c] < BUFFER_SIZE THEN inbuf[c] ELSE BUFFER_SIZE
            IN  /\ inbuf' = [inbuf EXCEPT ![c] = @ - n]
                /\ left' = IF inbuf[c] > n \/ c \in hungup THEN left \cup {c} ELSE left \ {c}
                /\ UNCHANGED <<status, fd, pollVars, del>>
       ELSE /\ Close(Open(f))
            /\ del' = [del EXCEPT ![p] = f]
            /\ UNCHANGED <<inbuf, left>>
    /\ UNCHANGED <<server, hungup, sent, backlog, pipe, mainVars>>

\* EPOLL_CTL_DEL or EV_DELETE of the descriptor just closed.
Unregister(p) ==
    /\ del[p] # None
    /\ interest' = [interest EXCEPT ![p] = @ \ Open(del[p])]
    /\ edge' = [edge EXCEPT ![p] = @ \ Open(del[p])]
    /\ del' = [del EXCEPT ![p] = None]
    /\ UNCHANGED <<server, clientVars, pipe, batch, mainVars, left>>

-----------------------------------------------------------------------------
(***************************************************************************)
(* The main thread of the multi-threaded server.                           *)
(***************************************************************************)
\* accept; on EAGAIN the loop spins, on any other error the process ends.
MainAccept ==
    /\ server = "multithread" /\ hand = None /\ backlog # <<>>
    /\ \/ FreeFds # {} /\ Accepted /\ hand' = LowestFree /\ UNCHANGED ended
       \/ ended' = TRUE /\ UNCHANGED <<backlog, status, fd, hand>>
    /\ UNCHANGED <<server, hungup, sent, inbuf, pollVars, pipe, batch, del, current_worker, left>>

HandOverNoWrap ==
    /\ hand # None
    /\ pipe' = [pipe EXCEPT ![current_worker] = Append(@, hand)]
    /\ current_worker' = current_worker + 1
    /\ hand' = None
    /\ UNCHANGED <<server, clientVars, pollVars, batch, del, ended, left>>

HandOverTwice ==
    /\ hand # None
    /\ pipe' = [p \in Pollers |-> Append(pipe[p], hand)]
    /\ hand' = None
    /\ UNCHANGED <<server, clientVars, pollVars, batch, del, current_worker, ended, left>>

\* Round robin; workers are numbered from 1 here.
HandOver ==
    /\ hand # None
    /\ pipe' = [pipe EXCEPT ![current_worker] = Append(@, hand)]
    /\ current_worker' = (current_worker % WORKER_COUNT) + 1
    /\ hand' = None
    /\ UNCHANGED <<server, clientVars, pollVars, batch, del, ended, left>>

-----------------------------------------------------------------------------
\* start_workers and the set-up in main are done: the listening socket and the
\* pipes are registered, level-triggered.
Init ==
    /\ server \in Servers
    /\ status = [c \in Clients |-> "new"] /\ hungup = {}
    /\ sent = 0 /\ inbuf = [c \in Clients |-> 0]
    /\ backlog = <<>> /\ fd = [c \in Clients |-> None]
    /\ interest = [p \in Pollers |-> {}] /\ edge = [p \in Pollers |-> {}]
    /\ pipe = [p \in Pollers |-> <<>>]
    /\ batch = [p \in Pollers |-> {}] /\ del = [p \in Pollers |-> None]
    /\ hand = None /\ current_worker = 1
    /\ left = {} /\ ended = FALSE

ClientStep(c) == Connect(c) \/ Send(c) \/ HangUp(c)

PollerStep(p) == \/ Wait(p) \/ AcceptHere(p) \/ WorkerReceive(p)
                 \/ (\E f \in Fds : ReadEvent(p, f)) \/ Unregister(p)

MainStep == MainAccept \/ HandOver

Next == /\ ~ended
        /\ \/ \E c \in Clients : ClientStep(c)
           \/ \E p \in Pollers : PollerStep(p) \/ WaitFails(p)
           \/ MainStep

\* Every thread of the server runs when it can; the clients need do nothing.
Fairness == WF_vars(~ended /\ MainStep) /\ \A p \in Pollers : WF_vars(~ended /\ PollerStep(p))

Spec == Init /\ [][Next]_vars /\ Fairness

-----------------------------------------------------------------------------
\* An accepted descriptor is always in exactly one place: the main thread's
\* hand, one pipe, or the interest list of one poller - also when its number was
\* closed a moment ago by a worker that has yet to unregister it.
OneOwner ==
    \A c \in Clients : status[c] = "open" =>
        LET inHand == {h \in {hand} : h = fd[c]}
            inPipe == UNION {{p} \X {i \in 1 .. Len(pipe[p]) : pipe[p][i] = fd[c]} : p \in Pollers}
            polled == {p \in Pollers : c \in interest[p]}
        IN  Cardinality(inHand) + Cardinality(inPipe) + Cardinality(polled) = 1

\* No server closes a live connection: although EAGAIN closes like end of file
\* does, a reported event always meets the connection it was reported for, with
\* something left to read.
ClosedOnlyWhenGone == \A c \in Clients : status[c] = "closed" => c \in hungup /\ inbuf[c] = 0

\* Whatever a client does on an accepted connection is noticed in the end: the
\* data is read and a hang-up closes the descriptor.  The edge-triggered servers
\* make one exception, what the single read of an event left in the socket (the
\* data beyond the buffer, or the hang-up behind the data); level-triggered
\* kqueue_server.c makes none.
Noticed ==
    \A c \in Clients :
        (status[c] = "open" /\ Readable(c)) ~>
            \/ ended
            \/ ~Readable(c) \/ status[c] = "closed"
            \/ server # "kqueue" /\ c \in left
=============================================================================
