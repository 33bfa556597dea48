---------------------------- MODULE ResponsePath ----------------------------
(***************************************************************************)
(* The way of requests and responses through ONE connection of the         *)
(* advanced reactor server, byte for byte as far as order and completeness *)
(* go: the client, the socket, handle_read and handle_write of the IO      *)
(* thread (io_thread.c), the workers' process_request (thread_pool.c) and  *)
(* the write buffer of connection_t that IO thread and workers share       *)
(* without a lock.  The socket's events go through EventLoop.              *)
(*                                                                         *)
(* The server does not know where a request ends: a task is made of        *)
(* whatever one read returns, up to BUFFER_SIZE bytes.  A number therefore *)
(* is a PIECE of what the client sends that no read divides, in the order  *)
(* sent; a read returns one or more of them, and the response to what was  *)
(* read is a header (0) followed by the pieces themselves.  A request is   *)
(* one piece when it is short and arrives at once, several otherwise.      *)
(*                                                                         *)
(* A worker's three stores to the connection are steps of their own, in    *)
(* any order: nothing in the code orders them before the message that      *)
(* follows.  The IO thread loads write_pos and write_size once per turn of *)
(* its loop, as the -O2 build of the Makefile does between two calls;      *)
(* write_pos += n, and the last test of handle_write with the two resets   *)
(* that follow it, are one step each.  The queues of tasks and messages    *)
(* are reliable here: see WorkerPool and MessageChannel.                   *)
(***************************************************************************)
EXTENDS Integers, Sequences, FiniteSets, EventLoop

CONSTANTS Workers,      \* worker threads
          MaxRequests,  \* bound of the model: pieces the client sends
          Room,         \* cells the socket's send buffer holds
          Platforms,    \* which backends of the event loop
          Clients       \* which clients

\* A client that waits for the answer to a request before it sends the next, each
\* being one piece; one that waits, too, but whose requests are two pieces, more
\* than one read returns or than arrives at once; one that sends without waiting.
ClientKinds == {"waits", "splits", "pipes"}

ASSUME PathAssumption == /\ IsFiniteSet(Workers) /\ Workers # {}
                         /\ MaxRequests \in Nat /\ Room \in Nat \ {0}
                         /\ Platforms \subseteq Backends /\ Clients \subseteq ClientKinds

VARIABLES backend, client,    \* the platform and the client, fixed for a behaviour
          sent,               \* pieces sent so far
          inbuf,              \* pieces in the socket, not yet read
          out,                \* the socket's send buffer
          got,                \* what the client has received
          reg,                \* the connection's registration
          tasks,              \* the worker pool's queue: what each task holds
          wdata, wstores,     \* worker -> data of its task, stores still to make
          msgs,               \* messages in the IO thread's list
          buf, wsize, wpos,   \* write_buf, write_size, write_pos
          iopc, batch,        \* where the IO thread is, events still to handle
          lpos, lsize, ln     \* handle_write: what it has loaded; n

scenario == <<backend, client>>
clientVars == <<sent, got>>
socketVars == <<inbuf, out>>
workerVars == <<wdata, wstores>>
bufVars == <<buf, wsize, wpos>>
localVars == <<lpos, lsize, ln>>
vars == <<backend, client, sent, inbuf, out, got, reg, tasks, wdata, wstores, msgs,
          buf, wsize, wpos, iopc, batch, lpos, lsize, ln>>

Requests == 1 .. MaxRequests
Cells == -1 .. MaxRequests    \* -1: what was in write_buf before any response
Elements(s) == {s[i] : i \in 1 .. Len(s)}

\* process_request: the response to what was read.  There always is one: see
\* ResponseFits in HttpEcho.
Response(data) == <<0>> \o data

TypeOK ==
    /\ backend \in Platforms /\ client \in Clients
    /\ sent \in 0 .. MaxRequests /\ inbuf \in Seq(Requests)
    /\ out \in Seq(Cells) /\ Len(out) <= Room /\ got \in Seq(Cells)
    /\ reg \in Registration
    /\ tasks \in Seq(Seq(Requests))
    /\ wdata \in [Workers -> Seq(Requests)]
    /\ wstores \in [Workers -> SUBSET {"buf", "size", "pos"}]
    /\ msgs \in Nat
    /\ buf \in Seq(Cells) /\ wsize \in Nat /\ wpos \in Nat
    /\ iopc \in {"wait", "dispatch", "msgs", "read", "start", "loop", "write", "advance", "again"}
    /\ batch \subseteq Filters \cup {"msgs"}
    /\ lpos \in Nat /\ lsize \in Nat /\ ln \in Nat

\* What the socket is ready for.
Ready == (IF inbuf # <<>> THEN {"read"} ELSE {}) \cup (IF Len(out) < Room THEN {"write"} ELSE {})

-----------------------------------------------------------------------------
(***************************************************************************)
(* The client.                                                             *)
(***************************************************************************)
\* All that was sent has come back.
Answered == 1 .. sent \subseteq Elements(got)

ClientSend ==
    /\ sent < MaxRequests
    /\ \/ Answered
       \/ client = "splits" /\ sent % 2 = 1
       \/ client = "pipes"
    /\ sent' = sent + 1
    /\ inbuf' = Append(inbuf, sent')
    /\ reg' = Raise(reg, "read")
    /\ UNCHANGED <<scenario, out, got, tasks, workerVars, msgs, bufVars, iopc, batch,
                   localVars>>

\* The client receives what was sent.  Room in the send buffer is an event for
\* epoll when it was full, for kqueue always.
ClientReceive ==
    /\ out # <<>>
    /\ got' = got \o out
    /\ out' = <<>>
    /\ reg' = IF backend = "kqueue" \/ Len(out) = Room THEN Raise(reg, "write") ELSE reg
    /\ UNCHANGED <<scenario, sent, inbuf, tasks, workerVars, msgs, bufVars, iopc, batch, localVars>>

-----------------------------------------------------------------------------
(***************************************************************************)
(* A worker: process_request.                                              *)
(***************************************************************************)
Idle(w) == wdata[w] = <<>>

WorkerTake(w) ==
    /\ Idle(w)
    /\ tasks # <<>>
    /\ tasks' = Tail(tasks)
    /\ wdata' = [wdata EXCEPT ![w] = Head(tasks)]
    /\ wstores' = [wstores EXCEPT ![w] = {"buf", "size", "pos"}]
    /\ UNCHANGED <<scenario, clientVars, socketVars, reg, msgs, bufVars, iopc, batch, localVars>>

\* The memcpy overwrites the beginning of write_buf.
WorkerStore(w, s) ==
    /\ s \in wstores[w]
    /\ buf' = IF s # "buf" THEN buf
              ELSE LET r == Response(wdata[w]) IN r \o SubSeq(buf, Len(r) + 1, Len(buf))
    /\ wsize' = IF s = "size" THEN Len(Response(wdata[w])) ELSE wsize
    /\ wpos' = IF s = "pos" THEN 0 ELSE wpos
    /\ wstores' = [wstores EXCEPT ![w] = @ \ {s}]
    /\ UNCHANGED <<scenario, clientVars, socketVars, reg, tasks, wdata, msgs, iopc, batch, localVars>>

\* io_thread_send_message
WorkerNotify(w) ==
    /\ ~Idle(w)
    /\ wstores[w] = {}
    /\ msgs' = msgs + 1
    /\ wdata' = [wdata EXCEPT ![w] = <<>>]
    /\ UNCHANGED <<scenario, clientVars, socketVars, reg, tasks, wstores, bufVars, iopc, batch,
                   localVars>>

-----------------------------------------------------------------------------
(***************************************************************************)
(* The IO thread: a batch of events, handled in any order.                 *)
(***************************************************************************)
EventLoopWait ==
    /\ iopc = "wait"
    /\ batch' = Reported(reg, Ready) \cup (IF msgs > 0 THEN {"msgs"} ELSE {})
    /\ batch' # {}
    /\ reg' = Collect(reg)
    /\ iopc' = "dispatch"
    /\ UNCHANGED <<scenario, clientVars, socketVars, tasks, workerVars, msgs, bufVars, localVars>>

Dispatch(e) ==
    /\ iopc = "dispatch"
    /\ e \in batch
    /\ batch' = batch \ {e}
    /\ iopc' = CASE e = "read" -> "read" [] e = "write" -> "start" [] e = "msgs" -> "msgs"
    /\ UNCHANGED <<scenario, clientVars, socketVars, reg, tasks, workerVars, msgs, bufVars, localVars>>

BatchDone ==
    /\ iopc = "dispatch"
    /\ batch = {}
    /\ iopc' = "wait"
    /\ UNCHANGED <<scenario, clientVars, socketVars, reg, tasks, workerVars, msgs, bufVars, batch,
                   localVars>>

\* The message loop: every message switches the connection to writing.
HandleMessages ==
    /\ iopc = "msgs"
    /\ IF msgs > 0
       THEN /\ msgs' = msgs - 1
            /\ reg' = Mod(backend, reg, {"write"}, Ready)
            /\ UNCHANGED iopc
       ELSE iopc' = "dispatch" /\ UNCHANGED <<msgs, reg>>
    /\ UNCHANGED <<scenario, clientVars, socketVars, tasks, workerVars, bufVars, batch, localVars>>

-----------------------------------------------------------------------------
(***************************************************************************)
(* handle_read: a task for whatever a read returns, be it part of a        *)
(* request or several, until EAGAIN.                                       *)
(***************************************************************************)
ReadRequestOnce ==
    /\ iopc = "read"
    /\ inbuf # <<>>
    /\ \E n \in 1 .. Len(inbuf) : /\ tasks' = Append(tasks, SubSeq(inbuf, 1, n))
                                  /\ inbuf' = SubSeq(inbuf, n + 1, Len(inbuf))
    /\ iopc' = "dispatch"
    /\ UNCHANGED <<scenario, clientVars, out, reg, workerVars, msgs, bufVars, batch,
                   localVars>>

ReadRequest ==
    /\ iopc = "read"
    /\ inbuf # <<>>
    /\ \E n \in 1 .. Len(inbuf) : /\ tasks' = Append(tasks, SubSeq(inbuf, 1, n))
                                  /\ inbuf' = SubSeq(inbuf, n + 1, Len(inbuf))
    /\ UNCHANGED <<scenario, clientVars, out, reg, workerVars, msgs, bufVars, iopc, batch,
                   localVars>>

ReadAgain ==
    /\ iopc = "read"
    /\ inbuf = <<>>
    /\ iopc' = "dispatch"
    /\ UNCHANGED <<scenario, clientVars, socketVars, reg, tasks, workerVars, msgs, bufVars, batch,
                   localVars>>

-----------------------------------------------------------------------------
(***************************************************************************)
(* handle_write.                                                           *)
(***************************************************************************)
\* write_size <= 0: nothing to write, back to reading.
WriteStart ==
    /\ iopc = "start"
    /\ IF wsize <= 0
       THEN iopc' = "dispatch" /\ reg' = Mod(backend, reg, {"read"}, Ready)
       ELSE iopc' = "loop" /\ UNCHANGED reg
    /\ UNCHANGED <<scenario, clientVars, socketVars, tasks, workerVars, msgs, bufVars, batch, localVars>>

\* The condition of the loop; when it fails the response is out: both variables
\* are reset and the connection is switched back to reading.
WriteLoop ==
    /\ iopc = "loop"
    /\ IF wpos < wsize
       THEN /\ lpos' = wpos /\ lsize' = wsize
            /\ iopc' = "write"
            /\ UNCHANGED <<wpos, wsize, reg>>
       ELSE /\ wpos' = 0 /\ wsize' = 0
            /\ reg' = Mod(backend, reg, {"read"}, Ready)
            /\ iopc' = "dispatch"
            /\ UNCHANGED <<lpos, lsize>>
    /\ UNCHANGED <<scenario, clientVars, socketVars, tasks, workerVars, msgs, buf, batch, ln>>

WriteCallUnchecked ==
    /\ iopc = "write"
    /\ LET n == IF lsize - lpos < Room - Len(out) THEN lsize - lpos ELSE Room - Len(out)
       IN  IF n > 0
           THEN out' = out \o SubSeq(buf, lpos + 1, lpos + n) /\ ln' = n
           ELSE ln' = -1 /\ UNCHANGED out
    /\ iopc' = "advance"
    /\ UNCHANGED <<scenario, clientVars, inbuf, reg, tasks, workerVars, msgs, bufVars, batch, lpos,
                   lsize>>

\* write takes as much as there is room for, or fails with EAGAIN.
WriteCall ==
    /\ iopc = "write"
    /\ LET n == IF lsize - lpos < Room - Len(out) THEN lsize - lpos ELSE Room - Len(out)
       IN  IF n > 0
           THEN /\ out' = out \o SubSeq(buf, lpos + 1, lpos + n)
                /\ ln' = n
                /\ iopc' = "advance"
           ELSE /\ iopc' = "again"
                /\ UNCHANGED <<out, ln>>
    /\ UNCHANGED <<scenario, clientVars, inbuf, reg, tasks, workerVars, msgs, bufVars, batch, lpos,
                   lsize>>

WriteAdvanceStartsOver ==
    /\ iopc = "advance"
    /\ wpos' = IF ln < lsize - lpos THEN wpos ELSE wpos + ln
    /\ iopc' = "loop" /\ lpos' = 0 /\ lsize' = 0 /\ ln' = 0
    /\ UNCHANGED <<scenario, clientVars, socketVars, reg, tasks, workerVars, msgs, buf, wsize, batch>>

\* conn->write_pos += n
WriteAdvance ==
    /\ iopc = "advance"
    /\ wpos' = wpos + ln
    /\ iopc' = "loop" /\ lpos' = 0 /\ lsize' = 0 /\ ln' = 0
    /\ UNCHANGED <<scenario, clientVars, socketVars, reg, tasks, workerVars, msgs, buf, wsize, batch>>

WriteAgainGivesUp ==
    /\ iopc = "again"
    /\ reg' = Mod(backend, reg, {"read"}, Ready)
    /\ iopc' = "dispatch" /\ lpos' = 0 /\ lsize' = 0
    /\ UNCHANGED <<scenario, clientVars, socketVars, tasks, workerVars, msgs, bufVars, batch, ln>>

\* After EAGAIN the test whether all is written is made afresh.
WriteAgain ==
    /\ iopc = "again"
    /\ IF wpos >= wsize
       THEN wpos' = 0 /\ wsize' = 0 /\ reg' = Mod(backend, reg, {"read"}, Ready)
       ELSE UNCHANGED <<wpos, wsize, reg>>
    /\ iopc' = "dispatch" /\ lpos' = 0 /\ lsize' = 0
    /\ UNCHANGED <<scenario, clientVars, socketVars, tasks, workerVars, msgs, buf, batch, ln>>

-----------------------------------------------------------------------------
\* The connection has just been registered for reading.
Init ==
    /\ backend \in Platforms /\ client \in Clients
    /\ sent = 0 /\ got = <<>>
    /\ inbuf = <<>> /\ out = <<>>
    /\ reg = Add({"read"}, {})
    /\ tasks = <<>>
    /\ wdata = [w \in Workers |-> <<>>] /\ wstores = [w \in Workers |-> {}]
    /\ msgs = 0
    /\ buf = [i \in 1 .. MaxRequests + 1 |-> -1] /\ wsize = 0 /\ wpos = 0
    /\ iopc = "wait" /\ batch = {}
    /\ lpos = 0 /\ lsize = 0 /\ ln = 0

WorkerStep(w) == WorkerTake(w) \/ (\E s \in {"buf", "size", "pos"} : WorkerStore(w, s)) \/ WorkerNotify(w)

IoStep == \/ EventLoopWait \/ (\E e \in Filters \cup {"msgs"} : Dispatch(e)) \/ BatchDone \/ HandleMessages
          \/ ReadRequest \/ ReadAgain
          \/ WriteStart \/ WriteLoop \/ WriteCall \/ WriteAdvance \/ WriteAgain

Next == ClientSend \/ ClientReceive \/ IoStep \/ \E w \in Workers : WorkerStep(w)

\* The server's threads run when they can, and the client takes what is sent to
\* it; it need not send.
Fairness == WF_vars(IoStep) /\ WF_vars(ClientReceive) /\ \A w \in Workers : WF_vars(WorkerStep(w))

Spec == Init /\ [][Next]_vars /\ Fairness

-----------------------------------------------------------------------------
\* The responses to the requests 1 .. n, one after the other.
Ideal(n) == [i \in 1 .. 2 * n |-> IF i % 2 = 1 THEN 0 ELSE i \div 2]

\* A client on Linux that waits for each answer, and each of whose requests one
\* read returns whole, gets its requests echoed in order, complete, each once:
\* however the sends are cut short, the bytes out of the shared write buffer are
\* those of the current response.  Of a request that takes two reads (longer than
\* BUFFER_SIZE, or arriving in two segments) nothing of the kind is true: its pieces
\* become two tasks that race for the buffer like two requests sent at once.
EchoedInOrder ==
    backend = "epoll" /\ client = "waits" =>
        LET stream == got \o out
        IN  Len(stream) <= 2 * sent /\ stream = SubSeq(Ideal(sent), 1, Len(stream))

\* Switching between reading and writing misses no input, whatever the client:
\* whenever the IO thread waits and the connection is registered for reading, what
\* is in the socket has an event due.
NoForgottenInput ==
    iopc = "wait" /\ "read" \in reg.filters /\ inbuf # <<>> => "read" \in reg.pending

\* No response is left behind in the write buffer: when the IO thread waits, no
\* worker is at work on the connection and no message is under way, unsent bytes
\* have a write event due or the client's reading will raise one.
NoStrandedResponse ==
    iopc = "wait" /\ wpos < wsize /\ msgs = 0 /\ (\A w \in Workers : Idle(w)) =>
        /\ "write" \in reg.filters
        /\ "write" \in reg.pending \/ Len(out) = Room

\* Every piece a client sends is read and, for the client on Linux that waits and
\* whose requests are one piece each, answered.
RequestServed ==
    \A r \in Requests :
        (r <= sent) ~> /\ r \notin Elements(inbuf)
                       /\ backend = "epoll" /\ client = "waits" => r \in Elements(got)

\* What README.md says of a request's way: the worker processes it and the IO
\* thread sends the response.
EveryRequestAnswered == \A r \in Requests : (r <= sent) ~> (r \in Elements(got))
=============================================================================
