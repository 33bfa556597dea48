--------------------------- MODULE MessageChannel ---------------------------
(***************************************************************************)
(* The message path from the worker threads to ONE IO thread               *)
(* (advanced-reactor-server/io_thread.c).  A worker appends a message to   *)
(* the IO thread's linked list under msg_queue_mutex and then, with the    *)
(* mutex released, writes one byte to a non-blocking pipe whose read end   *)
(* the IO thread watches with an EDGE-TRIGGERED event loop.  On an event   *)
(* the IO thread reads ONE byte, whatever the pipe holds, and then takes   *)
(* messages until the list is empty.                                       *)
(*                                                                         *)
(* Bytes therefore pile up in the pipe, up to its capacity, and a write to *)
(* a full pipe fails and raises no event.  The question is whether a       *)
(* message can be left in the list with nothing to wake the IO thread.     *)
(*                                                                         *)
(* A section that runs under msg_queue_mutex is one step: only the list is *)
(* touched inside it, and only inside it.                                  *)
(***************************************************************************)
EXTENDS Naturals, Sequences

CONSTANTS Workers,       \* threads that call io_thread_send_message
          Conns,         \* connections a message may name
          PipeCapacity,  \* bytes the message pipe holds
          MaxPending     \* bound of the model: messages in the list at once

ASSUME ChannelAssumption == /\ Workers # {}
                            /\ PipeCapacity \in Nat \ {0}
                            /\ MaxPending \in Nat \ {0}

VARIABLES queue,  \* msg_queue_head .. msg_queue_tail
          pipe,   \* bytes in msg_pipe_fd
          edge,   \* the event loop has an unreported event for msg_pipe_fd[0]
          wpc,    \* worker -> "idle", or "notify" between the two halves of send
          iopc    \* "wait", "read", "drain" (mutex held), "handle" (released)

vars == <<queue, pipe, edge, wpc, iopc>>

TypeOK == /\ queue \in Seq(Conns)
          /\ Len(queue) <= MaxPending
          /\ pipe \in 0 .. PipeCapacity
          /\ edge \in BOOLEAN
          /\ wpc \in [Workers -> {"idle", "notify"}]
          /\ iopc \in {"wait", "read", "drain", "handle"}

(***************************************************************************)
(* The pipe and its edge-triggered registration (kernel).  A write that    *)
(* fits raises the edge even when bytes were already there; a write to a   *)
(* full non-blocking pipe returns EAGAIN and raises nothing.               *)
(***************************************************************************)
WriteByteEdgeOnlyFromEmpty ==
    IF pipe < PipeCapacity
    THEN /\ pipe' = pipe + 1
         /\ edge' = (edge \/ pipe = 0)
    ELSE UNCHANGED <<pipe, edge>>

WriteByte ==
    IF pipe < PipeCapacity
    THEN /\ pipe' = pipe + 1
         /\ edge' = TRUE
    ELSE UNCHANGED <<pipe, edge>>

-----------------------------------------------------------------------------
(***************************************************************************)
(* io_thread_send_message, run by a worker.  When malloc fails it returns  *)
(* having changed nothing, which needs no action.                          *)
(***************************************************************************)
Enqueue(w, c) ==
    /\ wpc[w] = "idle"
    /\ Len(queue) < MaxPending
    /\ queue' = Append(queue, c)
    /\ wpc' = [wpc EXCEPT ![w] = "notify"]
    /\ UNCHANGED <<pipe, edge, iopc>>

Notify(w) ==
    /\ wpc[w] = "notify"
    /\ WriteByte
    /\ wpc' = [wpc EXCEPT ![w] = "idle"]
    /\ UNCHANGED <<queue, iopc>>

(***************************************************************************)
(* The message-pipe branch of io_thread_run.  Any delay between the return *)
(* of event_loop_wait and the read is the time the IO thread spends on     *)
(* other events of the same batch.                                         *)
(***************************************************************************)
EventLoopWait ==
    /\ iopc = "wait"
    /\ edge
    /\ pipe > 0
    /\ edge' = FALSE
    /\ iopc' = "read"
    /\ UNCHANGED <<queue, pipe, wpc>>

ReadByteEmpties ==
    /\ iopc = "read"
    /\ pipe' = 0
    /\ iopc' = "drain"
    /\ UNCHANGED <<queue, edge, wpc>>

ReadByteSkipped ==
    /\ iopc = "read"
    /\ iopc' = "drain"
    /\ UNCHANGED <<queue, pipe, edge, wpc>>

ReadByte ==
    /\ iopc = "read"
    /\ pipe' = IF pipe > 0 THEN pipe - 1 ELSE pipe
    /\ iopc' = "drain"
    /\ UNCHANGED <<queue, edge, wpc>>

TakeMessage ==
    /\ iopc = "drain"
    /\ queue # <<>>
    /\ queue' = Tail(queue)
    /\ iopc' = "handle"
    /\ UNCHANGED <<pipe, edge, wpc>>

HandleMessageOnce ==
    /\ iopc = "handle"
    /\ iopc' = "wait"
    /\ UNCHANGED <<queue, pipe, edge, wpc>>

\* What is done with the message is ConnectionLifecycle's business.
HandleMessage ==
    /\ iopc = "handle"
    /\ iopc' = "drain"
    /\ UNCHANGED <<queue, pipe, edge, wpc>>

DrainDone ==
    /\ iopc = "drain"
    /\ queue = <<>>
    /\ iopc' = "wait"
    /\ UNCHANGED <<queue, pipe, edge, wpc>>

-----------------------------------------------------------------------------
Init == /\ queue = <<>>
        /\ pipe = 0
        /\ edge = FALSE
        /\ wpc = [w \in Workers |-> "idle"]
        /\ iopc = "wait"

IoStep == EventLoopWait \/ ReadByte \/ TakeMessage \/ HandleMessage \/ DrainDone

Next == \/ \E w \in Workers : (\E c \in Conns : Enqueue(w, c)) \/ Notify(w)
        \/ IoStep

\* Threads that can run do run; workers need not have anything to send.
Fairness == WF_vars(IoStep) /\ \A w \in Workers : WF_vars(Notify(w))

Spec == Init /\ [][Next]_vars /\ Fairness

-----------------------------------------------------------------------------
\* No lost wake-up.  Whenever a message waits in the list, either the IO
\* thread is on its way through the handler that will take it, or an event is
\* pending, or a worker that has appended has still to write its byte.  Holds
\* although io_thread_run reads one byte per event and the write at the end of
\* io_thread_send_message may fail on a full pipe.
NoLostWakeup ==
    queue # <<>> => \/ iopc # "wait"
                    \/ edge
                    \/ \E w \in Workers : wpc[w] = "notify"

\* A full pipe, the state in which a worker's write fails silently, always has
\* an event pending or a read about to happen, so a failing write never was
\* the only wake-up of the message it stands for.
FullPipeIsArmed == pipe = PipeCapacity => edge \/ iopc = "read"

\* Bytes back every event: the one-byte read in io_thread_run never finds the
\* pipe empty, and an event raised while a read is due finds a byte of its own,
\* so it is not swallowed by an empty pipe once that read is done.
EventsHaveBytes == /\ edge => pipe > 0
                   /\ iopc = "read" => pipe > 0
                   /\ edge /\ iopc = "read" => pipe > 1

\* What an IO thread's message path promises, fairness included: a message
\* that was appended is eventually taken, in order and exactly once.
Abstract == INSTANCE Mailbox WITH box <- queue

Delivers == Abstract!Spec
=============================================================================
