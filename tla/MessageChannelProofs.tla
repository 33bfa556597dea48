------------------------ MODULE MessageChannelProofs ------------------------
(***************************************************************************)
(* Proofs about MessageChannel, for every set of workers, every pipe       *)
(* capacity of at least one byte and any number of pending messages.       *)
(***************************************************************************)
EXTENDS MessageChannel, SequenceTheorems, TLAPS

\* The inductive invariant.  NoLostWakeup alone is not preserved: a Notify on a
\* full pipe takes the worker out of "notify" without raising the edge, and only
\* FullPipeIsArmed says that something else is then on its way.  FullPipeIsArmed
\* in turn needs EventsHaveBytes, since the read must really free a byte.
WakeupInv == TypeOK /\ NoLostWakeup /\ FullPipeIsArmed /\ EventsHaveBytes

\* Every variable keeps its type through every step of the workers and of the
\* IO thread; in particular the byte count of the message pipe stays in range.
LEMMA TypeStep == TypeOK /\ [Next]_vars => TypeOK'
<1> SUFFICES ASSUME TypeOK, [Next]_vars
             PROVE  TypeOK'
  OBVIOUS
<1> USE ChannelAssumption
<1>1. ASSUME NEW w \in Workers, NEW c \in Conns, Enqueue(w, c)
      PROVE  TypeOK'
  <2>1. queue' \in Seq(Conns) /\ Len(queue') = Len(queue) + 1
    BY <1>1, AppendProperties DEF Enqueue, TypeOK
  <2>2. QED
    BY <1>1, <2>1 DEF Enqueue, TypeOK
<1>2. ASSUME NEW w \in Workers, Notify(w)
      PROVE  TypeOK'
  <2>1. pipe' \in 0 .. PipeCapacity /\ UNCHANGED <<queue, iopc>>
    BY <1>2 DEF Notify, WriteByte, TypeOK
  <2>2. wpc' \in [Workers -> {"idle", "notify"}] /\ edge' \in BOOLEAN
    BY <1>2 DEF Notify, WriteByte, TypeOK
  <2>3. QED
    BY <2>1, <2>2 DEF TypeOK
<1>3. CASE EventLoopWait
  BY <1>3 DEF EventLoopWait, TypeOK
<1>4. CASE ReadByte
  BY <1>4 DEF ReadByte, TypeOK
<1>5. CASE TakeMessage
  <2>1. queue' \in Seq(Conns) /\ Len(queue') = Len(queue) - 1
    BY <1>5, HeadTailProperties DEF TakeMessage, TypeOK
  <2>2. QED
    BY <1>5, <2>1, LenProperties DEF TakeMessage, TypeOK
<1>6. CASE HandleMessage
  BY <1>6 DEF HandleMessage, TypeOK
<1>7. CASE DrainDone
  BY <1>7 DEF DrainDone, TypeOK
<1>8. CASE UNCHANGED vars
  BY <1>8 DEF vars, TypeOK
<1>9. QED
  BY <1>1, <1>2, <1>3, <1>4, <1>5, <1>6, <1>7, <1>8 DEF Next, IoStep

\* The conjunction of NoLostWakeup and the two facts about the pipe that carry
\* it is preserved by every step.
LEMMA WakeupStep == WakeupInv /\ [Next]_vars => WakeupInv'
<1> SUFFICES ASSUME WakeupInv, [Next]_vars
             PROVE  WakeupInv'
  OBVIOUS
<1> USE ChannelAssumption
<1>0. TypeOK /\ TypeOK'
  BY TypeStep DEF WakeupInv
<1> SUFFICES NoLostWakeup' /\ FullPipeIsArmed' /\ EventsHaveBytes'
  BY <1>0 DEF WakeupInv
<1>1. ASSUME NEW w \in Workers, NEW c \in Conns, Enqueue(w, c)
      PROVE  NoLostWakeup' /\ FullPipeIsArmed' /\ EventsHaveBytes'
  BY <1>0, <1>1 DEF Enqueue, WakeupInv, TypeOK, NoLostWakeup, FullPipeIsArmed, EventsHaveBytes
<1>2. ASSUME NEW w \in Workers, Notify(w)
      PROVE  NoLostWakeup' /\ FullPipeIsArmed' /\ EventsHaveBytes'
  <2>1. CASE pipe < PipeCapacity
    BY <1>0, <1>2, <2>1 DEF Notify, WriteByte, WakeupInv, TypeOK, NoLostWakeup, FullPipeIsArmed, EventsHaveBytes
  <2>2. CASE pipe = PipeCapacity
    <3>1. edge \/ iopc = "read"
      BY <2>2 DEF WakeupInv, FullPipeIsArmed
    <3>2. UNCHANGED <<pipe, edge, iopc>>
      BY <1>0, <1>2, <2>2 DEF Notify, WriteByte, TypeOK
    <3>3. QED
      BY <3>1, <3>2 DEF WakeupInv, NoLostWakeup, FullPipeIsArmed, EventsHaveBytes
  <2>3. QED
    BY <1>0, <2>1, <2>2 DEF TypeOK
<1>3. CASE EventLoopWait
  BY <1>0, <1>3 DEF EventLoopWait, TypeOK, NoLostWakeup, FullPipeIsArmed, EventsHaveBytes
<1>4. CASE ReadByte
  \* The byte that is read makes room, so the pipe is not full afterwards.
  <2>1. pipe > 0 /\ pipe' = pipe - 1
    BY <1>4 DEF ReadByte, WakeupInv, EventsHaveBytes
  <2>2. NoLostWakeup' /\ FullPipeIsArmed'
    BY <1>0, <1>4, <2>1 DEF ReadByte, TypeOK, NoLostWakeup, FullPipeIsArmed
  <2>3. EventsHaveBytes'
    BY <1>0, <1>4, <2>1 DEF ReadByte, WakeupInv, TypeOK, EventsHaveBytes
  <2>4. QED
    BY <2>2, <2>3
<1>5. CASE TakeMessage
  BY <1>0, <1>5 DEF TakeMessage, WakeupInv, TypeOK, NoLostWakeup, FullPipeIsArmed, EventsHaveBytes
<1>6. CASE HandleMessage
  BY <1>0, <1>6 DEF HandleMessage, WakeupInv, TypeOK, NoLostWakeup, FullPipeIsArmed, EventsHaveBytes
<1>7. CASE DrainDone
  BY <1>0, <1>7 DEF DrainDone, WakeupInv, TypeOK, NoLostWakeup, FullPipeIsArmed, EventsHaveBytes
<1>8. CASE UNCHANGED vars
  BY <1>8 DEF vars, WakeupInv, NoLostWakeup, FullPipeIsArmed, EventsHaveBytes
<1>9. QED
  BY <1>0, <1>1, <1>2, <1>3, <1>4, <1>5, <1>6, <1>7, <1>8 DEF Next, IoStep

LEMMA WakeupInit == Init => WakeupInv
<1> SUFFICES ASSUME Init
             PROVE  WakeupInv
  OBVIOUS
<1> USE ChannelAssumption
<1>1. queue \in Seq(Conns) /\ Len(queue) = 0
  BY EmptySeq DEF Init
<1>2. TypeOK
  <2>1. wpc \in [Workers -> {"idle", "notify"}]
    BY DEF Init
  <2>2. pipe \in 0 .. PipeCapacity /\ Len(queue) <= MaxPending
    BY <1>1 DEF Init
  <2>3. QED
    BY <1>1, <2>1, <2>2 DEF Init, TypeOK
<1>3. NoLostWakeup /\ FullPipeIsArmed /\ EventsHaveBytes
  BY DEF Init, NoLostWakeup, FullPipeIsArmed, EventsHaveBytes
<1>4. QED
  BY <1>2, <1>3 DEF WakeupInv

\* The variables of the channel keep their types: the pipe never holds more bytes
\* than it has room for, the list never more messages than the bound.
THEOREM ChannelTypeTheorem == Spec => []TypeOK
<1>1. WakeupInv => TypeOK
  BY DEF WakeupInv
<1>2. QED
  BY <1>1, WakeupInit, WakeupStep, PTL DEF Spec

\* No message is ever left in an IO thread's list without something that will
\* make the IO thread look at it, whatever the number of workers and however
\* small the pipe: neither the one-byte read nor the silently failing write of
\* io_thread.c loses a wake-up.
THEOREM WakeupTheorem == Spec => [](TypeOK /\ NoLostWakeup)
<1>1. WakeupInv => TypeOK /\ NoLostWakeup
  BY DEF WakeupInv
<1>2. QED
  BY <1>1, WakeupInit, WakeupStep, PTL DEF Spec

\* A write to the message pipe that fails because the pipe is full is always
\* covered by an event that is pending or by a read that is about to happen.
THEOREM FullPipeTheorem == Spec => []FullPipeIsArmed
<1>1. WakeupInv => FullPipeIsArmed
  BY DEF WakeupInv
<1>2. QED
  BY <1>1, WakeupInit, WakeupStep, PTL DEF Spec

\* The one-byte read of io_thread_run always finds its byte, and leaves one for an
\* event that was raised while it was due.
THEOREM EventsHaveBytesTheorem == Spec => []EventsHaveBytes
<1>1. WakeupInv => EventsHaveBytes
  BY DEF WakeupInv
<1>2. QED
  BY <1>1, WakeupInit, WakeupStep, PTL DEF Spec

-----------------------------------------------------------------------------
\* Every step of the detailed channel posts one message, collects the oldest
\* one, or leaves the abstract mailbox alone: order is kept, and no message is
\* duplicated or dropped by the pipe protocol.
THEOREM ChannelRefinesMailbox == Spec => Abstract!SafeSpec
<1>1. Init => Abstract!Init
  BY DEF Init, Abstract!Init
<1>2. [Next]_vars => [Abstract!Next]_queue
  <2> SUFFICES ASSUME [Next]_vars
               PROVE  [Abstract!Next]_queue
    OBVIOUS
  <2>1. ASSUME NEW w \in Workers, NEW c \in Conns, Enqueue(w, c)
        PROVE  Abstract!Post(c)
    BY <2>1 DEF Enqueue, Abstract!Post
  <2>2. ASSUME NEW w \in Workers, Notify(w)
        PROVE  UNCHANGED queue
    BY <2>2 DEF Notify
  <2>3. ASSUME TakeMessage
        PROVE  Abstract!Collect
    BY <2>3 DEF TakeMessage, Abstract!Collect
  <2>4. ASSUME EventLoopWait \/ ReadByte \/ HandleMessage \/ DrainDone \/ UNCHANGED vars
        PROVE  UNCHANGED queue
    BY <2>4 DEF EventLoopWait, ReadByte, HandleMessage, DrainDone, vars
  <2>5. QED
    BY <2>1, <2>2, <2>3, <2>4 DEF Next, IoStep, Abstract!Next
<1>3. QED
  BY <1>1, <1>2, PTL DEF Spec, Abstract!SafeSpec
=============================================================================
