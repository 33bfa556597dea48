------------------------ MODULE SimpleReactorProofs ------------------------
(***************************************************************************)
(* Proofs about SimpleReactor, for any number of IO threads, workers,      *)
(* descriptors, slots and connections.                                     *)
(***************************************************************************)
EXTENDS SimpleReactor, TLAPS

USE DEF mainVars, ioVars

\* client_fd, between accept and io_thread_add_conn, is open and no IO thread can
\* reach it; OneReader alone says nothing of it.
AcceptedIsMain ==
    mpc = "add" => mfd \in Fds /\ sock[mfd] # None /\ \A i \in Io : mfd \notin Reach(i)

\* The event an IO thread handles is no longer in its batch.
HandledOnce ==
    \A i \in Io : /\ iopc[i] \in {"read", "del"} => iofd[i] \in Fds
                  /\ iopc[i] = "read" => iofd[i] \notin batch[i]

\* The inductive invariant.
ReactorInv == TypeOK /\ AcceptedIsMain /\ HandledOnce /\ OneReader

-----------------------------------------------------------------------------
\* The turn of the main thread stays within the IO threads.
LEMMA NextThread ==
    ASSUME NEW n \in Io
    PROVE  (n + 1) % NumIo \in Io
BY ReactorAssumption DEF Io

\* global_queue_add_task puts the request into a slot, or nowhere.
LEMMA AddTaskEffect ==
    ASSUME TypeOK, NEW c \in Conns, AddTask(c)
    PROVE  slot' \in [Slots -> Conns \cup {None}]
BY DEF TypeOK, AddTask

\* Every step keeps the types.
LEMMA ReactorTypeStep == ReactorInv /\ [Next]_vars => TypeOK'
<1> SUFFICES ASSUME ReactorInv, [Next]_vars
             PROVE  TypeOK'
  OBVIOUS
<1>0. TypeOK /\ HandledOnce
  BY DEF ReactorInv
<1> USE <1>0, ReactorAssumption
<1>1. ASSUME NEW f \in Fds, Accept(f)
      PROVE  TypeOK'
  <2>1. accepted' \in 0 .. MaxConns /\ accepted' \in Conns
    BY <1>1 DEF TypeOK, Accept, Conns
  <2>2. QED
    BY <1>1, <2>1 DEF TypeOK, Accept
<1>2. CASE AddConn
  <2>1. mfd \in Fds
    BY <1>2 DEF AddConn, ReactorInv, AcceptedIsMain
  <2>2. QED
    BY <1>2, <2>1, NextThread DEF TypeOK, AddConn
<1>3. CASE AddConnFails
  BY <1>3, NextThread DEF TypeOK, AddConnFails
<1>4. ASSUME NEW i \in Io, EpollWait(i)
      PROVE  TypeOK'
  BY <1>4 DEF TypeOK, EpollWait
<1>5. ASSUME NEW i \in Io, NEW f \in Fds, NextEvent(i, f)
      PROVE  TypeOK'
  BY <1>5 DEF TypeOK, NextEvent
<1>6. ASSUME NEW i \in Io, ReadData(i)
      PROVE  TypeOK'
  <2>1. sock[iofd[i]] \in Conns
    BY <1>6 DEF TypeOK, ReadData, HandledOnce
  <2>2. slot' \in [Slots -> Conns \cup {None}]
    BY <1>6, <2>1, AddTaskEffect DEF ReadData
  <2>3. QED
    BY <1>6, <2>2 DEF TypeOK, ReadData
<1>7. ASSUME NEW i \in Io, ReadAgain(i)
      PROVE  TypeOK'
  BY <1>7 DEF TypeOK, ReadAgain
<1>8. ASSUME NEW i \in Io, ReadClosed(i)
      PROVE  TypeOK'
  BY <1>8 DEF TypeOK, ReadClosed
<1>9. ASSUME NEW i \in Io, Delete(i)
      PROVE  TypeOK'
  BY <1>9 DEF TypeOK, Delete
<1>10. ASSUME NEW w \in Workers, GetTask(w)
       PROVE  TypeOK'
  BY <1>10 DEF TypeOK, GetTask
<1>11. ASSUME NEW w \in Workers, ProcessTask(w)
       PROVE  TypeOK'
  BY <1>11 DEF TypeOK, ProcessTask
<1>12. CASE UNCHANGED vars
  BY <1>12 DEF TypeOK, vars
<1>13. QED
  BY <1>1, <1>2, <1>3, <1>4, <1>5, <1>6, <1>7, <1>8, <1>9, <1>10, <1>11, <1>12
  DEF Next, IoStep, WorkerStep

\* A step after which no IO thread reaches more than before, and every descriptor
\* that was closed is out of reach, keeps OneReader.
LEMMA ReachShrinks ==
    ASSUME OneReader, \A i \in Io : Reach(i)' \subseteq Reach(i),
           \A i \in Io : \A f \in Reach(i)' : sock'[f] # None
    PROVE  OneReader'
<1>1. ASSUME NEW i \in Io, NEW j \in Io, Reach(i)' \cap Reach(j)' # {}
      PROVE  i = j
  BY <1>1 DEF OneReader
<1>2. QED
  BY <1>1 DEF OneReader

\* Descriptors: what the three groups of threads can reach stays open and apart.
LEMMA ReactorStep == ReactorInv /\ [Next]_vars => ReactorInv'
<1> SUFFICES ASSUME ReactorInv, [Next]_vars
             PROVE  ReactorInv'
  OBVIOUS
<1>0. TypeOK /\ TypeOK'
  BY ReactorTypeStep DEF ReactorInv
<1> SUFFICES AcceptedIsMain' /\ HandledOnce' /\ OneReader'
  BY <1>0 DEF ReactorInv
<1>a. AcceptedIsMain /\ HandledOnce /\ OneReader
  BY DEF ReactorInv
<1>b. /\ sock \in [Fds -> Conns \cup {None}] /\ iofd \in [Io -> Fds \cup {None}]
      /\ epoll \in [Io -> SUBSET Fds] /\ batch \in [Io -> SUBSET Fds]
      /\ iopc \in [Io -> {"wait", "read", "del"}]
  BY <1>0 DEF TypeOK
<1>1. ASSUME NEW f \in Fds, Accept(f)
      PROVE  AcceptedIsMain' /\ HandledOnce' /\ OneReader'
  <2>1. \A i \in Io : f \notin Reach(i)
    BY <1>a, <1>1 DEF Accept, OneReader
  <2>2. accepted' # None
    BY <1>0, <1>1 DEF Accept, TypeOK, None
  <2>3. \A i \in Io : Reach(i)' = Reach(i)
    BY <1>1 DEF Accept, Reach
  <2>4. \A g \in Fds : sock[g] # None => sock'[g] # None
    BY <1>b, <1>1, <2>2 DEF Accept
  <2>5. \A i \in Io : Reach(i) \subseteq Fds
    BY <1>a, <1>b DEF Reach, HandledOnce
  <2>6. OneReader'
    BY <1>a, <2>3, <2>4, <2>5, ReachShrinks DEF OneReader
  <2>7. AcceptedIsMain' /\ HandledOnce'
    BY <1>a, <1>b, <1>1, <2>1, <2>2, <2>3 DEF Accept, AcceptedIsMain, HandledOnce
  <2>8. QED
    BY <2>6, <2>7
<1>2. CASE AddConn
  <2>1. mfd \in Fds /\ sock[mfd] # None /\ \A i \in Io : mfd \notin Reach(i)
    BY <1>a, <1>2 DEF AddConn, AcceptedIsMain
  <2>2. \A i \in Io : Reach(i)' = IF i = current THEN Reach(i) \cup {mfd} ELSE Reach(i)
    BY <1>b, <1>2 DEF AddConn, Reach
  <2>3. sock' = sock /\ mpc' = "accept" /\ UNCHANGED <<iopc, iofd, batch>>
    BY <1>2 DEF AddConn
  <2>4. OneReader'
    <3>1. ASSUME NEW i \in Io, NEW f \in Reach(i)'
          PROVE  sock'[f] # None
      BY <1>a, <2>1, <2>2, <2>3, <3>1 DEF OneReader
    <3>2. ASSUME NEW i \in Io, NEW j \in Io, NEW f \in Reach(i)', f \in Reach(j)'
          PROVE  i = j
      BY <1>a, <2>1, <2>2, <3>2 DEF OneReader
    <3>3. QED
      BY <3>1, <3>2 DEF OneReader
  <2>5. QED
    BY <1>a, <2>3, <2>4 DEF AcceptedIsMain, HandledOnce
<1>3. CASE AddConnFails
  <2>1. mfd \in Fds /\ \A i \in Io : mfd \notin Reach(i)
    BY <1>a, <1>3 DEF AddConnFails, AcceptedIsMain
  <2>2. \A i \in Io : Reach(i)' = Reach(i)
    BY <1>3 DEF AddConnFails, Reach
  <2>3. \A i \in Io : \A f \in Reach(i) : sock'[f] # None
    BY <1>a, <1>b, <1>3, <2>1 DEF AddConnFails, OneReader, Reach, HandledOnce
  <2>4. OneReader'
    BY <1>a, <2>2, <2>3, ReachShrinks
  <2>5. QED
    BY <1>a, <1>3, <2>4 DEF AddConnFails, AcceptedIsMain, HandledOnce
<1>4. ASSUME NEW i \in Io, EpollWait(i) \/ ReadAgain(i) \/ Delete(i)
      PROVE  AcceptedIsMain' /\ HandledOnce' /\ OneReader'
  <2>1. \A j \in Io : Reach(j)' \subseteq Reach(j)
    BY <1>b, <1>4 DEF EpollWait, ReadAgain, Delete, Reach
  <2>2. UNCHANGED <<sock, mpc, mfd>>
    BY <1>4 DEF EpollWait, ReadAgain, Delete
  <2>3. HandledOnce'
    BY <1>a, <1>b, <1>4 DEF EpollWait, ReadAgain, Delete, HandledOnce
  <2>4. \A j \in Io : \A f \in Reach(j)' : sock'[f] # None
    BY <1>a, <2>1, <2>2 DEF OneReader
  <2>5. QED
    BY <1>a, <2>1, <2>2, <2>3, <2>4, ReachShrinks DEF AcceptedIsMain
<1>5. ASSUME NEW i \in Io, NEW f \in Fds, NextEvent(i, f)
      PROVE  AcceptedIsMain' /\ HandledOnce' /\ OneReader'
  <2>1. \A j \in Io : Reach(j)' \subseteq Reach(j)
    BY <1>b, <1>5 DEF NextEvent, Reach
  <2>2. UNCHANGED <<sock, mpc, mfd>>
    BY <1>5 DEF NextEvent
  <2>3. HandledOnce'
    BY <1>a, <1>b, <1>5 DEF NextEvent, HandledOnce
  <2>4. \A j \in Io : \A g \in Reach(j)' : sock'[g] # None
    BY <1>a, <2>1, <2>2 DEF OneReader
  <2>5. QED
    BY <1>a, <2>1, <2>2, <2>3, <2>4, ReachShrinks DEF AcceptedIsMain
<1>6. ASSUME NEW i \in Io, ReadData(i)
      PROVE  AcceptedIsMain' /\ HandledOnce' /\ OneReader'
  BY <1>a, <1>6 DEF ReadData, AcceptedIsMain, HandledOnce, OneReader, Reach
<1>7. ASSUME NEW i \in Io, ReadClosed(i)
      PROVE  AcceptedIsMain' /\ HandledOnce' /\ OneReader'
  \* The descriptor that is closed is gone from every epoll set, and no other
  \* thread had an event of it.
  <2>1. iofd[i] \in Fds /\ iofd[i] \in Reach(i) /\ iofd[i] \notin batch[i]
    BY <1>a, <1>7 DEF ReadClosed, HandledOnce, Reach
  <2>2. \A j \in Io : j # i => iofd[i] \notin Reach(j)
    BY <1>a, <2>1 DEF OneReader
  <2>3. \A j \in Io : Reach(j)' \subseteq Reach(j) \ {iofd[i]}
    BY <1>b, <1>7, <2>1, <2>2 DEF ReadClosed, Reach
  <2>4. \A g \in Fds : g # iofd[i] => sock'[g] = sock[g]
    BY <1>b, <1>7 DEF ReadClosed
  <2>5. \A j \in Io : Reach(j) \subseteq Fds
    BY <1>a, <1>b DEF Reach, HandledOnce
  <2>6. \A j \in Io : \A g \in Reach(j)' : sock'[g] # None
    BY <1>a, <2>3, <2>4, <2>5 DEF OneReader
  <2>7. OneReader'
    BY <1>a, <2>3, <2>6, ReachShrinks
  <2>8. AcceptedIsMain'
    BY <1>a, <1>7, <2>1, <2>3, <2>4 DEF ReadClosed, AcceptedIsMain
  <2>9. HandledOnce'
    BY <1>a, <1>b, <1>7 DEF ReadClosed, HandledOnce
  <2>10. QED
    BY <2>7, <2>8, <2>9
<1>8. ASSUME NEW w \in Workers, WorkerStep(w)
      PROVE  AcceptedIsMain' /\ HandledOnce' /\ OneReader'
  BY <1>a, <1>8 DEF WorkerStep, GetTask, ProcessTask, AcceptedIsMain, HandledOnce, OneReader,
                    Reach
<1>9. CASE UNCHANGED vars
  BY <1>a, <1>9 DEF vars, AcceptedIsMain, HandledOnce, OneReader, Reach
<1>10. QED
  BY <1>1, <1>2, <1>3, <1>4, <1>5, <1>6, <1>7, <1>8, <1>9 DEF Next, IoStep

\* The server starts without a connection.
LEMMA ReactorInit == Init => ReactorInv
<1> SUFFICES ASSUME Init
             PROVE  ReactorInv
  OBVIOUS
<1>1. TypeOK
  BY ReactorAssumption DEF Init, TypeOK, Io
<1>2. AcceptedIsMain /\ HandledOnce /\ OneReader
  BY DEF Init, AcceptedIsMain, HandledOnce, OneReader, Reach
<1>3. QED
  BY <1>1, <1>2 DEF ReactorInv

-----------------------------------------------------------------------------
\* Every variable keeps its type; current, in particular, always names an IO thread.
THEOREM ReactorTypeTheorem == Spec => []TypeOK
<1>1. ReactorInv => TypeOK
  BY DEF ReactorInv
<1>2. QED
  BY <1>1, ReactorInit, ReactorStep, PTL DEF Spec

\* Although events carry bare numbers and the main thread registers connections in
\* epoll sets that other threads are using, no IO thread ever reads or closes a
\* descriptor that has passed to another connection.
THEOREM OneReaderTheorem == Spec => []OneReader
<1>1. ReactorInv => OneReader
  BY DEF ReactorInv
<1>2. QED
  BY <1>1, ReactorInit, ReactorStep, PTL DEF Spec
=============================================================================
