--------------------- MODULE ConnectionLifecycleProofs ---------------------
(***************************************************************************)
(* Proofs about ConnectionLifecycle, for any number of connections,        *)
(* descriptors and workers, any capacity of the pipe and any number of     *)
(* requests, with and without failing allocations.                         *)
(*                                                                         *)
(* All of it rests on one inductive invariant, and that on one assumption: *)
(* the conn_is_valid io_thread_run calls after a handler, on a block that  *)
(* the handler may just have freed, does not take that block for a valid   *)
(* connection (FreedReads).                                                *)
(***************************************************************************)
EXTENDS ConnectionLifecycle, SequenceTheorems, FiniteSetTheorems, TLAPS

USE DEF connVars, kernelVars, inboxVars, workerVars, ioVars, mainVars, countVars

\* client_fd is open until accept_connections hands it over or closes it, and
\* nobody else knows its number.
MainHolds ==
    /\ mpc = "accept" => mfd = NoFd
    /\ mpc \in {"add", "close"} =>
          mfd \in Fds /\ reg[mfd] = NoReg /\ \A c \in Conns : fd[c] # mfd
    /\ mpc = "add" => mfd \in open

\* conn_mark_closing sets closing and forgets the descriptor in one step.
Blocks ==
    \A c \in Conns :
        /\ mem[c] = "none" => ~closing[c] /\ lost[c] = 0
        /\ closing[c] => fd[c] = NoFd
        /\ mem[c] = "live" /\ ~closing[c] => fd[c] \in Fds

\* The epoll set names connections under their own descriptors; a batch names
\* connections that are still registered.
EpollNames ==
    \A f \in Fds : \/ reg[f] = NoReg
                   \/ /\ reg[f].conn \in Conns
                      /\ fd[reg[f].conn] = f
                      /\ ~InInbox(reg[f].conn)
BatchNames ==
    \A c \in Conns : batch[c] # {} => mem[c] = "live" /\ ~closing[c] /\ ~InInbox(c)

\* A pointer is in the pipe once, and nobody has used it yet.
InboxDistinct == \A i, j \in 1 .. Len(inbox) : inbox[i] = inbox[j] => i = j
InboxFresh ==
    \A c \in Conns : InInbox(c) =>
        /\ mem[c] = "live" /\ ~closing[c]
        /\ tasks[c] = 0 /\ msgs[c] = 0 /\ lost[c] = 0
        /\ \A w \in Workers : wconn[w] # c
        /\ iopc \in {"wait", "dispatch"} \/ iocur # c

\* What a worker and the IO thread hold at each point of their code.
WorkerHolds == \A w \in Workers : wpc[w] = "idle" <=> wconn[w] = NoConn
IoHolds ==
    /\ iopc \notin {"wait", "dispatch"} => iocur \in Conns /\ mem[iocur] # "none"
    /\ iopc \in {"handle", "mark", "del", "release", "check"} => batch[iocur] = {}
    /\ iopc \in {"handle", "mark"} => mem[iocur] = "live" /\ ~closing[iocur] /\ iofd = fd[iocur]
    /\ iopc = "check" /\ mem[iocur] = "live" /\ ~closing[iocur] => iofd = fd[iocur]
    /\ iopc \in {"del", "release"} => mem[iocur] = "live" /\ closing[iocur]
    /\ iopc = "del" => iofd \in Fds /\ reg[iofd] = NoReg
    /\ iopc = "message" => mem[iocur] = "live"

\* No task, message or worker names a block that is not allocated.
NoUser ==
    \A c \in Conns : mem[c] # "live" => /\ tasks[c] = 0 /\ msgs[c] = 0
                                        /\ \A w \in Workers : wconn[w] # c

\* The inductive invariant.
LifeInv ==
    /\ TypeOK /\ MainHolds /\ Blocks /\ EpollNames /\ BatchNames
    /\ InboxDistinct /\ InboxFresh /\ WorkerHolds /\ IoHolds /\ NoUser
    /\ FdOwnership /\ NoOrphan /\ RefsExact

-----------------------------------------------------------------------------
\* The number of workers that hold a pointer to c.
Holders(c) == Cardinality(HeldByWorkers(c))

\* It is a number, before and after every step, and zero exactly when no worker
\* holds one.
LEMMA HoldersType ==
    ASSUME NEW c \in Conns
    PROVE  /\ Holders(c) \in Nat /\ (Holders(c) = 0 <=> \A w \in Workers : wconn[w] # c)
           /\ Holders(c)' \in Nat /\ (Holders(c)' = 0 <=> \A w \in Workers : wconn'[w] # c)
           /\ wconn' = wconn => Holders(c)' = Holders(c)
<1>1. HeldByWorkers(c) \subseteq Workers /\ HeldByWorkers(c)' \subseteq Workers
  BY DEF HeldByWorkers
<1>2. IsFiniteSet(HeldByWorkers(c)) /\ IsFiniteSet(HeldByWorkers(c)')
  BY <1>1, FS_Subset, LifecycleAssumption
<1>3. QED
  BY <1>2, FS_CardinalityType, FS_EmptySet DEF Holders, HeldByWorkers

\* A worker that takes a task of c is one holder more, of c only.
LEMMA HoldersTake ==
    ASSUME TypeOK, NEW c \in Conns, NEW w \in Workers, wconn[w] = NoConn,
           wconn' = [wconn EXCEPT ![w] = c]
    PROVE  \A b \in Conns : Holders(b)' = IF b = c THEN Holders(b) + 1 ELSE Holders(b)
<1> USE LifecycleAssumption
<1> SUFFICES ASSUME NEW b \in Conns
             PROVE  Holders(b)' = IF b = c THEN Holders(b) + 1 ELSE Holders(b)
  OBVIOUS
<1>0. wconn \in [Workers -> Conns \cup {NoConn}]
  BY DEF TypeOK
<1>1. IsFiniteSet(HeldByWorkers(b))
  BY FS_Subset DEF HeldByWorkers
<1>2. CASE b = c
  <2>1. HeldByWorkers(b)' = HeldByWorkers(b) \cup {w} /\ w \notin HeldByWorkers(b)
    <3>1. wconn[w] # b /\ \A v \in Workers : wconn'[v] = b <=> wconn[v] = b \/ v = w
      BY <1>0, <1>2
    <3>2. QED
      BY <3>1 DEF HeldByWorkers
  <2>2. QED
    BY <1>1, <1>2, <2>1, FS_AddElement DEF Holders
<1>3. CASE b # c
  <2>1. \A v \in Workers : wconn'[v] = b <=> wconn[v] = b
    BY <1>0, <1>3
  <2>2. HeldByWorkers(b)' = HeldByWorkers(b)
    BY <2>1 DEF HeldByWorkers
  <2>3. QED
    BY <1>3, <2>2 DEF Holders
<1>4. QED
  BY <1>2, <1>3

\* A worker that is done with its task is one holder less, of that connection only.
LEMMA HoldersDrop ==
    ASSUME TypeOK, NEW w \in Workers, wconn[w] \in Conns,
           wconn' = [wconn EXCEPT ![w] = NoConn]
    PROVE  \A b \in Conns :
              Holders(b)' = IF b = wconn[w] THEN Holders(b) - 1 ELSE Holders(b)
<1> USE LifecycleAssumption
<1> SUFFICES ASSUME NEW b \in Conns
             PROVE  Holders(b)' = IF b = wconn[w] THEN Holders(b) - 1 ELSE Holders(b)
  OBVIOUS
<1>0. wconn \in [Workers -> Conns \cup {NoConn}]
  BY DEF TypeOK
<1>1. IsFiniteSet(HeldByWorkers(b))
  BY FS_Subset DEF HeldByWorkers
<1>2. CASE b = wconn[w]
  <2>1. HeldByWorkers(b)' = HeldByWorkers(b) \ {w} /\ w \in HeldByWorkers(b)
    <3>1. wconn[w] = b /\ \A v \in Workers : wconn'[v] = b <=> wconn[v] = b /\ v # w
      BY <1>0, <1>2
    <3>2. QED
      BY <3>1 DEF HeldByWorkers
  <2>2. Cardinality(HeldByWorkers(b) \ {w}) = Cardinality(HeldByWorkers(b)) - 1
    BY <1>1, <2>1, FS_RemoveElement
  <2>3. QED
    BY <1>2, <2>1, <2>2 DEF Holders
<1>3. CASE b # wconn[w]
  <2>1. \A v \in Workers : wconn'[v] = b <=> wconn[v] = b
    BY <1>0, <1>3
  <2>2. HeldByWorkers(b)' = HeldByWorkers(b)
    BY <2>1 DEF HeldByWorkers
  <2>3. QED
    BY <1>3, <2>2 DEF Holders
<1>4. QED
  BY <1>2, <1>3

\* Writing a pointer to the pipe adds that connection to those that wait in it.
LEMMA InboxAppend ==
    ASSUME TypeOK, NEW c \in Conns, inbox' = Append(inbox, c)
    PROVE  /\ inbox' \in Seq(Conns)
           /\ \A b \in Conns : InInbox(b)' <=> InInbox(b) \/ b = c
           /\ InboxDistinct /\ ~InInbox(c) => InboxDistinct'
<1>1. inbox \in Seq(Conns) /\ Len(inbox) \in Nat
  BY DEF TypeOK
<1>2. /\ inbox' \in Seq(Conns) /\ Len(inbox') = Len(inbox) + 1
      /\ \A i \in 1 .. Len(inbox) : inbox'[i] = inbox[i]
      /\ inbox'[Len(inbox) + 1] = c
  BY <1>1, AppendProperties
<1>3. \A b \in Conns : InInbox(b)' <=> InInbox(b) \/ b = c
  BY <1>1, <1>2 DEF InInbox
<1>4. InboxDistinct /\ ~InInbox(c) => InboxDistinct'
  BY <1>1, <1>2 DEF InInbox, InboxDistinct
<1>5. QED
  BY <1>2, <1>3, <1>4

\* Reading a pointer takes that connection out of the pipe, and it is not a second
\* time in it.
LEMMA InboxTail ==
    ASSUME TypeOK, InboxDistinct, inbox # <<>>, inbox' = Tail(inbox)
    PROVE  /\ Head(inbox) \in Conns /\ InInbox(Head(inbox))
           /\ inbox' \in Seq(Conns) /\ InboxDistinct'
           /\ \A b \in Conns : InInbox(b)' <=> InInbox(b) /\ b # Head(inbox)
<1>1. inbox \in Seq(Conns) /\ Len(inbox) \in Nat /\ Len(inbox) >= 1
  BY EmptySeq, LenProperties DEF TypeOK
<1>2. /\ Head(inbox) \in Conns /\ Head(inbox) = inbox[1]
      /\ inbox' \in Seq(Conns) /\ Len(inbox') = Len(inbox) - 1
      /\ \A i \in 1 .. Len(inbox') : inbox'[i] = inbox[i + 1]
  BY <1>1, HeadTailProperties
<1>3. InInbox(Head(inbox))
  BY <1>1, <1>2 DEF InInbox
<1>4. InboxDistinct'
  BY <1>1, <1>2 DEF InboxDistinct
<1>5. ASSUME NEW b \in Conns
      PROVE  InInbox(b)' <=> InInbox(b) /\ b # Head(inbox)
  <2>1. ASSUME InInbox(b)'
        PROVE  InInbox(b) /\ b # Head(inbox)
    <3>1. PICK i \in 1 .. Len(inbox') : inbox'[i] = b
      BY <2>1 DEF InInbox
    <3>2. i + 1 \in 1 .. Len(inbox) /\ inbox[i + 1] = b /\ i + 1 # 1
      BY <1>1, <1>2, <3>1
    <3>3. QED
      BY <1>1, <1>2, <3>2 DEF InInbox, InboxDistinct
  <2>2. ASSUME InInbox(b), b # Head(inbox)
        PROVE  InInbox(b)'
    <3>1. PICK i \in 1 .. Len(inbox) : inbox[i] = b
      BY <2>2 DEF InInbox
    <3>2. i # 1
      BY <1>2, <2>2, <3>1
    <3>3. i - 1 \in 1 .. Len(inbox') /\ inbox'[i - 1] = b
      BY <1>1, <1>2, <3>1, <3>2
    <3>4. QED
      BY <3>3 DEF InInbox
  <2>3. QED
    BY <2>1, <2>2
<1>6. QED
  BY <1>2, <1>3, <1>4, <1>5

-----------------------------------------------------------------------------
\* The references to c that somebody will release, or that are lost.
Owed(c) == BaseRef(c) + MessageRef(c) + tasks[c] + msgs[c] + Holders(c) + lost[c]

\* RefsExact in terms of it.
LEMMA RefsOwed ==
    /\ RefsExact <=> \A c \in Conns : mem[c] = "live" => ref[c] = Owed(c)
    /\ RefsExact' <=> \A c \in Conns : mem'[c] = "live" => ref'[c] = Owed(c)'
BY DEF RefsExact, Owed, Holders

\* conn_release by somebody who is not the last one to know a connection that is
\* still open: no descriptor is touched.  What the worker and the message loop
\* call is always of this kind.
LEMMA ReleaseShared ==
    ASSUME TypeOK, Blocks, NEW c \in Conns, Release(c), closing[c] \/ ref[c] > 1
    PROVE  /\ UNCHANGED <<closing, fd, open, reg>>
           /\ ref' = [ref EXCEPT ![c] = @ - 1]
           /\ mem' = IF ref[c] <= 1 THEN [mem EXCEPT ![c] = "freed"] ELSE mem
<1> USE LifecycleAssumption
<1>1. ref[c] \in Int /\ ref' = [ref EXCEPT ![c] = @ - 1] /\ closing' = closing
  BY DEF TypeOK, Release
<1>2. CASE ref[c] > 1
  BY <1>1, <1>2 DEF Release
<1>3. CASE ref[c] <= 1
  <2>1. fd[c] = NoFd
    BY <1>1, <1>3 DEF Blocks
  <2>2. mem' = [mem EXCEPT ![c] = "freed"] /\ fd' = [fd EXCEPT ![c] = NoFd] /\ Close(fd[c])
    BY <1>1, <1>3 DEF Release
  <2>3. fd' = fd
    BY <2>1, <2>2 DEF TypeOK
  <2>4. open' = open /\ reg' = reg
    <3>1. /\ NoFd \notin Fds /\ open \subseteq Fds
          /\ reg \in [Fds -> [conn : Conns \cup {NoConn}, want : {"read", "write"}]]
      BY DEF TypeOK
    <3>2. QED
      BY <2>1, <2>2, <3>1 DEF Close
  <2>5. QED
    BY <1>1, <1>3, <2>2, <2>3, <2>4
<1>4. QED
  BY <1>1, <1>2, <1>3

\* What it is the sum of are numbers.
LEMMA OwedBounds ==
    ASSUME TypeOK, NEW c \in Conns
    PROVE  /\ Holders(c) \in Nat
           /\ BaseRef(c) \in 0 .. 1 /\ MessageRef(c) \in 0 .. 1
           /\ tasks[c] \in Nat /\ msgs[c] \in Nat /\ lost[c] \in Nat
<1>1. Holders(c) \in Nat
  BY HoldersType
<1>2. BaseRef(c) \in 0 .. 1 /\ MessageRef(c) \in 0 .. 1
  BY DEF BaseRef, MessageRef
<1>3. QED
  BY <1>1, <1>2 DEF TypeOK

\* A worker that calls task_destroy never closes a descriptor: its connection has
\* another reference, or conn_mark_closing has closed the descriptor before.
LEMMA WorkerRelease ==
    ASSUME LifeInv, NEW w \in Workers, WorkerDestroy(w)
    PROVE  /\ wconn[w] \in Conns /\ mem[wconn[w]] = "live"
           /\ UNCHANGED <<closing, fd, open, reg>>
           /\ ref' = [ref EXCEPT ![wconn[w]] = @ - 1]
           /\ mem' = IF ref[wconn[w]] <= 1 THEN [mem EXCEPT ![wconn[w]] = "freed"] ELSE mem
           /\ ref[wconn[w]] = Owed(wconn[w]) /\ Holders(wconn[w]) >= 1
           /\ closing[wconn[w]] \/ ref[wconn[w]] > 1
<1>1. wconn[w] \in Conns
  BY DEF WorkerDestroy, LifeInv, TypeOK, WorkerHolds
<1>2. mem[wconn[w]] = "live"
  BY <1>1 DEF LifeInv, NoUser
<1>3. Holders(wconn[w]) \in Nat /\ Holders(wconn[w]) # 0
  BY <1>1, HoldersType
<1>4. ref[wconn[w]] = Owed(wconn[w])
  BY <1>1, <1>2, RefsOwed DEF LifeInv
<1>5. closing[wconn[w]] \/ ref[wconn[w]] > 1
  BY <1>1, <1>3, <1>4, OwedBounds DEF LifeInv, Owed, BaseRef
<1>6. QED
  BY <1>1, <1>2, <1>3, <1>4, <1>5, ReleaseShared DEF LifeInv, WorkerDestroy

\* The same for the message loop of the IO thread.
LEMMA MessageReleased ==
    ASSUME LifeInv, MessageRelease
    PROVE  /\ iocur \in Conns /\ mem[iocur] = "live"
           /\ UNCHANGED <<closing, fd, open, reg>>
           /\ ref' = [ref EXCEPT ![iocur] = @ - 1]
           /\ mem' = IF ref[iocur] <= 1 THEN [mem EXCEPT ![iocur] = "freed"] ELSE mem
           /\ ref[iocur] = Owed(iocur) /\ MessageRef(iocur) = 1
           /\ closing[iocur] \/ ref[iocur] > 1
<1>1. iocur \in Conns /\ mem[iocur] = "live" /\ MessageRef(iocur) = 1
  BY DEF MessageRelease, LifeInv, IoHolds, MessageRef
<1>2. ref[iocur] = Owed(iocur)
  BY <1>1, RefsOwed DEF LifeInv
<1>3. closing[iocur] \/ ref[iocur] > 1
  BY <1>1, <1>2, OwedBounds DEF LifeInv, Owed, BaseRef
<1>4. QED
  BY <1>1, <1>2, <1>3, ReleaseShared DEF LifeInv, MessageRelease

\* The same for the last of the three calls that close a connection.
LEMMA BaseReleased ==
    ASSUME LifeInv, ReleaseBase
    PROVE  /\ iocur \in Conns /\ mem[iocur] = "live" /\ closing[iocur]
           /\ UNCHANGED <<closing, fd, open, reg>>
           /\ ref' = [ref EXCEPT ![iocur] = @ - 1]
           /\ mem' = IF ref[iocur] <= 1 THEN [mem EXCEPT ![iocur] = "freed"] ELSE mem
           /\ ref[iocur] = Owed(iocur) /\ BaseRef(iocur) = 1
<1>1. iocur \in Conns /\ mem[iocur] = "live" /\ closing[iocur] /\ BaseRef(iocur) = 1
  BY DEF ReleaseBase, LifeInv, IoHolds, BaseRef
<1>2. ref[iocur] = Owed(iocur)
  BY <1>1, RefsOwed DEF LifeInv
<1>3. QED
  BY <1>1, <1>2, ReleaseShared DEF LifeInv, ReleaseBase

\* A connection that event_loop_add refuses has its first reference only: it is
\* freed, and its descriptor is closed.
LEMMA HeadReleased ==
    ASSUME LifeInv, InboxAddFails
    PROVE  LET c == Head(inbox) IN
           /\ c \in Conns /\ mem[c] = "live" /\ ~closing[c] /\ InInbox(c) /\ fd[c] \in Fds
           /\ ref[c] = 1 /\ ref' = [ref EXCEPT ![c] = 0] /\ closing' = closing
           /\ mem' = [mem EXCEPT ![c] = "freed"] /\ fd' = [fd EXCEPT ![c] = NoFd]
           /\ open' = open \ {fd[c]} /\ reg' = [reg EXCEPT ![fd[c]] = NoReg]
<1> DEFINE c == Head(inbox)
<1>1. c \in Conns /\ InInbox(c)
  BY InboxTail DEF LifeInv, InboxAddFails
<1>2. /\ mem[c] = "live" /\ ~closing[c] /\ fd[c] \in Fds
      /\ tasks[c] = 0 /\ msgs[c] = 0 /\ lost[c] = 0 /\ \A w \in Workers : wconn[w] # c
      /\ iopc = "dispatch"
  BY <1>1 DEF LifeInv, InboxFresh, Blocks, InboxAddFails
<1>3. Holders(c) = 0 /\ MessageRef(c) = 0 /\ BaseRef(c) = 1
  BY <1>1, <1>2, HoldersType DEF MessageRef, BaseRef
<1>4. ref[c] = 1
  BY <1>1, <1>2, <1>3, RefsOwed DEF LifeInv, Owed
<1>5. QED
  BY <1>1, <1>2, <1>4 DEF InboxAddFails, Release, Close

-----------------------------------------------------------------------------
\* Every step keeps the types.
LEMMA LifeTypeStep == LifeInv /\ [Next]_vars => TypeOK'
<1> SUFFICES ASSUME LifeInv, [Next]_vars
             PROVE  TypeOK'
  OBVIOUS
<1>0. TypeOK
  BY DEF LifeInv
<1> USE <1>0, LifecycleAssumption
<1>1. ASSUME NEW f \in Fds, Accept(f)
      PROVE  TypeOK'
  BY <1>1 DEF TypeOK, Accept
<1>2. ASSUME NEW c \in Conns, AddConnection(c)
      PROVE  TypeOK'
  <2>1. inbox' \in Seq(Conns)
    BY <1>2, InboxAppend DEF AddConnection
  <2>2. mem' \in [Conns -> {"none", "live", "freed"}] /\ ref' \in [Conns -> Int]
    BY <1>2 DEF TypeOK, AddConnection
  <2>3. fd' \in [Conns -> Fds \cup {NoFd}]
    BY <1>2 DEF TypeOK, AddConnection
  <2>4. QED
    BY <1>2, <2>1, <2>2, <2>3 DEF TypeOK, AddConnection
<1>3. CASE AddRefused
  <2>1. reg' \in [Fds -> [conn : Conns \cup {NoConn}, want : {"read", "write"}]]
    BY <1>3 DEF TypeOK, AddRefused, Close, NoReg
  <2>2. QED
    BY <1>3, <2>1 DEF TypeOK, AddRefused, Close
<1>4. CASE CloseClient
  <2>1. reg' \in [Fds -> [conn : Conns \cup {NoConn}, want : {"read", "write"}]]
    BY <1>4 DEF TypeOK, CloseClient, Close, NoReg
  <2>2. QED
    BY <1>4, <2>1 DEF TypeOK, CloseClient, Close
<1>5. CASE CreateFails
  BY <1>5 DEF TypeOK, CreateFails
<1>6. ASSUME NEW w \in Workers, NEW c \in Conns, WorkerTake(w, c)
      PROVE  TypeOK'
  <2>1. tasks' \in [Conns -> Nat]
    BY <1>6 DEF TypeOK, WorkerTake
  <2>2. QED
    BY <1>6, <2>1 DEF TypeOK, WorkerTake
<1>7. ASSUME NEW w \in Workers, WorkerCheck(w) \/ WorkerSendFails(w)
      PROVE  TypeOK'
  <2>1. wpc' \in [Workers -> {"idle", "check", "process", "send", "destroy"}]
    <3>1. wpc \in [Workers -> {"idle", "check", "process", "send", "destroy"}]
      BY DEF TypeOK
    <3>2. CASE WorkerCheck(w)
      BY <3>1, <3>2 DEF WorkerCheck
    <3>3. CASE WorkerSendFails(w)
      BY <3>1, <3>3 DEF WorkerSendFails
    <3>4. QED
      BY <1>7, <3>2, <3>3
  <2>2. UNCHANGED <<connVars, kernelVars, inboxVars, tasks, msgs, wconn, ioVars, mainVars, countVars>>
    BY <1>7 DEF WorkerCheck, WorkerSendFails
  <2>3. QED
    BY <2>1, <2>2 DEF TypeOK
<1>8. ASSUME NEW w \in Workers, WorkerSend(w)
      PROVE  TypeOK'
  <2>1. PICK c \in Conns : wconn[w] = c
    BY <1>8 DEF TypeOK, LifeInv, WorkerHolds, WorkerSend
  <2>2. ref' = [ref EXCEPT ![c] = ref[c] + 1] /\ msgs' = [msgs EXCEPT ![c] = msgs[c] + 1]
    BY <1>8, <2>1 DEF WorkerSend
  <2>3. ref' \in [Conns -> Int] /\ msgs' \in [Conns -> Nat]
    <3>1. ref \in [Conns -> Int] /\ msgs \in [Conns -> Nat]
      BY DEF TypeOK
    <3>2. ref[c] + 1 \in Int /\ msgs[c] + 1 \in Nat
      BY <3>1
    <3>3. QED
      BY <2>2, <3>1, <3>2
  <2>4. QED
    BY <1>8, <2>3 DEF TypeOK, WorkerSend
<1>9. ASSUME NEW w \in Workers, WorkerDestroy(w)
      PROVE  TypeOK'
  <2>1. mem' \in [Conns -> {"none", "live", "freed"}] /\ ref' \in [Conns -> Int]
    <3>1. mem \in [Conns -> {"none", "live", "freed"}] /\ ref \in [Conns -> Int]
      BY DEF TypeOK
    <3>2. PICK c \in Conns : /\ ref' = [ref EXCEPT ![c] = ref[c] - 1]
                             /\ mem' = mem \/ mem' = [mem EXCEPT ![c] = "freed"]
      BY <1>9, WorkerRelease
    <3>3. ref[c] - 1 \in Int
      BY <3>1
    <3>4. QED
      BY <3>1, <3>2, <3>3
  <2>2. UNCHANGED <<closing, fd, open, reg>>
    BY <1>9, WorkerRelease
  <2>3. QED
    BY <1>9, <2>1, <2>2 DEF TypeOK, WorkerDestroy
<1>10. CASE EventLoopWait
  BY <1>10 DEF TypeOK, EventLoopWait
<1>11. CASE BatchDone
  BY <1>11 DEF TypeOK, BatchDone
<1>12. CASE InboxAdd
  <2>1. Head(inbox) \in Conns /\ inbox' \in Seq(Conns)
    BY <1>12, InboxTail DEF InboxAdd, LifeInv
  <2>2. reg' \in [Fds -> [conn : Conns \cup {NoConn}, want : {"read", "write"}]]
    BY <1>12, <2>1 DEF TypeOK, InboxAdd
  <2>3. QED
    BY <1>12, <2>1, <2>2 DEF TypeOK, InboxAdd
<1>13. CASE InboxAddFails
  <2>1. inbox' \in Seq(Conns)
    BY <1>13, InboxTail DEF InboxAddFails, LifeInv
  <2>2. /\ mem' \in [Conns -> {"none", "live", "freed"}] /\ closing' = closing
        /\ fd' \in [Conns -> Fds \cup {NoFd}] /\ open' \subseteq Fds
    BY <1>13, HeadReleased DEF TypeOK
  <2>3. reg' \in [Fds -> [conn : Conns \cup {NoConn}, want : {"read", "write"}]]
    BY <1>13, HeadReleased DEF TypeOK, NoReg
  <2>4. ref' \in [Conns -> Int]
    BY <1>13, HeadReleased DEF TypeOK
  <2>5. QED
    BY <1>13, <2>1, <2>2, <2>3, <2>4 DEF TypeOK, InboxAddFails
<1>14. ASSUME NEW c \in Conns, MessageTake(c)
       PROVE  TypeOK'
  <2>1. reg' \in [Fds -> [conn : Conns \cup {NoConn}, want : {"read", "write"}]]
    <3>1. reg \in [Fds -> [conn : Conns \cup {NoConn}, want : {"read", "write"}]]
      BY DEF TypeOK
    <3>2. reg' = reg \/ (fd[c] \in Fds /\ reg' = [reg EXCEPT ![fd[c]] = [conn |-> c, want |-> "write"]])
      BY <1>14 DEF MessageTake, Modify
    <3>3. QED
      BY <3>1, <3>2
  <2>2. msgs' \in [Conns -> Nat]
    BY <1>14 DEF TypeOK, MessageTake
  <2>3. QED
    BY <1>14, <2>1, <2>2 DEF TypeOK, MessageTake
<1>15. ASSUME NEW c \in Conns, ConnectionEvent(c)
       PROVE  TypeOK'
  <2>1. batch' \in [Conns -> SUBSET Bits]
    BY <1>15 DEF TypeOK, ConnectionEvent
  <2>2. /\ iopc' \in {iopc, "handle"} /\ iocur' \in {iocur, c}
        /\ iomask' \in {iomask, batch[c]} /\ iofd' \in {iofd, fd[c]}
    BY <1>15 DEF ConnectionEvent
  <2>3. UNCHANGED <<connVars, kernelVars, inboxVars, tasks, msgs, workerVars, pipes, mainVars,
                    countVars>>
    BY <1>15 DEF ConnectionEvent
  <2>4. /\ iopc' \in {"wait", "dispatch", "handle", "mark", "del", "release", "check", "message"}
        /\ iocur' \in Conns \cup {NoConn} /\ iofd' \in Fds \cup {NoFd} /\ iomask' \subseteq Bits
    BY <2>2 DEF TypeOK
  <2>5. QED
    BY <2>1, <2>3, <2>4 DEF TypeOK
<1>16. CASE MessageRelease
  <2>1. mem' \in [Conns -> {"none", "live", "freed"}] /\ ref' \in [Conns -> Int]
    <3>1. mem \in [Conns -> {"none", "live", "freed"}] /\ ref \in [Conns -> Int]
      BY DEF TypeOK
    <3>2. /\ iocur \in Conns /\ ref' = [ref EXCEPT ![iocur] = ref[iocur] - 1]
          /\ mem' = mem \/ mem' = [mem EXCEPT ![iocur] = "freed"]
      BY <1>16, MessageReleased
    <3>3. ref[iocur] - 1 \in Int
      BY <3>1, <3>2
    <3>4. QED
      BY <3>1, <3>2, <3>3
  <2>2. UNCHANGED <<closing, fd, open, reg>>
    BY <1>16, MessageReleased
  <2>3. QED
    BY <1>16, <2>1, <2>2 DEF TypeOK, MessageRelease
<1>17. CASE MessagesDone
  BY <1>17 DEF TypeOK, MessagesDone
<1>18. CASE ReadRequest
  <2>0. iocur \in Conns
    BY <1>18 DEF LifeInv, IoHolds, ReadRequest, Handling
  <2>1. ref' \in [Conns -> Int]
    BY <1>18, <2>0 DEF TypeOK, ReadRequest
  <2>2. tasks' \in [Conns -> Nat] /\ reads' \in Nat
    <3>1. tasks \in [Conns -> Nat] /\ reads \in Nat
      BY DEF TypeOK
    <3>2. QED
      BY <1>18, <2>0, <3>1 DEF ReadRequest
  <2>3. QED
    BY <1>18, <2>1, <2>2 DEF TypeOK, ReadRequest
<1>19. CASE ReadRequestFails
  <2>0. iocur \in Conns
    BY <1>19 DEF LifeInv, IoHolds, ReadRequestFails, Handling
  <2>1. ref' \in [Conns -> Int]
    BY <1>19, <2>0 DEF TypeOK, ReadRequestFails
  <2>2. lost' \in [Conns -> Nat] /\ reads' \in Nat
    <3>1. lost \in [Conns -> Nat] /\ reads \in Nat
      BY DEF TypeOK
    <3>2. QED
      BY <1>19, <2>0, <3>1 DEF ReadRequestFails
  <2>3. QED
    BY <1>19, <2>1, <2>2 DEF TypeOK, ReadRequestFails
<1>20. CASE ReadAgain \/ WriteAgain
  <2>1. /\ HandlerReturns
        /\ UNCHANGED <<connVars, kernelVars, inboxVars, tasks, msgs, workerVars, batch, pipes,
                       mainVars, countVars>>
    BY <1>20 DEF ReadAgain, WriteAgain
  <2>2. QED
    BY <2>1 DEF TypeOK, HandlerReturns
<1>21. CASE WriteDone
  <2>1. iocur \in Conns
    BY <1>21 DEF WriteDone, Handling, LifeInv, IoHolds
  <2>2. reg' \in [Fds -> [conn : Conns \cup {NoConn}, want : {"read", "write"}]]
    BY <1>21, <2>1 DEF TypeOK, WriteDone, Modify
  <2>3. QED
    BY <1>21, <2>2 DEF TypeOK, WriteDone, HandlerReturns
<1>22. CASE StartClose
  <2>1. iofd' \in Fds \cup {NoFd}
    BY <1>22 DEF TypeOK, StartClose, LifeInv, IoHolds
  <2>2. QED
    BY <1>22, <2>1 DEF TypeOK, StartClose
<1>23. CASE MarkClosing
  <2>1. reg' \in [Fds -> [conn : Conns \cup {NoConn}, want : {"read", "write"}]]
    BY <1>23 DEF TypeOK, MarkClosing, Close, NoReg
  <2>2. closing' \in [Conns -> BOOLEAN] /\ open' \subseteq Fds
    BY <1>23 DEF TypeOK, MarkClosing, Close
  <2>3. fd' \in [Conns -> Fds \cup {NoFd}]
    BY <1>23 DEF TypeOK, MarkClosing
  <2>4. QED
    BY <1>23, <2>1, <2>2, <2>3 DEF TypeOK, MarkClosing
<1>24. CASE DeleteEvent
  BY <1>24 DEF TypeOK, DeleteEvent, NoReg
<1>25. CASE ReleaseBase
  <2>1. mem' \in [Conns -> {"none", "live", "freed"}] /\ ref' \in [Conns -> Int]
    <3>1. mem \in [Conns -> {"none", "live", "freed"}] /\ ref \in [Conns -> Int]
      BY DEF TypeOK
    <3>2. /\ iocur \in Conns /\ ref' = [ref EXCEPT ![iocur] = ref[iocur] - 1]
          /\ mem' = mem \/ mem' = [mem EXCEPT ![iocur] = "freed"]
      BY <1>25, BaseReleased
    <3>3. ref[iocur] - 1 \in Int
      BY <3>1, <3>2
    <3>4. QED
      BY <3>1, <3>2, <3>3
  <2>2. UNCHANGED <<closing, fd, open, reg>>
    BY <1>25, BaseReleased
  <2>3. /\ iopc' \in {"dispatch", "check"} /\ iocur' \in Conns \cup {NoConn}
        /\ iofd' \in Fds \cup {NoFd} /\ iomask' \subseteq Bits
    BY <1>25 DEF TypeOK, ReleaseBase, NextEvent, HandlerReturns
  <2>4. QED
    BY <1>25, <2>1, <2>2, <2>3 DEF TypeOK, ReleaseBase
<1>26. CASE CheckAfterHandler
  BY <1>26 DEF TypeOK, CheckAfterHandler, NextEvent
<1>27. CASE UNCHANGED vars
  BY <1>27 DEF vars, TypeOK
<1>28. QED
  BY <1>1, <1>2, <1>3, <1>4, <1>5, <1>6, <1>7, <1>8, <1>9, <1>10, <1>11, <1>12, <1>13,
     <1>14, <1>15, <1>16, <1>17, <1>18, <1>19, <1>20, <1>21, <1>22, <1>23, <1>24, <1>25,
     <1>26, <1>27
  DEF Next, MainStep, WorkerStep, IoStep

\* While nobody reads or writes the pipe, the same connections wait in it.
LEMMA InboxSame ==
    ASSUME UNCHANGED inbox
    PROVE  (\A b \in Conns : InInbox(b)' <=> InInbox(b)) /\ (InboxDistinct' <=> InboxDistinct)
BY DEF InInbox, InboxDistinct

\* What the epoll set names is alive and not closing.
LEMMA RegisteredIsLive ==
    ASSUME LifeInv, NEW f \in Fds, reg[f] # NoReg
    PROVE  /\ reg[f].conn \in Conns /\ fd[reg[f].conn] = f /\ ~InInbox(reg[f].conn)
           /\ mem[reg[f].conn] = "live" /\ ~closing[reg[f].conn] /\ f \in open
<1>1. PICK c \in Conns : reg[f].conn = c /\ fd[c] = f /\ ~InInbox(c)
  BY DEF LifeInv, EpollNames
<1>2. fd[c] # NoFd
  BY <1>1, LifecycleAssumption
<1>3. mem[c] = "live" /\ f \in open
  BY <1>1, <1>2 DEF LifeInv, FdOwnership
<1>4. ~closing[c]
  BY <1>2 DEF LifeInv, Blocks
<1>5. QED
  BY <1>1, <1>3, <1>4

\* A descriptor nobody owns is registered by nobody.
LEMMA UnownedUnregistered ==
    ASSUME LifeInv, NEW f \in Fds, \A c \in Conns : fd[c] # f
    PROVE  reg[f] = NoReg
BY RegisteredIsLive

\* A worker has a connection while it works on a task.
LEMMA WorkerHoldsStep == LifeInv /\ [Next]_vars => WorkerHolds'
<1> SUFFICES ASSUME LifeInv, [Next]_vars
             PROVE  WorkerHolds'
  OBVIOUS
<1>0. TypeOK /\ WorkerHolds
  BY DEF LifeInv
<1> USE <1>0, LifecycleAssumption DEF WorkerHolds
<1>1. ASSUME NEW w \in Workers, NEW c \in Conns, WorkerTake(w, c)
      PROVE  WorkerHolds'
  BY <1>1 DEF WorkerTake, TypeOK
<1>2. ASSUME NEW w \in Workers, WorkerDestroy(w)
      PROVE  WorkerHolds'
  BY <1>2 DEF WorkerDestroy, TypeOK
<1>3. ASSUME NEW w \in Workers, WorkerCheck(w) \/ WorkerSend(w) \/ WorkerSendFails(w)
      PROVE  WorkerHolds'
  BY <1>3 DEF WorkerCheck, WorkerSend, WorkerSendFails, TypeOK
<1>4. CASE AddRefused \/ CreateFails \/ CloseClient \/ EventLoopWait \/ BatchDone
           \/ InboxAdd \/ InboxAddFails \/ MessageRelease \/ MessagesDone
           \/ ReadRequest \/ ReadRequestFails \/ ReadAgain \/ WriteDone \/ WriteAgain
           \/ StartClose \/ MarkClosing \/ DeleteEvent \/ ReleaseBase
           \/ CheckAfterHandler
  BY <1>4 DEF AddRefused, CreateFails, CloseClient, EventLoopWait, BatchDone, InboxAdd,
     InboxAddFails, MessageRelease, MessagesDone, ReadRequest, ReadRequestFails, ReadAgain,
     WriteDone, WriteAgain, StartClose, MarkClosing, DeleteEvent, ReleaseBase,
     CheckAfterHandler
<1>5. ASSUME NEW f \in Fds, Accept(f)
      PROVE  WorkerHolds'
  BY <1>5 DEF Accept
<1>6. ASSUME NEW c \in Conns, AddConnection(c)
      PROVE  WorkerHolds'
  BY <1>6 DEF AddConnection
<1>7. ASSUME NEW c \in Conns, MessageTake(c)
      PROVE  WorkerHolds'
  BY <1>7 DEF MessageTake
<1>8. ASSUME NEW c \in Conns, ConnectionEvent(c)
      PROVE  WorkerHolds'
  BY <1>8 DEF ConnectionEvent
<1>9. CASE UNCHANGED vars
  BY <1>9 DEF vars
<1>10. QED
  BY <1>1, <1>2, <1>3, <1>4, <1>5, <1>6, <1>7, <1>8, <1>9
  DEF Next, MainStep, WorkerStep, IoStep

\* client_fd: no other thread learns its number before the hand-over, and the second
\* close of it comes before the next accept.
LEMMA MainHoldsStep == LifeInv /\ [Next]_vars => MainHolds'
<1> SUFFICES ASSUME LifeInv, [Next]_vars
             PROVE  MainHolds'
  OBVIOUS
<1>0. MainHolds
  BY DEF LifeInv
<1>a. /\ fd \in [Conns -> Fds \cup {NoFd}] /\ NoFd \notin Fds /\ open \subseteq Fds
      /\ reg \in [Fds -> [conn : Conns \cup {NoConn}, want : {"read", "write"}]]
  BY LifecycleAssumption DEF LifeInv, TypeOK
<1> USE <1>0, <1>a DEF MainHolds
<1>1. ASSUME NEW f \in Fds, Accept(f)
      PROVE  MainHolds'
  <2>1. \A c \in Conns : fd[c] # f
    BY <1>1 DEF Accept, LifeInv, FdOwnership
  <2>2. reg[f] = NoReg
    BY <2>1, UnownedUnregistered
  <2>3. QED
    BY <1>1, <2>1, <2>2 DEF Accept
<1>2. ASSUME NEW c \in Conns, AddConnection(c)
      PROVE  MainHolds'
  BY <1>2 DEF AddConnection
<1>3. CASE AddRefused \/ CreateFails \/ CloseClient
  BY <1>3 DEF AddRefused, CreateFails, CloseClient, Close
<1>4. ASSUME NEW w \in Workers, WorkerDestroy(w)
      PROVE  MainHolds'
  BY <1>4, WorkerRelease DEF WorkerDestroy
<1>5. CASE MessageRelease
  BY <1>5, MessageReleased DEF MessageRelease
<1>6. CASE ReleaseBase
  BY <1>6, BaseReleased DEF ReleaseBase
<1>7. CASE InboxAdd
  <2>1. Head(inbox) \in Conns
    BY <1>7, InboxTail DEF InboxAdd, LifeInv
  <2>2. QED
    BY <1>7, <2>1 DEF InboxAdd
<1>8. CASE InboxAddFails
  <2>1. Head(inbox) \in Conns
    BY <1>8, HeadReleased
  <2>2. /\ fd' = [fd EXCEPT ![Head(inbox)] = NoFd]
        /\ open' = open \ {fd[Head(inbox)]} /\ reg' = [reg EXCEPT ![fd[Head(inbox)]] = NoReg]
    BY <1>8, HeadReleased
  <2>3. UNCHANGED <<mpc, mfd>>
    BY <1>8 DEF InboxAddFails
  <2>4. QED
    BY <2>1, <2>2, <2>3
<1>9. ASSUME NEW c \in Conns, MessageTake(c)
      PROVE  MainHolds'
  BY <1>9 DEF MessageTake, Modify
<1>10. CASE WriteDone
  <2>1. iocur \in Conns
    BY <1>10 DEF WriteDone, Handling, LifeInv, IoHolds
  <2>2. QED
    BY <1>10, <2>1 DEF WriteDone, Modify
<1>11. CASE MarkClosing
  <2>1. iocur \in Conns
    BY <1>11 DEF MarkClosing, LifeInv, IoHolds
  <2>2. QED
    BY <1>11, <2>1 DEF MarkClosing, Close
<1>12. CASE DeleteEvent
  BY <1>12 DEF DeleteEvent
<1>13. CASE EventLoopWait \/ BatchDone \/ MessagesDone \/ ReadRequest
           \/ ReadRequestFails \/ ReadAgain \/ WriteAgain \/ StartClose
           \/ CheckAfterHandler
  BY <1>13 DEF EventLoopWait, BatchDone, MessagesDone, ReadRequest, ReadRequestFails,
     ReadAgain, WriteAgain, StartClose, CheckAfterHandler
<1>14. ASSUME NEW w \in Workers, WorkerCheck(w) \/ WorkerSend(w) \/ WorkerSendFails(w)
       PROVE  MainHolds'
  BY <1>14 DEF WorkerCheck, WorkerSend, WorkerSendFails
<1>15. ASSUME NEW w \in Workers, NEW c \in Conns, WorkerTake(w, c)
       PROVE  MainHolds'
  BY <1>15 DEF WorkerTake
<1>16. ASSUME NEW c \in Conns, ConnectionEvent(c)
       PROVE  MainHolds'
  BY <1>16 DEF ConnectionEvent
<1>17. CASE UNCHANGED vars
  BY <1>17 DEF vars
<1>18. QED
  BY <1>1, <1>2, <1>3, <1>4, <1>5, <1>6, <1>7, <1>8, <1>9, <1>10, <1>11, <1>12, <1>13,
     <1>14, <1>15, <1>16, <1>17
  DEF Next, MainStep, WorkerStep, IoStep

\* A connection has a descriptor from conn_create until it is closing.
LEMMA BlocksStep == LifeInv /\ [Next]_vars => Blocks'
<1> SUFFICES ASSUME LifeInv, [Next]_vars
             PROVE  Blocks'
  OBVIOUS
<1>0. Blocks
  BY DEF LifeInv
<1>a. /\ fd \in [Conns -> Fds \cup {NoFd}] /\ closing \in [Conns -> BOOLEAN]
      /\ mem \in [Conns -> {"none", "live", "freed"}] /\ lost \in [Conns -> Nat]
  BY DEF LifeInv, TypeOK
<1> USE <1>0, <1>a DEF Blocks
<1>1. ASSUME NEW c \in Conns, AddConnection(c)
      PROVE  Blocks'
  <2>1. mfd \in Fds
    BY <1>1 DEF AddConnection, LifeInv, MainHolds
  <2>2. QED
    BY <1>1, <2>1 DEF AddConnection
<1>2. ASSUME NEW w \in Workers, WorkerDestroy(w)
      PROVE  Blocks'
  <2>1. PICK c \in Conns : wconn[w] = c /\ mem[c] = "live"
    BY <1>2, WorkerRelease
  <2>2. UNCHANGED <<closing, fd, lost>> /\ mem' \in {mem, [mem EXCEPT ![c] = "freed"]}
    BY <1>2, <2>1, WorkerRelease DEF WorkerDestroy
  <2>3. QED
    BY <2>1, <2>2
<1>3. CASE MessageRelease
  BY <1>3, MessageReleased DEF MessageRelease
<1>4. CASE ReleaseBase
  BY <1>4, BaseReleased DEF ReleaseBase
<1>5. CASE InboxAddFails
  <2>1. /\ Head(inbox) \in Conns /\ mem[Head(inbox)] = "live" /\ closing' = closing
        /\ mem' = [mem EXCEPT ![Head(inbox)] = "freed"]
        /\ fd' = [fd EXCEPT ![Head(inbox)] = NoFd]
    BY <1>5, HeadReleased
  <2>2. QED
    BY <1>5, <2>1 DEF InboxAddFails
<1>6. CASE ReadRequestFails
  <2>1. mem[iocur] = "live"
    BY <1>6 DEF ReadRequestFails, Handling, LifeInv, IoHolds
  <2>2. QED
    BY <1>6, <2>1 DEF ReadRequestFails
<1>7. CASE MarkClosing
  <2>1. iocur \in Conns /\ mem[iocur] = "live"
    BY <1>7 DEF MarkClosing, LifeInv, IoHolds
  <2>2. QED
    BY <1>7, <2>1 DEF MarkClosing
<1>8. CASE AddRefused \/ CreateFails \/ CloseClient \/ EventLoopWait \/ BatchDone
           \/ InboxAdd \/ MessagesDone \/ ReadRequest \/ ReadAgain \/ WriteDone
           \/ WriteAgain \/ StartClose \/ DeleteEvent \/ CheckAfterHandler
  BY <1>8 DEF AddRefused, CreateFails, CloseClient, EventLoopWait, BatchDone, InboxAdd,
     MessagesDone, ReadRequest, ReadAgain, WriteDone, WriteAgain, StartClose, DeleteEvent,
     CheckAfterHandler
<1>9. ASSUME NEW w \in Workers, WorkerCheck(w) \/ WorkerSend(w) \/ WorkerSendFails(w)
      PROVE  Blocks'
  BY <1>9 DEF WorkerCheck, WorkerSend, WorkerSendFails
<1>10. ASSUME NEW f \in Fds, Accept(f)
       PROVE  Blocks'
  BY <1>10 DEF Accept
<1>11. ASSUME NEW w \in Workers, NEW c \in Conns, WorkerTake(w, c)
       PROVE  Blocks'
  BY <1>11 DEF WorkerTake
<1>12. ASSUME NEW c \in Conns, MessageTake(c)
       PROVE  Blocks'
  BY <1>12 DEF MessageTake
<1>13. ASSUME NEW c \in Conns, ConnectionEvent(c)
       PROVE  Blocks'
  BY <1>13 DEF ConnectionEvent
<1>14. CASE UNCHANGED vars
  BY <1>14 DEF vars
<1>15. QED
  BY <1>1, <1>2, <1>3, <1>4, <1>5, <1>6, <1>7, <1>8, <1>9, <1>10, <1>11, <1>12, <1>13, <1>14
  DEF Next, MainStep, WorkerStep, IoStep

\* The epoll set: a closed descriptor takes its registration with it, and every
\* registration is made and changed under the descriptor of its own connection.
LEMMA EpollNamesStep == LifeInv /\ [Next]_vars => EpollNames'
<1> SUFFICES ASSUME LifeInv, [Next]_vars
             PROVE  EpollNames'
  OBVIOUS
<1>0. EpollNames /\ TypeOK
  BY DEF LifeInv
<1>a. /\ fd \in [Conns -> Fds \cup {NoFd}]
      /\ reg \in [Fds -> [conn : Conns \cup {NoConn}, want : {"read", "write"}]]
  BY DEF LifeInv, TypeOK
<1> USE <1>0, <1>a DEF EpollNames
<1>1. ASSUME NEW c \in Conns, AddConnection(c)
      PROVE  EpollNames'
  <2>1. \A b \in Conns : InInbox(b)' <=> InInbox(b) \/ b = c
    BY <1>1, InboxAppend DEF AddConnection
  <2>2. \A f \in Fds : reg[f] # NoReg => reg[f].conn # c
    BY <1>1, RegisteredIsLive DEF AddConnection
  <2>3. UNCHANGED reg /\ fd' = [fd EXCEPT ![c] = mfd]
    BY <1>1 DEF AddConnection
  <2>4. QED
    BY <2>1, <2>2, <2>3
<1>2. CASE AddRefused \/ CloseClient
  BY <1>2, InboxSame DEF AddRefused, CloseClient, Close
<1>3. ASSUME NEW w \in Workers, WorkerDestroy(w)
      PROVE  EpollNames'
  <2>1. UNCHANGED <<fd, reg, inbox>>
    BY <1>3, WorkerRelease DEF WorkerDestroy
  <2>2. QED
    BY <2>1, InboxSame
<1>4. CASE MessageRelease
  BY <1>4, MessageReleased, InboxSame DEF MessageRelease
<1>5. CASE ReleaseBase
  BY <1>5, BaseReleased, InboxSame DEF ReleaseBase
<1>6. CASE InboxAdd
  <2>1. PICK h \in Conns : h = Head(inbox)
    BY <1>6, InboxTail DEF InboxAdd, LifeInv
  <2>2. \A b \in Conns : InInbox(b)' <=> InInbox(b) /\ b # h
    BY <1>6, <2>1, InboxTail DEF InboxAdd, LifeInv
  <2>3. UNCHANGED fd /\ reg' = [reg EXCEPT ![fd[h]] = [conn |-> h, want |-> "read"]]
    BY <1>6, <2>1 DEF InboxAdd
  <2>4. QED
    BY <2>1, <2>2, <2>3
<1>7. CASE InboxAddFails
  <2>1. PICK h \in Conns : h = Head(inbox) /\ InInbox(h)
    BY <1>7, HeadReleased
  <2>2. \A b \in Conns : InInbox(b)' <=> InInbox(b) /\ b # h
    BY <1>7, <2>1, InboxTail DEF InboxAddFails, LifeInv
  <2>3. fd' = [fd EXCEPT ![h] = NoFd] /\ reg' = [reg EXCEPT ![fd[h]] = NoReg]
    BY <1>7, <2>1, HeadReleased
  <2>4. QED
    BY <2>1, <2>2, <2>3
<1>8. ASSUME NEW c \in Conns, MessageTake(c)
      PROVE  EpollNames'
  <2>1. ~InInbox(c)
    BY <1>8 DEF MessageTake, LifeInv, InboxFresh
  <2>2. QED
    BY <1>8, <2>1, InboxSame DEF MessageTake, Modify
<1>9. CASE WriteDone
  <2>1. iocur \in Conns /\ ~InInbox(iocur)
    BY <1>9 DEF WriteDone, Handling, LifeInv, IoHolds, InboxFresh
  <2>2. QED
    BY <1>9, <2>1, InboxSame DEF WriteDone, Modify
<1>10. CASE MarkClosing
  <2>1. iocur \in Conns /\ ~closing[iocur] /\ fd[iocur] \in Fds
    BY <1>10 DEF MarkClosing, LifeInv, IoHolds, Blocks
  <2>2. fd' = [fd EXCEPT ![iocur] = NoFd] /\ reg' = [reg EXCEPT ![fd[iocur]] = NoReg]
    BY <1>10, <2>1 DEF MarkClosing, Close
  <2>3. UNCHANGED inbox
    BY <1>10 DEF MarkClosing
  <2>4. QED
    BY <2>1, <2>2, <2>3, InboxSame
<1>11. CASE DeleteEvent
  BY <1>11, InboxSame DEF DeleteEvent
<1>12. CASE CreateFails \/ EventLoopWait \/ BatchDone \/ MessagesDone \/ ReadRequest
           \/ ReadRequestFails \/ ReadAgain \/ WriteAgain \/ StartClose
           \/ CheckAfterHandler
  BY <1>12, InboxSame DEF CreateFails, EventLoopWait, BatchDone, MessagesDone, ReadRequest,
     ReadRequestFails, ReadAgain, WriteAgain, StartClose, CheckAfterHandler
<1>13. ASSUME NEW w \in Workers, WorkerCheck(w) \/ WorkerSend(w) \/ WorkerSendFails(w)
       PROVE  EpollNames'
  BY <1>13, InboxSame DEF WorkerCheck, WorkerSend, WorkerSendFails
<1>14. ASSUME NEW f \in Fds, Accept(f)
       PROVE  EpollNames'
  BY <1>14, InboxSame DEF Accept
<1>15. ASSUME NEW w \in Workers, NEW c \in Conns, WorkerTake(w, c)
       PROVE  EpollNames'
  BY <1>15, InboxSame DEF WorkerTake
<1>16. ASSUME NEW c \in Conns, ConnectionEvent(c)
       PROVE  EpollNames'
  BY <1>16, InboxSame DEF ConnectionEvent
<1>17. CASE UNCHANGED vars
  BY <1>17, InboxSame DEF vars
<1>18. QED
  BY <1>1, <1>2, <1>3, <1>4, <1>5, <1>6, <1>7, <1>8, <1>9, <1>10, <1>11, <1>12, <1>13,
     <1>14, <1>15, <1>16, <1>17
  DEF Next, MainStep, WorkerStep, IoStep

\* The rest of a batch: the IO thread closes only the connection whose events it has
\* taken out of the batch, and workers close none.
LEMMA BatchNamesStep == LifeInv /\ [Next]_vars => BatchNames'
<1> SUFFICES ASSUME LifeInv, [Next]_vars
             PROVE  BatchNames'
  OBVIOUS
<1>0. BatchNames /\ TypeOK
  BY DEF LifeInv
<1>a. /\ closing \in [Conns -> BOOLEAN] /\ batch \in [Conns -> SUBSET Bits]
      /\ mem \in [Conns -> {"none", "live", "freed"}] /\ ref \in [Conns -> Int]
  BY DEF LifeInv, TypeOK
<1> USE <1>0, <1>a DEF BatchNames
<1>1. ASSUME NEW c \in Conns, AddConnection(c)
      PROVE  BatchNames'
  <2>1. \A b \in Conns : InInbox(b)' <=> InInbox(b) \/ b = c
    BY <1>1, InboxAppend DEF AddConnection
  <2>2. batch[c] = {}
    BY <1>1 DEF AddConnection
  <2>3. QED
    BY <1>1, <2>1, <2>2 DEF AddConnection
<1>2. ASSUME NEW w \in Workers, WorkerDestroy(w)
      PROVE  BatchNames'
  <2>1. \A c \in Conns : mem'[c] = mem[c] \/ closing[c]
    BY <1>2, WorkerRelease
  <2>2. UNCHANGED <<closing, batch, inbox>>
    BY <1>2, WorkerRelease DEF WorkerDestroy
  <2>3. QED
    BY <2>1, <2>2, InboxSame
<1>3. CASE MessageRelease
  <2>1. \A c \in Conns : mem'[c] = mem[c] \/ closing[c]
    BY <1>3, MessageReleased
  <2>2. UNCHANGED <<closing, batch, inbox>>
    BY <1>3, MessageReleased DEF MessageRelease
  <2>3. QED
    BY <2>1, <2>2, InboxSame
<1>4. CASE ReleaseBase
  <2>1. \A c \in Conns : mem'[c] = mem[c] \/ closing[c]
    BY <1>4, BaseReleased
  <2>2. UNCHANGED <<closing, batch, inbox>>
    BY <1>4, BaseReleased DEF ReleaseBase
  <2>3. QED
    BY <2>1, <2>2, InboxSame
<1>5. CASE EventLoopWait
  <2>1. ASSUME NEW c \in Conns, batch'[c] # {}
        PROVE  mem[c] = "live" /\ ~closing[c] /\ ~InInbox(c)
    <3>1. PICK f \in Fds : reg[f].conn = c
      BY <1>5, <2>1 DEF EventLoopWait, Ready
    <3>2. reg[f] # NoReg
      BY <3>1, LifecycleAssumption DEF NoReg
    <3>3. QED
      BY <3>1, <3>2, RegisteredIsLive
  <2>2. QED
    BY <1>5, <2>1, InboxSame DEF EventLoopWait
<1>6. CASE InboxAdd
  <2>1. \A b \in Conns : InInbox(b)' => InInbox(b)
    BY <1>6, InboxTail DEF InboxAdd, LifeInv
  <2>2. QED
    BY <1>6, <2>1 DEF InboxAdd
<1>7. CASE InboxAddFails
  <2>1. \A b \in Conns : InInbox(b)' => InInbox(b)
    BY <1>7, InboxTail DEF InboxAddFails, LifeInv
  <2>2. \A c \in Conns : mem'[c] = mem[c] \/ InInbox(c)
    BY <1>7, HeadReleased
  <2>3. UNCHANGED <<closing, batch>>
    BY <1>7, HeadReleased DEF InboxAddFails
  <2>4. QED
    BY <2>1, <2>2, <2>3
<1>8. ASSUME NEW c \in Conns, ConnectionEvent(c)
      PROVE  BatchNames'
  BY <1>8, InboxSame DEF ConnectionEvent
<1>9. CASE MarkClosing
  <2>1. batch[iocur] = {}
    BY <1>9 DEF MarkClosing, LifeInv, IoHolds
  <2>2. QED
    BY <1>9, <2>1, InboxSame DEF MarkClosing
<1>10. CASE AddRefused \/ CreateFails \/ CloseClient \/ BatchDone \/ MessagesDone
           \/ ReadRequest \/ ReadRequestFails \/ ReadAgain \/ WriteDone \/ WriteAgain
           \/ StartClose \/ DeleteEvent \/ CheckAfterHandler
  BY <1>10, InboxSame DEF AddRefused, CreateFails, CloseClient, BatchDone, MessagesDone,
     ReadRequest, ReadRequestFails, ReadAgain, WriteDone, WriteAgain, StartClose,
     DeleteEvent, CheckAfterHandler
<1>11. ASSUME NEW w \in Workers, WorkerCheck(w) \/ WorkerSend(w) \/ WorkerSendFails(w)
       PROVE  BatchNames'
  BY <1>11, InboxSame DEF WorkerCheck, WorkerSend, WorkerSendFails
<1>12. ASSUME NEW f \in Fds, Accept(f)
       PROVE  BatchNames'
  BY <1>12, InboxSame DEF Accept
<1>13. ASSUME NEW w \in Workers, NEW c \in Conns, WorkerTake(w, c)
       PROVE  BatchNames'
  BY <1>13, InboxSame DEF WorkerTake
<1>14. ASSUME NEW c \in Conns, MessageTake(c)
       PROVE  BatchNames'
  BY <1>14, InboxSame DEF MessageTake
<1>15. CASE UNCHANGED vars
  BY <1>15, InboxSame DEF vars
<1>16. QED
  BY <1>1, <1>2, <1>3, <1>4, <1>5, <1>6, <1>7, <1>8, <1>9, <1>10, <1>11, <1>12, <1>13,
     <1>14, <1>15
  DEF Next, MainStep, WorkerStep, IoStep

\* The pipe: a connection is written to it once, right after conn_create, and nobody
\* else has its pointer until it is read.
LEMMA InboxFreshStep == LifeInv /\ [Next]_vars => (InboxDistinct /\ InboxFresh)'
<1> SUFFICES ASSUME LifeInv, [Next]_vars
             PROVE  (InboxDistinct /\ InboxFresh)'
  OBVIOUS
<1>0. InboxDistinct /\ InboxFresh /\ TypeOK
  BY DEF LifeInv
<1>a. /\ closing \in [Conns -> BOOLEAN] /\ wconn \in [Workers -> Conns \cup {NoConn}]
      /\ mem \in [Conns -> {"none", "live", "freed"}] /\ ref \in [Conns -> Int]
      /\ tasks \in [Conns -> Nat] /\ msgs \in [Conns -> Nat] /\ lost \in [Conns -> Nat]
  BY DEF LifeInv, TypeOK
<1> USE <1>0, <1>a DEF InboxFresh
<1>1. ASSUME NEW c \in Conns, AddConnection(c)
      PROVE  (InboxDistinct /\ InboxFresh)'
  <2>1. ~InInbox(c)
    BY <1>1 DEF AddConnection
  <2>2. InboxDistinct' /\ \A b \in Conns : InInbox(b)' <=> InInbox(b) \/ b = c
    BY <1>1, <2>1, InboxAppend DEF AddConnection
  <2>3. /\ ~closing[c] /\ tasks[c] = 0 /\ msgs[c] = 0 /\ lost[c] = 0
        /\ \A w \in Workers : wconn[w] # c
        /\ iopc \in {"wait", "dispatch"} \/ iocur # c
    BY <1>1 DEF AddConnection, LifeInv, Blocks, NoUser, IoHolds
  <2>4. QED
    BY <1>1, <2>2, <2>3 DEF AddConnection
<1>2. ASSUME NEW w \in Workers, NEW c \in Conns, WorkerTake(w, c)
      PROVE  (InboxDistinct /\ InboxFresh)'
  <2>1. ~InInbox(c)
    BY <1>2 DEF WorkerTake
  <2>2. QED
    BY <1>2, <2>1, InboxSame DEF WorkerTake
<1>3. ASSUME NEW w \in Workers, WorkerSend(w)
      PROVE  (InboxDistinct /\ InboxFresh)'
  <2>1. PICK c \in Conns : wconn[w] = c
    BY <1>3 DEF WorkerSend, LifeInv, TypeOK, WorkerHolds
  <2>2. ~InInbox(c)
    BY <2>1
  <2>3. QED
    BY <1>3, <2>1, <2>2, InboxSame DEF WorkerSend
<1>4. ASSUME NEW w \in Workers, WorkerDestroy(w)
      PROVE  (InboxDistinct /\ InboxFresh)'
  <2>1. PICK c \in Conns : wconn[w] = c
    BY <1>4, WorkerRelease
  <2>2. ~InInbox(c)
    BY <2>1
  <2>3. /\ UNCHANGED closing /\ \A b \in Conns : b # c => mem'[b] = mem[b]
        /\ \A v \in Workers, b \in Conns : wconn[v] # b => wconn'[v] # b
    <3>1. /\ mem \in [Conns -> {"none", "live", "freed"}]
          /\ wconn \in [Workers -> Conns \cup {NoConn}] /\ NoConn \notin Conns
      BY LifecycleAssumption DEF LifeInv, TypeOK
    <3>2. UNCHANGED closing /\ (mem' = mem \/ mem' = [mem EXCEPT ![c] = "freed"])
      BY <1>4, <2>1, WorkerRelease
    <3>3. wconn' = [wconn EXCEPT ![w] = NoConn]
      BY <1>4 DEF WorkerDestroy
    <3>4. \A v \in Workers, b \in Conns : wconn[v] # b => wconn'[v] # b
      BY <3>1, <3>3
    <3>5. QED
      BY <3>1, <3>2, <3>4
  <2>4. UNCHANGED <<inbox, tasks, msgs, lost, iopc, iocur>>
    BY <1>4 DEF WorkerDestroy
  <2>5. QED
    BY <2>2, <2>3, <2>4, InboxSame
<1>5. CASE InboxAdd
  <2>1. InboxDistinct' /\ \A b \in Conns : InInbox(b)' => InInbox(b)
    BY <1>5, InboxTail DEF InboxAdd, LifeInv
  <2>2. QED
    BY <1>5, <2>1 DEF InboxAdd
<1>6. CASE InboxAddFails
  <2>1. PICK h \in Conns : h = Head(inbox)
    BY <1>6, HeadReleased
  <2>2. InboxDistinct' /\ \A b \in Conns : InInbox(b)' => InInbox(b) /\ b # h
    BY <1>6, <2>1, InboxTail DEF InboxAddFails, LifeInv
  <2>3. UNCHANGED closing /\ \A b \in Conns : b # h => mem'[b] = mem[b]
    BY <1>6, <2>1, HeadReleased
  <2>4. QED
    BY <1>6, <2>2, <2>3 DEF InboxAddFails
<1>7. ASSUME NEW c \in Conns, MessageTake(c)
      PROVE  (InboxDistinct /\ InboxFresh)'
  <2>1. ~InInbox(c)
    BY <1>7 DEF MessageTake
  <2>2. QED
    BY <1>7, <2>1, InboxSame DEF MessageTake
<1>8. ASSUME NEW c \in Conns, ConnectionEvent(c)
      PROVE  (InboxDistinct /\ InboxFresh)'
  <2>1. ~InInbox(c)
    BY <1>8 DEF ConnectionEvent, LifeInv, BatchNames
  <2>2. QED
    BY <1>8, <2>1, InboxSame DEF ConnectionEvent
<1>9. CASE MessageRelease
  <2>1. iocur \in Conns /\ ~InInbox(iocur)
    BY <1>9, MessageReleased DEF MessageRelease
  <2>2. UNCHANGED closing /\ \A b \in Conns : b # iocur => mem'[b] = mem[b]
    BY <1>9, MessageReleased
  <2>3. QED
    BY <1>9, <2>1, <2>2, InboxSame DEF MessageRelease
<1>10. CASE ReleaseBase
  <2>1. iocur \in Conns /\ ~InInbox(iocur)
    BY <1>10, BaseReleased DEF ReleaseBase
  <2>2. UNCHANGED closing /\ \A b \in Conns : b # iocur => mem'[b] = mem[b]
    BY <1>10, BaseReleased
  <2>3. iopc' \in {"wait", "dispatch"} \/ iocur' = iocur
    BY <1>10 DEF ReleaseBase, NextEvent, HandlerReturns
  <2>4. UNCHANGED <<inbox, tasks, msgs, wconn, lost>>
    BY <1>10 DEF ReleaseBase
  <2>5. QED
    BY <2>1, <2>2, <2>3, <2>4, InboxSame
<1>11. CASE ReadRequest
  <2>1. iocur \in Conns /\ ~InInbox(iocur)
    BY <1>11 DEF ReadRequest, Handling, LifeInv, IoHolds
  <2>2. QED
    BY <1>11, <2>1, InboxSame DEF ReadRequest
<1>12. CASE ReadRequestFails
  <2>1. iocur \in Conns /\ ~InInbox(iocur)
    BY <1>12 DEF ReadRequestFails, Handling, LifeInv, IoHolds
  <2>2. QED
    BY <1>12, <2>1, InboxSame DEF ReadRequestFails
<1>13. CASE MarkClosing
  <2>1. iocur \in Conns /\ ~InInbox(iocur)
    BY <1>13 DEF MarkClosing, LifeInv, IoHolds
  <2>2. QED
    BY <1>13, <2>1, InboxSame DEF MarkClosing
<1>14. CASE CheckAfterHandler
  BY <1>14, InboxSame DEF CheckAfterHandler, NextEvent
<1>15. CASE ReadAgain \/ WriteDone \/ WriteAgain
  BY <1>15, InboxSame DEF ReadAgain, WriteDone, WriteAgain, HandlerReturns, Handling
<1>16. CASE AddRefused \/ CreateFails \/ CloseClient \/ EventLoopWait \/ BatchDone
           \/ MessagesDone \/ StartClose \/ DeleteEvent
  BY <1>16, InboxSame DEF AddRefused, CreateFails, CloseClient, EventLoopWait, BatchDone,
     MessagesDone, StartClose, DeleteEvent
<1>17. ASSUME NEW w \in Workers, WorkerCheck(w) \/ WorkerSendFails(w)
       PROVE  (InboxDistinct /\ InboxFresh)'
  BY <1>17, InboxSame DEF WorkerCheck, WorkerSendFails
<1>18. ASSUME NEW f \in Fds, Accept(f)
       PROVE  (InboxDistinct /\ InboxFresh)'
  BY <1>18, InboxSame DEF Accept
<1>19. CASE UNCHANGED vars
  BY <1>19, InboxSame DEF vars
<1>20. QED
  BY <1>1, <1>2, <1>3, <1>4, <1>5, <1>6, <1>7, <1>8, <1>9, <1>10, <1>11, <1>12, <1>13,
     <1>14, <1>15, <1>16, <1>17, <1>18, <1>19
  DEF Next, MainStep, WorkerStep, IoStep

\* The last conn_release frees the block, and then no task, message or worker has
\* the pointer.
LEMMA NoUserStep == LifeInv /\ [Next]_vars => NoUser'
<1> SUFFICES ASSUME LifeInv, [Next]_vars
             PROVE  NoUser'
  OBVIOUS
<1>0. NoUser /\ TypeOK
  BY DEF LifeInv
<1>a. /\ wconn \in [Workers -> Conns \cup {NoConn}]
      /\ mem \in [Conns -> {"none", "live", "freed"}] /\ ref \in [Conns -> Int]
      /\ tasks \in [Conns -> Nat] /\ msgs \in [Conns -> Nat]
  BY DEF LifeInv, TypeOK
<1> USE <1>0, <1>a DEF NoUser
<1>1. ASSUME NEW c \in Conns, AddConnection(c)
      PROVE  NoUser'
  BY <1>1 DEF AddConnection
<1>2. ASSUME NEW w \in Workers, NEW c \in Conns, WorkerTake(w, c)
      PROVE  NoUser'
  BY <1>2 DEF WorkerTake
<1>3. ASSUME NEW w \in Workers, WorkerSend(w)
      PROVE  NoUser'
  <2>1. PICK c \in Conns : wconn[w] = c
    BY <1>3 DEF WorkerSend, LifeInv, TypeOK, WorkerHolds
  <2>2. QED
    BY <1>3, <2>1 DEF WorkerSend
<1>4. ASSUME NEW w \in Workers, WorkerDestroy(w)
      PROVE  NoUser'
  <2>1. PICK c \in Conns : wconn[w] = c
    BY <1>4, WorkerRelease
  <2>2. UNCHANGED <<tasks, msgs>> /\ wconn' = [wconn EXCEPT ![w] = NoConn]
    BY <1>4 DEF WorkerDestroy
  <2>3. CASE ref[c] <= 1
    <3>0. ref[c] = Owed(c) /\ Holders(c) >= 1
      BY <1>4, <2>1, WorkerRelease
    <3>1. Holders(c) = 1 /\ tasks[c] = 0 /\ msgs[c] = 0
      <4>1. /\ Holders(c) \in Nat /\ BaseRef(c) \in Nat /\ MessageRef(c) \in Nat
            /\ tasks[c] \in Nat /\ msgs[c] \in Nat /\ lost[c] \in Nat
        BY OwedBounds
      <4>2. BaseRef(c) + MessageRef(c) + tasks[c] + msgs[c] + Holders(c) + lost[c] <= 1
        BY <2>3, <3>0 DEF Owed
      <4>3. QED
        BY <3>0, <4>1, <4>2
    <3>2. Holders(c)' = 0
      <4>1. \A b \in Conns :
               Holders(b)' = IF b = wconn[w] THEN Holders(b) - 1 ELSE Holders(b)
        BY <2>1, <2>2, HoldersDrop
      <4>2. QED
        BY <2>1, <3>1, <4>1
    <3>3. \A v \in Workers : wconn'[v] # c
      BY <3>2, HoldersType
    <3>4. \A b \in Conns : b # c => mem'[b] = mem[b]
      BY <1>4, <2>1, WorkerRelease
    <3>5. QED
      BY <2>2, <3>1, <3>3, <3>4, LifecycleAssumption
  <2>4. CASE ~(ref[c] <= 1)
    BY <1>4, <2>1, <2>2, <2>4, WorkerRelease, LifecycleAssumption
  <2>5. QED
    BY <2>3, <2>4
<1>5. CASE InboxAddFails
  <2>1. PICK h \in Conns : h = Head(inbox) /\ InInbox(h)
    BY <1>5, HeadReleased
  <2>2. tasks[h] = 0 /\ msgs[h] = 0 /\ \A w \in Workers : wconn[w] # h
    BY <2>1 DEF LifeInv, InboxFresh
  <2>3. \A b \in Conns : b # h => mem'[b] = mem[b]
    BY <1>5, <2>1, HeadReleased
  <2>4. QED
    BY <1>5, <2>2, <2>3 DEF InboxAddFails
<1>6. ASSUME NEW c \in Conns, MessageTake(c)
      PROVE  NoUser'
  BY <1>6 DEF MessageTake
<1>7. CASE MessageRelease
  <2>1. /\ iocur \in Conns /\ ref[iocur] = Owed(iocur) /\ MessageRef(iocur) = 1
        /\ mem' = IF ref[iocur] <= 1 THEN [mem EXCEPT ![iocur] = "freed"] ELSE mem
    BY <1>7, MessageReleased
  <2>2. UNCHANGED <<tasks, msgs, wconn>>
    BY <1>7 DEF MessageRelease
  <2>3. CASE ref[iocur] <= 1
    <3>1. Holders(iocur) = 0 /\ tasks[iocur] = 0 /\ msgs[iocur] = 0
      BY <2>1, <2>3, OwedBounds DEF Owed
    <3>2. \A v \in Workers : wconn[v] # iocur
      BY <2>1, <3>1, HoldersType
    <3>3. QED
      BY <2>1, <2>2, <3>1, <3>2
  <2>4. CASE ~(ref[iocur] <= 1)
    BY <2>1, <2>2, <2>4
  <2>5. QED
    BY <2>3, <2>4
<1>8. CASE ReleaseBase
  <2>1. /\ iocur \in Conns /\ ref[iocur] = Owed(iocur) /\ BaseRef(iocur) = 1
        /\ mem' = IF ref[iocur] <= 1 THEN [mem EXCEPT ![iocur] = "freed"] ELSE mem
    BY <1>8, BaseReleased
  <2>2. UNCHANGED <<tasks, msgs, wconn>>
    BY <1>8 DEF ReleaseBase
  <2>3. CASE ref[iocur] <= 1
    <3>1. Holders(iocur) = 0 /\ tasks[iocur] = 0 /\ msgs[iocur] = 0
      BY <2>1, <2>3, OwedBounds DEF Owed
    <3>2. \A v \in Workers : wconn[v] # iocur
      BY <2>1, <3>1, HoldersType
    <3>3. QED
      BY <2>1, <2>2, <3>1, <3>2
  <2>4. CASE ~(ref[iocur] <= 1)
    BY <2>1, <2>2, <2>4
  <2>5. QED
    BY <2>3, <2>4
<1>9. CASE ReadRequest
  <2>1. iocur \in Conns /\ mem[iocur] = "live"
    BY <1>9 DEF ReadRequest, Handling, LifeInv, IoHolds
  <2>2. QED
    BY <1>9, <2>1 DEF ReadRequest
<1>10. CASE ReadRequestFails
  <2>1. iocur \in Conns /\ mem[iocur] = "live"
    BY <1>10 DEF ReadRequestFails, Handling, LifeInv, IoHolds
  <2>2. QED
    BY <1>10, <2>1 DEF ReadRequestFails
<1>11. CASE AddRefused \/ CreateFails \/ CloseClient \/ EventLoopWait \/ BatchDone
           \/ InboxAdd \/ MessagesDone \/ ReadAgain \/ WriteDone \/ WriteAgain
           \/ StartClose \/ MarkClosing \/ DeleteEvent \/ CheckAfterHandler
  BY <1>11 DEF AddRefused, CreateFails, CloseClient, EventLoopWait, BatchDone, InboxAdd,
     MessagesDone, ReadAgain, WriteDone, WriteAgain, StartClose, MarkClosing, DeleteEvent,
     CheckAfterHandler
<1>12. ASSUME NEW w \in Workers, WorkerCheck(w) \/ WorkerSendFails(w)
       PROVE  NoUser'
  BY <1>12 DEF WorkerCheck, WorkerSendFails
<1>13. ASSUME NEW f \in Fds, Accept(f)
       PROVE  NoUser'
  BY <1>13 DEF Accept
<1>14. ASSUME NEW c \in Conns, ConnectionEvent(c)
       PROVE  NoUser'
  BY <1>14 DEF ConnectionEvent
<1>15. CASE UNCHANGED vars
  BY <1>15 DEF vars
<1>16. QED
  BY <1>1, <1>2, <1>3, <1>4, <1>5, <1>6, <1>7, <1>8, <1>9, <1>10, <1>11, <1>12, <1>13,
     <1>14, <1>15
  DEF Next, MainStep, WorkerStep, IoStep

\* The IO thread: the connection it handles cannot be freed by a worker, since its
\* own reference is still counted, and a number it deletes from the epoll set after
\* closing it is registered for nobody, although the main thread may have been given
\* the number again.
LEMMA IoHoldsStep ==
    ASSUME FreedReads \subseteq {FALSE}, LifeInv, [Next]_vars
    PROVE  IoHolds'
<1>0. IoHolds /\ TypeOK
  BY DEF LifeInv
<1>a. /\ closing \in [Conns -> BOOLEAN] /\ batch \in [Conns -> SUBSET Bits]
      /\ mem \in [Conns -> {"none", "live", "freed"}] /\ ref \in [Conns -> Int]
      /\ fd \in [Conns -> Fds \cup {NoFd}]
      /\ reg \in [Fds -> [conn : Conns \cup {NoConn}, want : {"read", "write"}]]
  BY DEF LifeInv, TypeOK
<1> USE <1>0, <1>a DEF IoHolds
<1>1. ASSUME NEW c \in Conns, AddConnection(c)
      PROVE  IoHolds'
  <2>1. iopc \in {"wait", "dispatch"} \/ iocur # c
    BY <1>1 DEF AddConnection
  <2>2. QED
    BY <1>1, <2>1 DEF AddConnection
<1>2. CASE AddRefused \/ CloseClient
  BY <1>2 DEF AddRefused, CloseClient, Close
<1>3. ASSUME NEW w \in Workers, WorkerDestroy(w)
      PROVE  IoHolds'
  <2>1. PICK c \in Conns : wconn[w] = c
    BY <1>3, WorkerRelease
  <2>2. /\ UNCHANGED <<closing, fd, reg>> /\ ref[c] = Owed(c) /\ Holders(c) >= 1
        /\ mem' = IF ref[c] <= 1 THEN [mem EXCEPT ![c] = "freed"] ELSE mem
    BY <1>3, <2>1, WorkerRelease
  <2>3. UNCHANGED <<iopc, iocur, iofd, batch>>
    BY <1>3 DEF WorkerDestroy
  <2>4. ASSUME iocur = c, iopc \in {"handle", "mark", "del", "release", "message"}
        PROVE  ref[c] > 1
    <3>1. BaseRef(c) = 1 \/ MessageRef(c) = 1
      BY <2>4 DEF BaseRef, MessageRef
    <3>2. QED
      BY <2>2, <3>1, OwedBounds DEF Owed
  <2>5. \A b \in Conns : mem[b] # "none" => mem'[b] # "none"
    BY <2>2
  <2>6. QED
    BY <2>2, <2>3, <2>4, <2>5
<1>4. ASSUME NEW c \in Conns, MessageTake(c)
      PROVE  IoHolds'
  <2>1. mem[c] = "live"
    BY <1>4 DEF MessageTake, LifeInv, NoUser
  <2>2. QED
    BY <1>4, <2>1 DEF MessageTake
<1>5. ASSUME NEW c \in Conns, ConnectionEvent(c)
      PROVE  IoHolds'
  <2>1. mem[c] = "live"
    BY <1>5 DEF ConnectionEvent, LifeInv, BatchNames
  <2>2. QED
    BY <1>5, <2>1 DEF ConnectionEvent, IsValid
<1>6. CASE InboxAddFails
  <2>1. iopc' = "dispatch"
    BY <1>6 DEF InboxAddFails
  <2>2. QED
    BY <2>1
<1>7. CASE MessageRelease
  <2>1. iopc' = "dispatch"
    BY <1>7 DEF MessageRelease
  <2>2. QED
    BY <2>1
<1>8. CASE ReleaseBase
  <2>1. /\ iocur \in Conns /\ closing[iocur] /\ UNCHANGED closing
        /\ mem' = IF ref[iocur] <= 1 THEN [mem EXCEPT ![iocur] = "freed"] ELSE mem
    BY <1>8, BaseReleased
  <2>2. iopc' = "dispatch" \/ (iopc' = "check" /\ iocur' = iocur)
    BY <1>8 DEF ReleaseBase, NextEvent, HandlerReturns
  <2>3. batch' = batch /\ iopc = "release"
    BY <1>8 DEF ReleaseBase
  <2>4. QED
    BY <2>1, <2>2, <2>3
<1>9. CASE ReadAgain \/ WriteDone \/ WriteAgain
  BY <1>9 DEF ReadAgain, WriteDone, WriteAgain, HandlerReturns, Handling
<1>10. CASE MarkClosing
  <2>1. iocur \in Conns /\ ~closing[iocur] /\ fd[iocur] \in Fds /\ iofd = fd[iocur]
    BY <1>10 DEF MarkClosing, LifeInv, IoHolds, Blocks
  <2>2. closing' = [closing EXCEPT ![iocur] = TRUE] /\ reg' = [reg EXCEPT ![iofd] = NoReg]
    BY <1>10, <2>1 DEF MarkClosing, Close
  <2>3. QED
    BY <1>10, <2>1, <2>2 DEF MarkClosing
<1>11. CASE CheckAfterHandler
  \* The one place where conn_is_valid may look at a freed block.
  <2>1. CASE iopc' = "handle"
    <3>1. TRUE \in IsValid(iocur) /\ UNCHANGED <<iocur, iofd, batch, mem, closing, fd>>
      BY <1>11, <2>1 DEF CheckAfterHandler, NextEvent
    <3>2. mem[iocur] = "live" /\ ~closing[iocur]
      BY <1>11, <3>1 DEF IsValid, CheckAfterHandler
    <3>3. QED
      BY <1>11, <2>1, <3>1, <3>2 DEF CheckAfterHandler
  <2>2. CASE iopc' = "dispatch"
    BY <2>2
  <2>3. QED
    BY <1>11, <2>1, <2>2 DEF CheckAfterHandler, NextEvent
<1>12. CASE CreateFails \/ EventLoopWait \/ BatchDone \/ InboxAdd \/ MessagesDone
           \/ ReadRequest \/ ReadRequestFails \/ StartClose \/ DeleteEvent
  BY <1>12 DEF CreateFails, EventLoopWait, BatchDone, InboxAdd, MessagesDone, ReadRequest,
     ReadRequestFails, StartClose, DeleteEvent, Handling
<1>13. ASSUME NEW w \in Workers, WorkerCheck(w) \/ WorkerSend(w) \/ WorkerSendFails(w)
       PROVE  IoHolds'
  BY <1>13 DEF WorkerCheck, WorkerSend, WorkerSendFails, Handling
<1>14. ASSUME NEW f \in Fds, Accept(f)
       PROVE  IoHolds'
  BY <1>14 DEF Accept, Handling
<1>15. ASSUME NEW w \in Workers, NEW c \in Conns, WorkerTake(w, c)
       PROVE  IoHolds'
  BY <1>15 DEF WorkerTake, Handling
<1>16. CASE UNCHANGED vars
  BY <1>16 DEF vars
<1>17. QED
  BY <1>1, <1>2, <1>3, <1>4, <1>5, <1>6, <1>7, <1>8, <1>9, <1>10, <1>11, <1>12, <1>13,
     <1>14, <1>15, <1>16
  DEF Next, MainStep, WorkerStep, IoStep

\* Descriptors: each changes hands from accept to its connection and from there to
\* the kernel, and never has two owners.
LEMMA FdOwnershipStep == LifeInv /\ [Next]_vars => FdOwnership'
<1> SUFFICES ASSUME LifeInv, [Next]_vars
             PROVE  FdOwnership'
  OBVIOUS
<1>0. FdOwnership /\ TypeOK
  BY DEF LifeInv
<1>a. /\ closing \in [Conns -> BOOLEAN] /\ NoFd \notin Fds /\ open \subseteq Fds
      /\ mem \in [Conns -> {"none", "live", "freed"}] /\ ref \in [Conns -> Int]
      /\ fd \in [Conns -> Fds \cup {NoFd}]
  BY LifecycleAssumption DEF LifeInv, TypeOK
<1>b. MainHolds
  BY DEF LifeInv
<1> USE <1>0, <1>a DEF FdOwnership, MainHolds
<1>1. ASSUME NEW f \in Fds, Accept(f)
      PROVE  FdOwnership'
  BY <1>1, <1>b DEF Accept
<1>2. ASSUME NEW c \in Conns, AddConnection(c)
      PROVE  FdOwnership'
  <2>1. mfd \in open /\ mfd \in Fds /\ \A b \in Conns : fd[b] # mfd
    BY <1>2, <1>b DEF AddConnection
  <2>2. /\ fd' = [fd EXCEPT ![c] = mfd] /\ mem' = [mem EXCEPT ![c] = "live"]
        /\ open' = open /\ mfd' = NoFd
    BY <1>2 DEF AddConnection
  <2>3. fd[c] = NoFd
    BY <1>2 DEF AddConnection
  <2>4. QED
    BY <2>1, <2>2, <2>3
<1>3. CASE AddRefused \/ CloseClient
  BY <1>3, <1>b DEF AddRefused, CloseClient, Close
<1>4. ASSUME NEW w \in Workers, WorkerDestroy(w)
      PROVE  FdOwnership'
  <2>1. \A c \in Conns : mem'[c] = mem[c] \/ closing[c]
    BY <1>4, WorkerRelease
  <2>2. UNCHANGED <<fd, open, mfd>>
    BY <1>4, WorkerRelease DEF WorkerDestroy
  <2>3. QED
    BY <2>1, <2>2 DEF LifeInv, Blocks
<1>5. CASE MessageRelease
  <2>1. \A c \in Conns : mem'[c] = mem[c] \/ closing[c]
    BY <1>5, MessageReleased
  <2>2. UNCHANGED <<fd, open, mfd>>
    BY <1>5, MessageReleased DEF MessageRelease
  <2>3. QED
    BY <2>1, <2>2 DEF LifeInv, Blocks
<1>6. CASE ReleaseBase
  <2>1. \A c \in Conns : mem'[c] = mem[c] \/ closing[c]
    BY <1>6, BaseReleased
  <2>2. UNCHANGED <<fd, open, mfd>>
    BY <1>6, BaseReleased DEF ReleaseBase
  <2>3. QED
    BY <2>1, <2>2 DEF LifeInv, Blocks
<1>7. CASE InboxAddFails
  <2>1. PICK h \in Conns : /\ h = Head(inbox) /\ mem[h] = "live" /\ fd[h] \in Fds
                           /\ mem' = [mem EXCEPT ![h] = "freed"]
                           /\ fd' = [fd EXCEPT ![h] = NoFd] /\ open' = open \ {fd[h]}
    BY <1>7, HeadReleased
  <2>2. mfd' = mfd
    BY <1>7 DEF InboxAddFails
  <2>3. QED
    BY <2>1, <2>2
<1>8. CASE MarkClosing
  <2>1. iocur \in Conns /\ ~closing[iocur]
    BY <1>8 DEF MarkClosing, LifeInv, IoHolds
  <2>2. /\ fd' = [fd EXCEPT ![iocur] = NoFd] /\ open' = open \ {fd[iocur]}
        /\ mfd' = mfd /\ mem' = mem
    BY <1>8, <2>1 DEF MarkClosing, Close
  <2>3. QED
    BY <2>1, <2>2
<1>9. CASE CreateFails \/ EventLoopWait \/ BatchDone \/ InboxAdd \/ MessagesDone
           \/ ReadRequest \/ ReadRequestFails \/ ReadAgain \/ WriteDone \/ WriteAgain
           \/ StartClose \/ DeleteEvent \/ CheckAfterHandler
  BY <1>9 DEF CreateFails, EventLoopWait, BatchDone, InboxAdd, MessagesDone, ReadRequest,
     ReadRequestFails, ReadAgain, WriteDone, WriteAgain, StartClose, DeleteEvent,
     CheckAfterHandler
<1>10. ASSUME NEW w \in Workers, WorkerCheck(w) \/ WorkerSend(w) \/ WorkerSendFails(w)
       PROVE  FdOwnership'
  BY <1>10 DEF WorkerCheck, WorkerSend, WorkerSendFails
<1>11. ASSUME NEW w \in Workers, NEW c \in Conns, WorkerTake(w, c)
       PROVE  FdOwnership'
  BY <1>11 DEF WorkerTake
<1>12. ASSUME NEW c \in Conns, MessageTake(c)
       PROVE  FdOwnership'
  BY <1>12 DEF MessageTake
<1>13. ASSUME NEW c \in Conns, ConnectionEvent(c)
       PROVE  FdOwnership'
  BY <1>13 DEF ConnectionEvent
<1>14. CASE UNCHANGED vars
  BY <1>14 DEF vars
<1>15. QED
  BY <1>1, <1>2, <1>3, <1>4, <1>5, <1>6, <1>7, <1>8, <1>9, <1>10, <1>11, <1>12, <1>13, <1>14
  DEF Next, MainStep, WorkerStep, IoStep

\* A connection leaves the pipe for the epoll set in one step, and leaves the epoll
\* set only when it is closing or freed.
LEMMA NoOrphanStep == LifeInv /\ [Next]_vars => NoOrphan'
<1> SUFFICES ASSUME LifeInv, [Next]_vars
             PROVE  NoOrphan'
  OBVIOUS
<1>0. NoOrphan /\ TypeOK
  BY DEF LifeInv
<1>a. /\ closing \in [Conns -> BOOLEAN] /\ ref \in [Conns -> Int]
      /\ mem \in [Conns -> {"none", "live", "freed"}] /\ fd \in [Conns -> Fds \cup {NoFd}]
      /\ reg \in [Fds -> [conn : Conns \cup {NoConn}, want : {"read", "write"}]]
  BY DEF LifeInv, TypeOK
<1> USE <1>0, <1>a DEF NoOrphan
<1>1. ASSUME NEW c \in Conns, AddConnection(c)
      PROVE  NoOrphan'
  <2>1. \A b \in Conns : InInbox(b)' <=> InInbox(b) \/ b = c
    BY <1>1, InboxAppend DEF AddConnection
  <2>2. QED
    BY <1>1, <2>1 DEF AddConnection
<1>2. CASE AddRefused \/ CloseClient
  <2>1. \A b \in Conns : fd[b] # mfd
    BY <1>2 DEF AddRefused, CloseClient, LifeInv, MainHolds
  <2>2. QED
    BY <1>2, <2>1, InboxSame DEF AddRefused, CloseClient, Close
<1>3. ASSUME NEW w \in Workers, WorkerDestroy(w)
      PROVE  NoOrphan'
  <2>1. \A c \in Conns : mem'[c] = "live" => mem[c] = "live"
    BY <1>3, WorkerRelease
  <2>2. UNCHANGED <<closing, fd, reg, inbox>>
    BY <1>3, WorkerRelease DEF WorkerDestroy
  <2>3. QED
    BY <2>1, <2>2, InboxSame
<1>4. CASE MessageRelease
  <2>1. \A c \in Conns : mem'[c] = "live" => mem[c] = "live"
    BY <1>4, MessageReleased
  <2>2. UNCHANGED <<closing, fd, reg, inbox>>
    BY <1>4, MessageReleased DEF MessageRelease
  <2>3. QED
    BY <2>1, <2>2, InboxSame
<1>5. CASE ReleaseBase
  <2>1. \A c \in Conns : mem'[c] = "live" => mem[c] = "live"
    BY <1>5, BaseReleased
  <2>2. UNCHANGED <<closing, fd, reg, inbox>>
    BY <1>5, BaseReleased DEF ReleaseBase
  <2>3. QED
    BY <2>1, <2>2, InboxSame
<1>6. CASE InboxAdd
  <2>1. PICK h \in Conns : h = Head(inbox) /\ InInbox(h)
    BY <1>6, InboxTail DEF InboxAdd, LifeInv
  <2>2. \A b \in Conns : InInbox(b)' <=> InInbox(b) /\ b # h
    BY <1>6, <2>1, InboxTail DEF InboxAdd, LifeInv
  <2>3. /\ UNCHANGED <<fd, mem, closing>>
        /\ reg' = [reg EXCEPT ![fd[h]] = [conn |-> h, want |-> "read"]]
    BY <1>6, <2>1 DEF InboxAdd
  <2>4. mem[h] = "live" /\ ~closing[h] /\ fd[h] \in Fds
    BY <2>1 DEF LifeInv, InboxFresh, Blocks
  <2>5. ASSUME NEW b \in Conns, mem[b] = "live", ~closing[b], b # h
        PROVE  InInbox(b)' \/ (fd[b] \in Fds /\ reg'[fd[b]].conn = b)
    <3>1. CASE InInbox(b)
      BY <2>2, <2>5, <3>1
    <3>2. CASE fd[b] \in Fds /\ reg[fd[b]].conn = b
      BY <2>3, <2>4, <2>5, <3>2, LifecycleAssumption DEF LifeInv, FdOwnership
    <3>3. QED
      BY <2>5, <3>1, <3>2
  <2>6. QED
    BY <2>3, <2>4, <2>5
<1>7. CASE InboxAddFails
  <2>1. PICK h \in Conns : /\ h = Head(inbox) /\ fd[h] \in Fds /\ UNCHANGED closing
                           /\ mem' = [mem EXCEPT ![h] = "freed"]
                           /\ fd' = [fd EXCEPT ![h] = NoFd] /\ reg' = [reg EXCEPT ![fd[h]] = NoReg]
    BY <1>7, HeadReleased
  <2>2. \A b \in Conns : InInbox(b)' <=> InInbox(b) /\ b # h
    BY <1>7, <2>1, InboxTail DEF InboxAddFails, LifeInv
  <2>3. \A b \in Conns : b # h => fd[b] # fd[h]
    BY <2>1, LifecycleAssumption DEF LifeInv, FdOwnership
  <2>4. QED
    BY <2>1, <2>2, <2>3
<1>8. ASSUME NEW c \in Conns, MessageTake(c)
      PROVE  NoOrphan'
  <2>1. \A b \in Conns : b # c /\ fd[c] \in Fds => fd[b] # fd[c]
    BY LifecycleAssumption DEF LifeInv, FdOwnership
  <2>2. QED
    BY <1>8, <2>1, InboxSame DEF MessageTake, Modify
<1>9. CASE WriteDone
  <2>1. iocur \in Conns
    BY <1>9 DEF WriteDone, Handling, LifeInv, IoHolds
  <2>2. \A b \in Conns : b # iocur /\ fd[iocur] \in Fds => fd[b] # fd[iocur]
    BY <2>1, LifecycleAssumption DEF LifeInv, FdOwnership
  <2>3. QED
    BY <1>9, <2>1, <2>2, InboxSame DEF WriteDone, Modify
<1>10. CASE MarkClosing
  <2>1. iocur \in Conns /\ ~closing[iocur] /\ fd[iocur] \in Fds
    BY <1>10 DEF MarkClosing, LifeInv, IoHolds, Blocks
  <2>2. \A b \in Conns : b # iocur => fd[b] # fd[iocur]
    BY <2>1, LifecycleAssumption DEF LifeInv, FdOwnership
  <2>3. /\ fd' = [fd EXCEPT ![iocur] = NoFd] /\ reg' = [reg EXCEPT ![fd[iocur]] = NoReg]
        /\ closing' = [closing EXCEPT ![iocur] = TRUE] /\ UNCHANGED <<mem, inbox>>
    BY <1>10, <2>1 DEF MarkClosing, Close
  <2>4. QED
    BY <2>1, <2>2, <2>3, InboxSame
<1>11. CASE DeleteEvent
  <2>1. UNCHANGED <<fd, mem, closing, inbox, reg>>
    BY <1>11 DEF DeleteEvent, LifeInv, IoHolds
  <2>2. QED
    BY <2>1, InboxSame
<1>12. CASE CreateFails \/ EventLoopWait \/ BatchDone \/ MessagesDone \/ ReadRequest
           \/ ReadRequestFails \/ ReadAgain \/ WriteAgain \/ StartClose
           \/ CheckAfterHandler
  BY <1>12, InboxSame DEF CreateFails, EventLoopWait, BatchDone, MessagesDone, ReadRequest,
     ReadRequestFails, ReadAgain, WriteAgain, StartClose, CheckAfterHandler
<1>13. ASSUME NEW w \in Workers, WorkerCheck(w) \/ WorkerSend(w) \/ WorkerSendFails(w)
       PROVE  NoOrphan'
  BY <1>13, InboxSame DEF WorkerCheck, WorkerSend, WorkerSendFails
<1>14. ASSUME NEW f \in Fds, Accept(f)
       PROVE  NoOrphan'
  BY <1>14, InboxSame DEF Accept
<1>15. ASSUME NEW w \in Workers, NEW c \in Conns, WorkerTake(w, c)
       PROVE  NoOrphan'
  BY <1>15, InboxSame DEF WorkerTake
<1>16. ASSUME NEW c \in Conns, ConnectionEvent(c)
       PROVE  NoOrphan'
  BY <1>16, InboxSame DEF ConnectionEvent
<1>17. CASE UNCHANGED vars
  BY <1>17, InboxSame DEF vars
<1>18. QED
  BY <1>1, <1>2, <1>3, <1>4, <1>5, <1>6, <1>7, <1>8, <1>9, <1>10, <1>11, <1>12, <1>13,
     <1>14, <1>15, <1>16, <1>17
  DEF Next, MainStep, WorkerStep, IoStep

\* A step that takes nothing from the queues and moves the IO thread between points
\* where it holds the same references leaves the number of references alone.
LEMMA OwedSame ==
    ASSUME UNCHANGED <<tasks, msgs, wconn, lost>>, NEW c \in Conns,
           BaseRef(c)' = BaseRef(c), MessageRef(c)' = MessageRef(c)
    PROVE  Owed(c)' = Owed(c)
BY HoldersType DEF Owed

\* conn_ref and conn_release are paired: every step that makes or drops a reference
\* changes ref_count by as much as what is owed.
LEMMA RefsExactStep == LifeInv /\ [Next]_vars => RefsExact'
<1> SUFFICES ASSUME LifeInv, [Next]_vars
             PROVE  RefsExact'
  OBVIOUS
<1> DEFINE Exact == \A b \in Conns : mem[b] = "live" => ref[b] = Owed(b)
<1>0. TypeOK
  BY DEF LifeInv
<1>e. Exact
  BY RefsOwed DEF LifeInv
<1>a. /\ closing \in [Conns -> BOOLEAN] /\ wconn \in [Workers -> Conns \cup {NoConn}]
      /\ mem \in [Conns -> {"none", "live", "freed"}] /\ ref \in [Conns -> Int]
      /\ tasks \in [Conns -> Nat] /\ msgs \in [Conns -> Nat] /\ lost \in [Conns -> Nat]
  BY DEF LifeInv, TypeOK
<1> SUFFICES Exact'
  BY RefsOwed
<1> USE <1>0, <1>a
<1> HIDE DEF Exact
<1>1. ASSUME NEW c \in Conns, AddConnection(c)
      PROVE  Exact'
  <2>1. Owed(c)' = 1
    <3>1. /\ ~closing[c] /\ tasks[c] = 0 /\ msgs[c] = 0 /\ lost[c] = 0
          /\ \A w \in Workers : wconn[w] # c
          /\ iopc = "message" => iocur # c
      BY <1>1 DEF AddConnection, LifeInv, Blocks, NoUser, IoHolds
    <3>2. UNCHANGED <<closing, tasks, msgs, lost, wconn, iopc, iocur>>
      BY <1>1 DEF AddConnection
    <3>3. BaseRef(c)' = 1 /\ MessageRef(c)' = 0
      BY <3>1, <3>2 DEF BaseRef, MessageRef
    <3>4. Holders(c)' = 0
      BY <3>1, <3>2, HoldersType
    <3>5. QED
      BY <3>1, <3>2, <3>3, <3>4 DEF Owed
  <2>2. \A b \in Conns : Owed(b)' = Owed(b)
    BY <1>1, OwedSame DEF AddConnection, BaseRef, MessageRef
  <2>3. QED
    BY <1>1, <2>1, <2>2, <1>e DEF Exact, AddConnection
<1>2. ASSUME NEW w \in Workers, NEW c \in Conns, WorkerTake(w, c)
      PROVE  Exact'
  <2>1. wconn[w] = NoConn /\ wconn' = [wconn EXCEPT ![w] = c]
    BY <1>2 DEF WorkerTake, LifeInv, WorkerHolds
  <2>2. \A b \in Conns : Holders(b)' = IF b = c THEN Holders(b) + 1 ELSE Holders(b)
    BY <2>1, HoldersTake
  <2>3. \A b \in Conns : tasks'[b] = IF b = c THEN tasks[b] - 1 ELSE tasks[b]
    BY <1>2 DEF WorkerTake
  <2>4. \A b \in Conns : BaseRef(b)' = BaseRef(b) /\ MessageRef(b)' = MessageRef(b)
    BY <1>2 DEF WorkerTake, BaseRef, MessageRef
  <2>5. UNCHANGED <<mem, ref, msgs, lost>>
    BY <1>2 DEF WorkerTake
  <2>6. \A b \in Conns : Owed(b)' = Owed(b)
    BY <2>2, <2>3, <2>4, <2>5, OwedBounds DEF Owed
  <2>7. QED
    BY <2>5, <2>6, <1>e DEF Exact
<1>3. ASSUME NEW w \in Workers, WorkerSend(w)
      PROVE  Exact'
  <2>1. PICK c \in Conns : wconn[w] = c
    BY <1>3 DEF WorkerSend, LifeInv, TypeOK, WorkerHolds
  <2>2. \A b \in Conns : /\ ref'[b] = IF b = c THEN ref[b] + 1 ELSE ref[b]
                         /\ msgs'[b] = IF b = c THEN msgs[b] + 1 ELSE msgs[b]
    BY <1>3, <2>1 DEF WorkerSend
  <2>3. \A b \in Conns : BaseRef(b)' = BaseRef(b) /\ MessageRef(b)' = MessageRef(b)
    BY <1>3 DEF WorkerSend, BaseRef, MessageRef
  <2>4. UNCHANGED <<mem, tasks, wconn, lost>>
    BY <1>3 DEF WorkerSend
  <2>5. \A b \in Conns : Owed(b)' = IF b = c THEN Owed(b) + 1 ELSE Owed(b)
    BY <2>2, <2>3, <2>4, HoldersType, OwedBounds DEF Owed
  <2>6. QED
    BY <2>2, <2>4, <2>5, <1>e DEF Exact
<1>4. ASSUME NEW w \in Workers, WorkerDestroy(w)
      PROVE  Exact'
  <2>1. PICK c \in Conns : wconn[w] = c
    BY <1>4, WorkerRelease
  <2>2. /\ UNCHANGED closing /\ ref' = [ref EXCEPT ![c] = ref[c] - 1]
        /\ \A b \in Conns : mem'[b] = "live" => mem[b] = "live"
    BY <1>4, <2>1, WorkerRelease
  <2>3. wconn' = [wconn EXCEPT ![w] = NoConn] /\ UNCHANGED <<tasks, msgs, lost, iopc, iocur>>
    BY <1>4 DEF WorkerDestroy
  <2>4. \A b \in Conns : Holders(b)' = IF b = c THEN Holders(b) - 1 ELSE Holders(b)
    BY <2>1, <2>3, HoldersDrop
  <2>5. \A b \in Conns : BaseRef(b)' = BaseRef(b) /\ MessageRef(b)' = MessageRef(b)
    BY <2>2, <2>3 DEF BaseRef, MessageRef
  <2>6. \A b \in Conns : Owed(b)' = IF b = c THEN Owed(b) - 1 ELSE Owed(b)
    BY <2>3, <2>4, <2>5, OwedBounds DEF Owed
  <2>7. QED
    BY <2>2, <2>6, <1>e DEF Exact
<1>5. CASE InboxAddFails
  <2>1. PICK h \in Conns : /\ h = Head(inbox) /\ UNCHANGED closing
                           /\ mem' = [mem EXCEPT ![h] = "freed"] /\ ref' = [ref EXCEPT ![h] = 0]
    BY <1>5, HeadReleased
  <2>2. UNCHANGED <<tasks, msgs, wconn, lost, iopc, iocur>>
    BY <1>5 DEF InboxAddFails
  <2>3. \A b \in Conns : Owed(b)' = Owed(b)
    BY <2>1, <2>2, OwedSame DEF BaseRef, MessageRef
  <2>4. QED
    BY <2>1, <2>3, <1>e DEF Exact
<1>6. ASSUME NEW c \in Conns, MessageTake(c)
      PROVE  Exact'
  <2>1. \A b \in Conns : msgs'[b] = IF b = c THEN msgs[b] - 1 ELSE msgs[b]
    BY <1>6 DEF MessageTake
  <2>2. \A b \in Conns : /\ BaseRef(b)' = BaseRef(b)
                         /\ MessageRef(b)' = IF b = c THEN 1 ELSE 0
                         /\ MessageRef(b) = 0
    BY <1>6 DEF MessageTake, BaseRef, MessageRef
  <2>3. UNCHANGED <<mem, ref, tasks, wconn, lost>>
    BY <1>6 DEF MessageTake
  <2>4. \A b \in Conns : Owed(b)' = Owed(b)
    BY <2>1, <2>2, <2>3, HoldersType, OwedBounds DEF Owed
  <2>5. QED
    BY <2>3, <2>4, <1>e DEF Exact
<1>7. CASE MessageRelease
  <2>1. /\ iocur \in Conns /\ UNCHANGED closing /\ ref' = [ref EXCEPT ![iocur] = ref[iocur] - 1]
        /\ \A b \in Conns : mem'[b] = "live" => mem[b] = "live"
    BY <1>7, MessageReleased
  <2>2. \A b \in Conns : /\ BaseRef(b)' = BaseRef(b)
                         /\ MessageRef(b) = IF b = iocur THEN 1 ELSE 0
                         /\ MessageRef(b)' = 0
    BY <1>7, <2>1 DEF MessageRelease, BaseRef, MessageRef
  <2>3. UNCHANGED <<tasks, msgs, wconn, lost>>
    BY <1>7 DEF MessageRelease
  <2>4. \A b \in Conns : Owed(b)' = IF b = iocur THEN Owed(b) - 1 ELSE Owed(b)
    BY <2>2, <2>3, HoldersType, OwedBounds DEF Owed
  <2>5. QED
    BY <2>1, <2>4, <1>e DEF Exact
<1>8. CASE ReleaseBase
  <2>1. /\ iocur \in Conns /\ closing[iocur] /\ ref' = [ref EXCEPT ![iocur] = ref[iocur] - 1]
        /\ UNCHANGED closing /\ \A b \in Conns : mem'[b] = "live" => mem[b] = "live"
    BY <1>8, BaseReleased
  <2>2. iopc = "release" /\ iopc' \in {"dispatch", "check"}
    BY <1>8 DEF ReleaseBase, NextEvent, HandlerReturns
  <2>3. \A b \in Conns : /\ MessageRef(b)' = MessageRef(b)
                         /\ BaseRef(b)' = IF b = iocur THEN BaseRef(b) - 1 ELSE BaseRef(b)
    BY <2>1, <2>2 DEF BaseRef, MessageRef
  <2>4. UNCHANGED <<tasks, msgs, wconn, lost>>
    BY <1>8 DEF ReleaseBase
  <2>5. \A b \in Conns : Owed(b)' = IF b = iocur THEN Owed(b) - 1 ELSE Owed(b)
    BY <2>3, <2>4, HoldersType, OwedBounds DEF Owed
  <2>6. QED
    BY <2>1, <2>5, <1>e DEF Exact
<1>9. CASE ReadRequest
  <2>1. iocur \in Conns
    BY <1>9 DEF ReadRequest, Handling, LifeInv, IoHolds
  <2>2. \A b \in Conns : /\ ref'[b] = IF b = iocur THEN ref[b] + 1 ELSE ref[b]
                         /\ tasks'[b] = IF b = iocur THEN tasks[b] + 1 ELSE tasks[b]
    BY <1>9, <2>1 DEF ReadRequest
  <2>3. \A b \in Conns : BaseRef(b)' = BaseRef(b) /\ MessageRef(b)' = MessageRef(b)
    BY <1>9 DEF ReadRequest, BaseRef, MessageRef
  <2>4. UNCHANGED <<mem, msgs, wconn, lost>>
    BY <1>9 DEF ReadRequest
  <2>5. \A b \in Conns : Owed(b)' = IF b = iocur THEN Owed(b) + 1 ELSE Owed(b)
    BY <2>2, <2>3, <2>4, HoldersType, OwedBounds DEF Owed
  <2>6. QED
    BY <2>2, <2>4, <2>5, <1>e DEF Exact
<1>10. CASE ReadRequestFails
  <2>1. iocur \in Conns
    BY <1>10 DEF ReadRequestFails, Handling, LifeInv, IoHolds
  <2>2. \A b \in Conns : BaseRef(b)' = BaseRef(b) /\ MessageRef(b)' = MessageRef(b)
    BY <1>10 DEF ReadRequestFails, BaseRef, MessageRef
  <2>3. UNCHANGED <<mem, tasks, msgs, wconn>>
    BY <1>10 DEF ReadRequestFails
  <2>4. CASE UNCHANGED <<ref, lost>>
    BY <2>2, <2>3, <2>4, OwedSame, <1>e DEF Exact
  <2>5. CASE /\ ref' = [ref EXCEPT ![iocur] = ref[iocur] + 1]
             /\ lost' = [lost EXCEPT ![iocur] = lost[iocur] + 1]
    <3>1. \A b \in Conns : Owed(b)' = IF b = iocur THEN Owed(b) + 1 ELSE Owed(b)
      BY <2>1, <2>2, <2>3, <2>5, HoldersType, OwedBounds DEF Owed
    <3>2. QED
      BY <2>1, <2>3, <2>5, <3>1, <1>e DEF Exact
  <2>6. QED
    BY <1>10, <2>4, <2>5 DEF ReadRequestFails
<1>11. CASE MarkClosing
  <2>1. iocur \in Conns /\ ~closing[iocur]
    BY <1>11 DEF MarkClosing, LifeInv, IoHolds
  <2>2. \A b \in Conns : BaseRef(b)' = BaseRef(b) /\ MessageRef(b)' = MessageRef(b)
    BY <1>11, <2>1 DEF MarkClosing, BaseRef, MessageRef
  <2>3. UNCHANGED <<mem, ref, tasks, msgs, wconn, lost>>
    BY <1>11 DEF MarkClosing
  <2>4. QED
    BY <2>2, <2>3, OwedSame, <1>e DEF Exact
<1>12. ASSUME NEW f \in Fds, Accept(f)
       PROVE  Exact'
  <2>1. UNCHANGED <<mem, ref, tasks, msgs, wconn, lost>>
    BY <1>12 DEF Accept
  <2>2. \A b \in Conns : BaseRef(b)' = BaseRef(b) /\ MessageRef(b)' = MessageRef(b)
    BY <1>12 DEF Accept, BaseRef, MessageRef
  <2>3. QED
    BY <2>1, <2>2, OwedSame, <1>e DEF Exact
<1>13. CASE AddRefused \/ CreateFails \/ CloseClient
  <2>1. UNCHANGED <<mem, ref, tasks, msgs, wconn, lost>>
    BY <1>13 DEF AddRefused, CreateFails, CloseClient
  <2>2. \A b \in Conns : BaseRef(b)' = BaseRef(b) /\ MessageRef(b)' = MessageRef(b)
    BY <1>13 DEF AddRefused, CreateFails, CloseClient, BaseRef, MessageRef
  <2>3. QED
    BY <2>1, <2>2, OwedSame, <1>e DEF Exact
<1>14. ASSUME NEW w \in Workers, WorkerCheck(w) \/ WorkerSendFails(w)
       PROVE  Exact'
  <2>1. UNCHANGED <<mem, ref, tasks, msgs, wconn, lost>>
    BY <1>14 DEF WorkerCheck, WorkerSendFails
  <2>2. \A b \in Conns : BaseRef(b)' = BaseRef(b) /\ MessageRef(b)' = MessageRef(b)
    BY <1>14 DEF WorkerCheck, WorkerSendFails, BaseRef, MessageRef
  <2>3. QED
    BY <2>1, <2>2, OwedSame, <1>e DEF Exact
<1>15. CASE EventLoopWait \/ BatchDone \/ InboxAdd \/ MessagesDone
  <2>1. UNCHANGED <<mem, ref, tasks, msgs, wconn, lost>>
    BY <1>15 DEF EventLoopWait, BatchDone, InboxAdd, MessagesDone
  <2>2. \A b \in Conns : BaseRef(b)' = BaseRef(b) /\ MessageRef(b)' = MessageRef(b)
    BY <1>15 DEF EventLoopWait, BatchDone, InboxAdd, MessagesDone, BaseRef, MessageRef
  <2>3. QED
    BY <2>1, <2>2, OwedSame, <1>e DEF Exact
<1>16. ASSUME NEW c \in Conns, ConnectionEvent(c)
       PROVE  Exact'
  <2>1. UNCHANGED <<mem, ref, tasks, msgs, wconn, lost>>
    BY <1>16 DEF ConnectionEvent
  <2>2. \A b \in Conns : BaseRef(b)' = BaseRef(b) /\ MessageRef(b)' = MessageRef(b)
    BY <1>16 DEF ConnectionEvent, BaseRef, MessageRef
  <2>3. QED
    BY <2>1, <2>2, OwedSame, <1>e DEF Exact
<1>17. CASE ReadAgain \/ WriteDone \/ WriteAgain
  <2>1. UNCHANGED <<mem, ref, tasks, msgs, wconn, lost>>
    BY <1>17 DEF ReadAgain, WriteDone, WriteAgain
  <2>2. \A b \in Conns : BaseRef(b)' = BaseRef(b) /\ MessageRef(b)' = MessageRef(b)
    BY <1>17 DEF ReadAgain, WriteDone, WriteAgain, HandlerReturns, Handling, BaseRef, MessageRef
  <2>3. QED
    BY <2>1, <2>2, OwedSame, <1>e DEF Exact
<1>18. CASE StartClose \/ DeleteEvent
  <2>1. UNCHANGED <<mem, ref, tasks, msgs, wconn, lost>>
    BY <1>18 DEF StartClose, DeleteEvent
  <2>2. \A b \in Conns : BaseRef(b)' = BaseRef(b) /\ MessageRef(b)' = MessageRef(b)
    BY <1>18 DEF StartClose, DeleteEvent, BaseRef, MessageRef
  <2>3. QED
    BY <2>1, <2>2, OwedSame, <1>e DEF Exact
<1>19. CASE CheckAfterHandler
  <2>1. UNCHANGED <<mem, ref, tasks, msgs, wconn, lost>>
    BY <1>19 DEF CheckAfterHandler
  <2>2. \A b \in Conns : BaseRef(b)' = BaseRef(b) /\ MessageRef(b)' = MessageRef(b)
    BY <1>19 DEF CheckAfterHandler, NextEvent, BaseRef, MessageRef
  <2>3. QED
    BY <2>1, <2>2, OwedSame, <1>e DEF Exact
<1>20. CASE UNCHANGED vars
  <2>1. \A b \in Conns : BaseRef(b)' = BaseRef(b) /\ MessageRef(b)' = MessageRef(b)
    BY <1>20 DEF vars, BaseRef, MessageRef
  <2>2. QED
    BY <1>20, <2>1, OwedSame, <1>e DEF vars, Exact
<1>21. QED
  BY <1>1, <1>2, <1>3, <1>4, <1>5, <1>6, <1>7, <1>8, <1>9, <1>10, <1>11, <1>12, <1>13,
     <1>14, <1>15, <1>16, <1>17, <1>18, <1>19, <1>20
  DEF Next, MainStep, WorkerStep, IoStep

-----------------------------------------------------------------------------
\* The server starts without a connection.
LEMMA LifeInit == Init => LifeInv
<1> SUFFICES ASSUME Init
             PROVE  LifeInv
  OBVIOUS
<1> USE LifecycleAssumption
<1>1. inbox = <<>> /\ inbox \in Seq(Conns) /\ Len(inbox) = 0
  BY EmptySeq DEF Init
<1>2. TypeOK
  <2>1. /\ mem \in [Conns -> {"none", "live", "freed"}] /\ ref \in [Conns -> Int]
        /\ closing \in [Conns -> BOOLEAN] /\ fd \in [Conns -> Fds \cup {NoFd}]
    BY DEF Init
  <2>2. reg \in [Fds -> [conn : Conns \cup {NoConn}, want : {"read", "write"}]]
    BY DEF Init, NoReg
  <2>3. /\ tasks \in [Conns -> Nat] /\ msgs \in [Conns -> Nat] /\ lost \in [Conns -> Nat]
        /\ batch \in [Conns -> SUBSET Bits]
    BY DEF Init
  <2>4. /\ wpc \in [Workers -> {"idle", "check", "process", "send", "destroy"}]
        /\ wconn \in [Workers -> Conns \cup {NoConn}]
    BY DEF Init
  <2>5. QED
    BY <1>1, <2>1, <2>2, <2>3, <2>4 DEF Init, TypeOK
<1>3. \A c \in Conns : ~InInbox(c)
  BY <1>1 DEF InInbox
<1>4. MainHolds /\ Blocks /\ WorkerHolds /\ NoUser
  BY DEF Init, MainHolds, Blocks, WorkerHolds, NoUser
<1>5. EpollNames /\ BatchNames /\ InboxDistinct /\ InboxFresh
  BY <1>1, <1>3 DEF Init, EpollNames, BatchNames, InboxDistinct, InboxFresh
<1>6. IoHolds /\ FdOwnership /\ NoOrphan /\ RefsExact
  BY DEF Init, IoHolds, FdOwnership, NoOrphan, RefsExact
<1>7. QED
  BY <1>2, <1>4, <1>5, <1>6 DEF LifeInv

\* LifeInv is inductive.
LEMMA LifeStep ==
    ASSUME FreedReads \subseteq {FALSE}, LifeInv, [Next]_vars
    PROVE  LifeInv'
BY LifeTypeStep, MainHoldsStep, BlocksStep, EpollNamesStep, BatchNamesStep, InboxFreshStep,
   WorkerHoldsStep, IoHoldsStep, NoUserStep, FdOwnershipStep, NoOrphanStep, RefsExactStep
DEF LifeInv

\* LifeInv holds in every state the program reaches.
LEMMA LifeAlways ==
    ASSUME FreedReads \subseteq {FALSE}
    PROVE  Spec => []LifeInv
<1>1. LifeInv /\ [Next]_vars => LifeInv'
  BY LifeStep
<1>2. QED
  BY <1>1, LifeInit, PTL DEF Spec

\* Every variable keeps its type; in particular no queue count goes below zero.
THEOREM LifeTypeTheorem ==
    ASSUME FreedReads \subseteq {FALSE}
    PROVE  Spec => []TypeOK
<1>1. LifeInv => TypeOK
  BY DEF LifeInv
<1>2. QED
  BY <1>1, LifeAlways, PTL

\* conn_ref and conn_release keep ref_count exact through every interleaving of the
\* main thread, the IO thread and the workers, for any number of each.
THEOREM RefsExactTheorem ==
    ASSUME FreedReads \subseteq {FALSE}
    PROVE  Spec => []RefsExact
<1>1. LifeInv => RefsExact
  BY DEF LifeInv
<1>2. QED
  BY <1>1, LifeAlways, PTL

\* Nobody who will dereference a connection_t holds a pointer to a freed one: not a
\* task, a message, a worker, the pipe, the epoll set, the rest of the batch or a
\* handler of the IO thread.
THEOREM NoDanglingTheorem ==
    ASSUME FreedReads \subseteq {FALSE}
    PROVE  Spec => []NoDanglingReference
<1>1. LifeInv => NoDanglingReference
  <2> SUFFICES ASSUME LifeInv, NEW c \in Conns,
                      \/ tasks[c] > 0 \/ msgs[c] > 0 \/ HeldByWorkers(c) # {}
                      \/ InInbox(c) \/ Registered(c) \/ batch[c] # {} \/ HeldByIoThread(c)
               PROVE  mem[c] = "live"
    BY DEF NoDanglingReference
  <2>1. CASE tasks[c] > 0 \/ msgs[c] > 0
    BY <2>1 DEF LifeInv, NoUser
  <2>2. CASE HeldByWorkers(c) # {}
    BY <2>2 DEF LifeInv, NoUser, HeldByWorkers
  <2>3. CASE InInbox(c) \/ batch[c] # {}
    BY <2>3 DEF LifeInv, InboxFresh, BatchNames
  <2>4. CASE Registered(c)
    <3>1. PICK f \in Fds : reg[f].conn = c
      BY <2>4 DEF Registered
    <3>2. reg[f] # NoReg
      BY <3>1, LifecycleAssumption DEF NoReg
    <3>3. QED
      BY <3>1, <3>2, RegisteredIsLive
  <2>5. CASE HeldByIoThread(c)
    BY <2>5 DEF LifeInv, IoHolds, HeldByIoThread
  <2>6. QED
    BY <2>1, <2>2, <2>3, <2>4, <2>5
<1>2. QED
  BY <1>1, LifeAlways, PTL

\* No close hits a descriptor that was handed out again, and none leaks, although
\* accept may be given a number the IO thread has just closed.
THEOREM FdOwnershipTheorem ==
    ASSUME FreedReads \subseteq {FALSE}
    PROVE  Spec => []FdOwnership
<1>1. LifeInv => FdOwnership
  BY DEF LifeInv
<1>2. QED
  BY <1>1, LifeAlways, PTL

\* No connection is forgotten between the pipe and the epoll set.
THEOREM NoOrphanTheorem ==
    ASSUME FreedReads \subseteq {FALSE}
    PROVE  Spec => []NoOrphan
<1>1. LifeInv => NoOrphan
  BY DEF LifeInv
<1>2. QED
  BY <1>1, LifeAlways, PTL

\* The late event_loop_del, on a number that is closed already, never removes
\* somebody else's registration.
THEOREM DeleteHitsNobodyTheorem ==
    ASSUME FreedReads \subseteq {FALSE}
    PROVE  Spec => []DeleteHitsNobody
<1>1. LifeInv => DeleteHitsNobody
  BY DEF LifeInv, IoHolds, DeleteHitsNobody
<1>2. QED
  BY <1>1, LifeAlways, PTL
=============================================================================
