------------------------ MODULE SampleServersProofs -------------------------
(***************************************************************************)
(* Proofs about the three sample servers, for any number of clients,       *)
(* descriptors and workers and any buffer size.                            *)
(***************************************************************************)
EXTENDS SampleServers, SequenceTheorems, FiniteSetTheorems, WellFoundedInduction, TLAPS

USE DEF clientVars, pollVars, mainVars

-----------------------------------------------------------------------------
(***************************************************************************)
(* The inductive invariant.                                                *)
(***************************************************************************)
\* The kernel's side: a descriptor stands for one connection, the backlog holds the
\* connections that wait for accept, each once.
Sockets ==
    /\ \A c \in Clients : status[c] = "open" <=> fd[c] # None
    /\ \A c, d \in Clients : fd[c] = fd[d] => c = d \/ fd[c] = None
    /\ \A i \in 1 .. Len(backlog) : status[backlog[i]] = "backlog"
    /\ \A i, j \in 1 .. Len(backlog) : backlog[i] = backlog[j] => i = j
    /\ \A c \in Clients : inbuf[c] <= sent

\* Every descriptor the program holds, and every registration, is of a connection
\* that is open.
Named ==
    /\ hand # None => \E c \in Clients : fd[c] = hand
    /\ \A p \in Pollers : \A i \in 1 .. Len(pipe[p]) : \E c \in Clients : fd[c] = pipe[p][i]
    /\ \A p \in Pollers : \A c \in interest[p] : fd[c] # None

\* Every open connection is in the main thread's hand, in a pipe or with a poller.
Owned ==
    \A c \in Clients : fd[c] # None =>
        \/ hand = fd[c]
        \/ \E p \in Pollers : \E i \in 1 .. Len(pipe[p]) : pipe[p][i] = fd[c]
        \/ \E p \in Pollers : c \in interest[p]

\* It is in one of these places only.
HandApart ==
    /\ \A p \in Pollers : \A i \in 1 .. Len(pipe[p]) : pipe[p][i] # hand
    /\ \A p \in Pollers : \A c \in interest[p] : fd[c] # hand

PipesApart ==
    /\ \A p, q \in Pollers : \A i \in 1 .. Len(pipe[p]), j \in 1 .. Len(pipe[q]) :
          pipe[p][i] = pipe[q][j] => p = q /\ i = j
    /\ \A p, q \in Pollers : \A c \in interest[p], i \in 1 .. Len(pipe[q]) : pipe[q][i] # fd[c]

PollersApart ==
    \A p, q \in Pollers : \A c \in Clients : c \in interest[p] /\ c \in interest[q] => p = q

\* An event not yet handled names a connection of this poller, and still finds what
\* it was reported for.
Reports ==
    /\ \A p \in Pollers : \A f \in batch[p] \cap Fds : \E c \in interest[p] : fd[c] = f /\ Readable(c)
    /\ \A p \in Pollers : Pipe \in batch[p] => pipe[p] # <<>>
    /\ \A p \in Pollers : Listen \in batch[p] => p = 1 /\ server # "multithread" /\ backlog # <<>>

\* The late EPOLL_CTL_DEL hits nobody: a poller that has closed a descriptor does not
\* watch the connection that has got its number since.
LateDelete ==
    \A p \in Pollers : \A c \in interest[p] : del[p] # None => fd[c] # del[p]

SampleInv ==
    /\ TypeOK /\ Sockets /\ Named /\ Owned /\ HandApart /\ PipesApart /\ PollersApart /\ Reports
    /\ LateDelete /\ ClosedOnlyWhenGone

-----------------------------------------------------------------------------
(***************************************************************************)
(* Lemmas about the operators.                                             *)
(***************************************************************************)
\* accept returns a descriptor that is free.
LEMMA LowestIsFree ==
    ASSUME FreeFds # {}
    PROVE  LowestFree \in Fds /\ \A c \in Clients : fd[c] # LowestFree
<1>1. FreeFds \subseteq Nat
  BY SampleAssumption DEF FreeFds
<1>2. \E x \in FreeFds : \A y \in FreeFds : ~(<<y, x>> \in OpToRel(<, Nat))
  BY <1>1, NatLessThanWellFounded, WFMin
<1>3. \E x \in FreeFds : \A y \in FreeFds : x <= y
  <2>1. PICK x \in FreeFds : \A y \in FreeFds : ~(<<y, x>> \in OpToRel(<, Nat))
    BY <1>2
  <2>2. \A y \in FreeFds : ~(y < x)
    BY <1>1, <2>1 DEF OpToRel
  <2>3. QED
    BY <1>1, <2>2
<1>4. LowestFree \in FreeFds
  BY <1>3 DEF LowestFree
<1>5. QED
  BY <1>4 DEF FreeFds

\* The connection at the head of the backlog waits for accept.
LEMMA HeadWaits ==
    ASSUME TypeOK, Sockets, backlog # <<>>
    PROVE  /\ Head(backlog) \in Clients /\ status[Head(backlog)] = "backlog"
           /\ fd[Head(backlog)] = None
           /\ Tail(backlog) \in Seq(Clients)
           /\ \A i \in 1 .. Len(Tail(backlog)) :
                 /\ status[Tail(backlog)[i]] = "backlog" /\ Tail(backlog)[i] # Head(backlog)
                 /\ Tail(backlog)[i] \in Clients
           /\ \A i, j \in 1 .. Len(Tail(backlog)) : Tail(backlog)[i] = Tail(backlog)[j] => i = j
<1>1. /\ Len(backlog) \in Nat /\ 1 \in 1 .. Len(backlog) /\ Head(backlog) = backlog[1]
      /\ Head(backlog) \in Clients /\ Tail(backlog) \in Seq(Clients)
      /\ Len(Tail(backlog)) = Len(backlog) - 1
      /\ \A i \in 1 .. Len(Tail(backlog)) : Tail(backlog)[i] = backlog[i + 1]
  BY LenProperties, EmptySeq, HeadTailProperties DEF TypeOK
<1>2. \A i \in 1 .. Len(Tail(backlog)) : i + 1 \in 1 .. Len(backlog) /\ i + 1 # 1
  BY <1>1
<1>3. status[Head(backlog)] = "backlog" /\ fd[Head(backlog)] = None
  BY <1>1 DEF Sockets
<1>4. \A i \in 1 .. Len(Tail(backlog)) :
         /\ status[Tail(backlog)[i]] = "backlog" /\ Tail(backlog)[i] # Head(backlog)
         /\ Tail(backlog)[i] \in Clients
  BY <1>1, <1>2, ElementOfSeq DEF Sockets
<1>5. \A i, j \in 1 .. Len(Tail(backlog)) : Tail(backlog)[i] = Tail(backlog)[j] => i = j
  <2> SUFFICES ASSUME NEW i \in 1 .. Len(Tail(backlog)), NEW j \in 1 .. Len(Tail(backlog)),
                      Tail(backlog)[i] = Tail(backlog)[j]
               PROVE  i = j
    OBVIOUS
  <2>1. i + 1 = j + 1
    BY <1>1, <1>2 DEF Sockets
  <2>2. QED
    BY <1>1, <2>1
<1>6. QED
  BY <1>1, <1>3, <1>4, <1>5

\* A descriptor stands for at most one connection.
LEMMA OpenIsOne ==
    ASSUME TypeOK, Sockets, NEW c \in Clients, fd[c] # None
    PROVE  Open(fd[c]) = {c}
BY DEF Open, Sockets, TypeOK

\* A descriptor is in one place of one pipe.
LEMMA PipesMeet ==
    ASSUME PipesApart, NEW p \in Pollers, NEW q \in Pollers, NEW i \in 1 .. Len(pipe[p]),
           NEW j \in 1 .. Len(pipe[q]), pipe[p][i] = pipe[q][j]
    PROVE  p = q /\ i = j
<1>1. \A r, s \in Pollers : \A k \in 1 .. Len(pipe[r]), l \in 1 .. Len(pipe[s]) :
         pipe[r][k] = pipe[s][l] => r = s /\ k = l
  BY DEF PipesApart
<1>2. QED
  BY <1>1

\* An event that is handled meets the connection it was reported for, of this poller
\* and of no other, readable.
LEMMA EventMeets ==
    ASSUME SampleInv, NEW p \in Pollers, NEW f \in batch[p] \cap Fds
    PROVE  \E c \in Clients : /\ fd[c] = f /\ Open(f) = {c} /\ Readable(c)
                              /\ c \in interest[p] /\ fd[c] # None
                              /\ \A q \in Pollers \ {p} : c \notin interest[q]
<1>1. PICK c \in interest[p] : fd[c] = f /\ Readable(c)
  BY DEF SampleInv, Reports
<1>2. c \in Clients /\ fd[c] # None
  BY <1>1 DEF SampleInv, TypeOK, Named
<1>3. Open(f) = {c}
  BY <1>1, <1>2, OpenIsOne DEF SampleInv
<1>4. \A q \in Pollers \ {p} : c \notin interest[q]
  BY <1>2 DEF SampleInv, PollersApart
<1>5. QED
  BY <1>1, <1>2, <1>3, <1>4

-----------------------------------------------------------------------------
(***************************************************************************)
(* Every step keeps the types.                                             *)
(***************************************************************************)
\* Descriptors, events and the worker number stay in their sets.
LEMMA SampleTypeStep == SampleInv /\ [Next]_vars => TypeOK'
<1> SUFFICES ASSUME SampleInv, [Next]_vars
             PROVE  TypeOK'
  OBVIOUS
<1> USE SampleAssumption
<1>a. TypeOK /\ Sockets /\ Reports
  BY DEF SampleInv
<1>b. edge' \in [Pollers -> SUBSET Clients] \/ ~(\E c \in Clients : Raise(c))
  BY <1>a DEF TypeOK, Raise
<1>1. ASSUME NEW c \in Clients, Connect(c)
      PROVE  TypeOK'
  <2>1. backlog' \in Seq(Clients)
    BY <1>a, <1>1, AppendProperties DEF Connect, TypeOK
  <2>2. QED
    BY <1>a, <1>1, <2>1 DEF Connect, TypeOK
<1>2. ASSUME NEW c \in Clients, Send(c)
      PROVE  TypeOK'
  <2>1. sent' \in 0 .. MaxSent /\ inbuf' \in [Clients -> 0 .. MaxSent]
    <3>1. inbuf[c] <= sent /\ inbuf[c] \in 0 .. MaxSent /\ sent \in 0 .. MaxSent /\ sent < MaxSent
      BY <1>a, <1>2 DEF Send, TypeOK, Sockets
    <3>2. inbuf[c] + 1 \in 0 .. MaxSent /\ sent + 1 \in 0 .. MaxSent
      BY <3>1
    <3>3. QED
      BY <1>a, <1>2, <3>2 DEF Send, TypeOK
  <2>2. QED
    BY <1>a, <1>b, <1>2, <2>1 DEF Send, TypeOK
<1>3. ASSUME NEW c \in Clients, HangUp(c)
      PROVE  TypeOK'
  BY <1>a, <1>b, <1>3 DEF HangUp, TypeOK
<1>4. ASSUME NEW p \in Pollers, Wait(p)
      PROVE  TypeOK'
  <2>1. batch' \in [Pollers -> SUBSET (Fds \cup {Listen, Pipe})]
    <3>1. \A c \in interest[p] : fd[c] \in Fds
      BY <1>a DEF SampleInv, Named, TypeOK
    <3>2. QED
      BY <1>a, <1>4, <3>1 DEF Wait, TypeOK
  <2>2. edge' \in [Pollers -> SUBSET Clients]
    BY <1>a, <1>4 DEF Wait, TypeOK
  <2>3. QED
    BY <1>a, <1>4, <2>1, <2>2 DEF Wait, TypeOK
<1>5. ASSUME NEW p \in Pollers, WaitFails(p)
      PROVE  TypeOK'
  BY <1>a, <1>5 DEF WaitFails, TypeOK
<1>6. ASSUME NEW p \in Pollers, AcceptHere(p)
      PROVE  TypeOK'
  <2>1. batch' \in [Pollers -> SUBSET (Fds \cup {Listen, Pipe})] /\ backlog # <<>>
    BY <1>a, <1>6 DEF AcceptHere, TypeOK, Reports
  <2>2. CASE FreeFds # {}
    <3>1. Accepted /\ Register(p, {Head(backlog)}) /\ Head(backlog) \in Clients
      BY <1>a, <1>6, <2>1, <2>2, HeadWaits DEF AcceptHere
    <3>2. backlog' \in Seq(Clients) /\ LowestFree \in Fds
      BY <1>a, <2>1, <2>2, <3>1, HeadWaits, LowestIsFree DEF Accepted
    <3>3. /\ status' \in [Clients -> {"new", "backlog", "open", "closed"}]
          /\ fd' \in [Clients -> Fds \cup {None}]
      BY <1>a, <3>1, <3>2 DEF Accepted, TypeOK
    <3>4. interest' \in [Pollers -> SUBSET Clients] /\ edge' \in [Pollers -> SUBSET Clients]
      BY <1>a, <3>1 DEF Register, TypeOK
    <3>5. QED
      BY <1>a, <1>6, <2>1, <3>2, <3>3, <3>4 DEF AcceptHere, TypeOK
  <2>3. CASE FreeFds = {}
    BY <1>a, <1>6, <2>1, <2>3 DEF AcceptHere, TypeOK
  <2>4. QED
    BY <2>2, <2>3
<1>7. ASSUME NEW p \in Pollers, WorkerReceive(p)
      PROVE  TypeOK'
  <2>1. batch' \in [Pollers -> SUBSET (Fds \cup {Listen, Pipe})]
    BY <1>a, <1>7 DEF WorkerReceive, TypeOK
  <2>2. pipe' \in [Pollers -> Seq(Fds)]
    <3>1. Tail(pipe[p]) \in Seq(Fds)
      BY <1>a, <1>7, HeadTailProperties DEF WorkerReceive, TypeOK, Reports
    <3>2. QED
      BY <1>a, <1>7, <3>1 DEF WorkerReceive, TypeOK
  <2>3. interest' \in [Pollers -> SUBSET Clients] /\ edge' \in [Pollers -> SUBSET Clients]
    BY <1>a, <1>7 DEF WorkerReceive, Register, Open, TypeOK
  <2>4. QED
    BY <1>a, <1>7, <2>1, <2>2, <2>3 DEF WorkerReceive, TypeOK
<1>8. ASSUME NEW p \in Pollers, NEW f \in Fds, ReadEvent(p, f)
      PROVE  TypeOK'
  <2>1. batch' \in [Pollers -> SUBSET (Fds \cup {Listen, Pipe})]
    BY <1>a, <1>8 DEF ReadEvent, TypeOK
  <2>2. PICK c \in Clients : Open(f) = {c}
    BY <1>8, EventMeets DEF ReadEvent
  <2>3. CASE \E d \in Open(f) : inbuf[d] > 0
    <3>1. (CHOOSE d \in Open(f) : TRUE) = c
      BY <2>2
    <3> DEFINE n == IF inbuf[c] < BUFFER_SIZE THEN inbuf[c] ELSE BUFFER_SIZE
    <3>2. /\ inbuf' = [inbuf EXCEPT ![c] = inbuf[c] - n]
          /\ left' = (IF inbuf[c] > n \/ c \in hungup THEN left \cup {c} ELSE left \ {c})
          /\ UNCHANGED <<status, fd, pollVars, del>>
      BY <1>8, <2>3, <3>1 DEF ReadEvent
    <3>3. inbuf[c] - n \in 0 .. MaxSent
      BY <1>a DEF TypeOK
    <3> HIDE DEF n
    <3>4. inbuf' \in [Clients -> 0 .. MaxSent] /\ left' \subseteq Clients
      BY <1>a, <3>2, <3>3 DEF TypeOK
    <3>5. QED
      BY <1>a, <1>8, <2>1, <3>2, <3>4 DEF ReadEvent, TypeOK
  <2>4. CASE ~(\E d \in Open(f) : inbuf[d] > 0)
    <3>1. Close(Open(f)) /\ del' = [del EXCEPT ![p] = f] /\ UNCHANGED <<inbuf, left>>
      BY <1>8, <2>4 DEF ReadEvent
    <3>2. /\ status' \in [Clients -> {"new", "backlog", "open", "closed"}]
          /\ fd' \in [Clients -> Fds \cup {None}]
          /\ interest' \in [Pollers -> SUBSET Clients] /\ edge' \in [Pollers -> SUBSET Clients]
      BY <1>a, <3>1 DEF Close, TypeOK
    <3>3. QED
      BY <1>a, <1>8, <2>1, <3>1, <3>2 DEF ReadEvent, TypeOK
  <2>5. QED
    BY <2>3, <2>4
<1>9. ASSUME NEW p \in Pollers, Unregister(p)
      PROVE  TypeOK'
  BY <1>a, <1>9 DEF Unregister, TypeOK
<1>10. CASE MainAccept
  <2>1. CASE FreeFds # {} /\ Accepted /\ hand' = LowestFree /\ UNCHANGED ended
    <3>1. Accepted /\ Head(backlog) \in Clients
      BY <1>a, <1>10, <2>1, HeadWaits DEF MainAccept
    <3>2. backlog' \in Seq(Clients) /\ LowestFree \in Fds
      BY <1>a, <1>10, <2>1, <3>1, HeadWaits, LowestIsFree DEF Accepted, MainAccept
    <3>3. /\ status' \in [Clients -> {"new", "backlog", "open", "closed"}]
          /\ fd' \in [Clients -> Fds \cup {None}]
      BY <1>a, <3>1, <3>2 DEF Accepted, TypeOK
    <3>4. QED
      BY <1>a, <1>10, <2>1, <3>2, <3>3 DEF MainAccept, TypeOK
  <2>2. CASE ended' = TRUE /\ UNCHANGED <<backlog, status, fd, hand>>
    BY <1>a, <1>10, <2>2 DEF MainAccept, TypeOK
  <2>3. QED
    BY <1>10, <2>1, <2>2 DEF MainAccept
<1>11. CASE HandOver
  <2>1. current_worker' \in Pollers
    BY <1>a, <1>11 DEF HandOver, TypeOK, Pollers
  <2>2. pipe' \in [Pollers -> Seq(Fds)]
    <3>1. Append(pipe[current_worker], hand) \in Seq(Fds)
      BY <1>a, <1>11, AppendProperties DEF HandOver, TypeOK
    <3>2. QED
      BY <1>a, <1>11, <3>1 DEF HandOver, TypeOK
  <2>3. QED
    BY <1>a, <1>11, <2>1, <2>2 DEF HandOver, TypeOK
<1>12. CASE UNCHANGED vars
  BY <1>a, <1>12 DEF vars, TypeOK
<1>13. QED
  BY <1>1, <1>2, <1>3, <1>4, <1>5, <1>6, <1>7, <1>8, <1>9, <1>10, <1>11, <1>12
     DEF Next, ClientStep, PollerStep, MainStep

-----------------------------------------------------------------------------
(***************************************************************************)
(* Every step keeps the rest of the invariant.                             *)
(***************************************************************************)
\* What is said of owners: it depends on descriptors, pipes and registrations only.
Owners == Named /\ Owned /\ HandApart /\ PipesApart /\ PollersApart /\ LateDelete

Rest == Sockets /\ Owners /\ Reports /\ ClosedOnlyWhenGone

\* Steps that move no descriptor leave its owner alone.
LEMMA OwnersKept ==
    ASSUME Owners, UNCHANGED <<fd, hand, pipe, interest, del>>
    PROVE  Owners'
BY DEF Owners, Named, Owned, HandApart, PipesApart, PollersApart, LateDelete

\* What a client does changes neither descriptors nor registrations; what it sends or
\* its hang-up leaves a readable connection readable.
LEMMA ClientKeeps ==
    ASSUME SampleInv, NEW c \in Clients, ClientStep(c)
    PROVE  Rest'
<1> USE SampleAssumption
<1>a. TypeOK /\ Sockets /\ Owners /\ Reports /\ ClosedOnlyWhenGone
  BY DEF SampleInv, Owners
<1>b. UNCHANGED <<server, fd, hand, pipe, interest, del, batch>>
  BY DEF ClientStep, Connect, Send, HangUp
<1>1. Owners'
  BY <1>a, <1>b, OwnersKept
<1>c. /\ \A p \in Pollers : interest[p] \subseteq Clients
      /\ inbuf \in [Clients -> 0 .. MaxSent] /\ sent \in Nat /\ backlog \in Seq(Clients)
      /\ status \in [Clients -> {"new", "backlog", "open", "closed"}]
      /\ Len(backlog) \in Nat /\ \A i \in 1 .. Len(backlog) : backlog[i] \in Clients
  BY <1>a, LenProperties, ElementOfSeq DEF TypeOK
<1>2. \A d \in Clients : Readable(d) => Readable(d)'
  BY <1>c DEF ClientStep, Connect, Send, HangUp, Readable
<1>3. CASE Connect(c)
  <2>1. /\ Len(backlog') = Len(backlog) + 1 /\ backlog'[Len(backlog) + 1] = c /\ backlog' # <<>>
        /\ \A i \in 1 .. Len(backlog) : backlog'[i] = backlog[i]
    BY <1>c, <1>3, AppendProperties DEF Connect
  <2>2. \A i \in 1 .. Len(backlog') : i \in 1 .. Len(backlog) \/ i = Len(backlog) + 1
    BY <1>c, <2>1
  <2>3. \A i \in 1 .. Len(backlog) : backlog[i] # c
    BY <1>a, <1>3 DEF Connect, Sockets
  <2>4. /\ status[c] = "new" /\ status' = [status EXCEPT ![c] = "backlog"]
        /\ UNCHANGED <<hungup, sent, inbuf>>
    BY <1>3 DEF Connect
  <2>5. \A i \in 1 .. Len(backlog') : status'[backlog'[i]] = "backlog"
    BY <1>a, <1>c, <2>1, <2>2, <2>3, <2>4 DEF Sockets
  <2>6. \A i, j \in 1 .. Len(backlog') : backlog'[i] = backlog'[j] => i = j
    BY <1>a, <2>1, <2>2, <2>3 DEF Sockets
  <2>7. \A d \in Clients : status'[d] = "open" <=> fd[d] # None
    BY <1>a, <1>c, <2>4 DEF Sockets
  <2>8. Sockets'
    BY <1>a, <1>b, <2>4, <2>5, <2>6, <2>7 DEF Sockets
  <2>9. Reports'
    BY <1>a, <1>b, <1>c, <1>2, <2>1 DEF Reports
  <2>10. ClosedOnlyWhenGone'
    BY <1>a, <1>c, <2>4 DEF ClosedOnlyWhenGone
  <2>11. QED
    BY <1>1, <2>8, <2>9, <2>10 DEF Rest
<1>4. CASE Send(c) \/ HangUp(c)
  <2>1. UNCHANGED <<status, backlog>> /\ status[c] # "closed" /\ hungup \subseteq hungup'
    BY <1>4 DEF Send, HangUp
  <2>2. /\ \A d \in Clients \ {c} : inbuf'[d] = inbuf[d]
        /\ sent' >= sent /\ inbuf'[c] <= sent' /\ \A d \in Clients : inbuf'[d] <= sent'
    BY <1>a, <1>c, <1>4 DEF Send, HangUp, Sockets
  <2>3. Sockets'
    BY <1>a, <1>b, <2>1, <2>2 DEF Sockets
  <2>4. Reports'
    BY <1>a, <1>b, <1>c, <1>2, <2>1 DEF Reports
  <2>5. ClosedOnlyWhenGone'
    BY <1>a, <2>1, <2>2 DEF ClosedOnlyWhenGone
  <2>6. QED
    BY <1>1, <2>3, <2>4, <2>5 DEF Rest
<1>5. QED
  BY <1>3, <1>4 DEF ClientStep

\* What is reported is ready; a failing kevent changes nothing.
LEMMA WaitKeeps ==
    ASSUME SampleInv, NEW p \in Pollers, Wait(p) \/ WaitFails(p)
    PROVE  Rest'
<1> USE SampleAssumption
<1>a. TypeOK /\ Sockets /\ Owners /\ Reports /\ ClosedOnlyWhenGone
  BY DEF SampleInv, Owners
<1>b. UNCHANGED <<server, status, hungup, sent, inbuf, backlog, fd, hand, pipe, interest, del>>
  BY DEF Wait, WaitFails
<1>1. Owners' /\ Sockets' /\ ClosedOnlyWhenGone'
  BY <1>a, <1>b, OwnersKept DEF Sockets, ClosedOnlyWhenGone
<1>2. \A d : Readable(d)' <=> Readable(d)
  BY <1>b DEF Readable
<1>3. CASE Wait(p)
  <2> DEFINE due == {c \in interest[p] : Readable(c) /\ (server = "kqueue" \/ c \in edge[p])}
             new == {fd[c] : c \in due}
                    \cup {e \in {Listen} : server # "multithread" /\ p = 1 /\ backlog # <<>>}
                    \cup {e \in {Pipe} : pipe[p] # <<>>}
  <2>1. batch' = [batch EXCEPT ![p] = new]
    BY <1>3 DEF Wait
  <2>2. /\ \A f \in new \cap Fds : \E c \in interest[p] : fd[c] = f /\ Readable(c)
        /\ Pipe \in new => pipe[p] # <<>>
        /\ Listen \in new => p = 1 /\ server # "multithread" /\ backlog # <<>>
    <3>1. Listen \notin Fds /\ Pipe \notin Fds /\ Listen # Pipe
      BY DEF Listen, Pipe
    <3>2. \A c \in due : fd[c] \in Fds
      BY <1>a DEF Owners, Named, TypeOK
    <3>3. QED
      BY <3>1, <3>2
  <2>3. \A q \in Pollers : batch'[q] = IF q = p THEN new ELSE batch[q]
    BY <1>a, <2>1 DEF TypeOK
  <2> HIDE DEF new
  <2>4. Reports'
    <3>1. \A q \in Pollers : \A f \in batch'[q] \cap Fds :
             \E c \in interest[q] : fd[c] = f /\ Readable(c)
      BY <1>a, <2>2, <2>3 DEF Reports
    <3>2. \A q \in Pollers : Pipe \in batch'[q] => pipe[q] # <<>>
      BY <1>a, <2>2, <2>3 DEF Reports
    <3>3. \A q \in Pollers : Listen \in batch'[q] => q = 1 /\ server # "multithread" /\ backlog # <<>>
      BY <1>a, <2>2, <2>3 DEF Reports
    <3>4. QED
      BY <1>b, <1>2, <3>1, <3>2, <3>3 DEF Reports
  <2>5. QED
    BY <1>1, <2>4 DEF Rest
<1>4. CASE WaitFails(p)
  <2>1. batch' = batch
    BY <1>4 DEF WaitFails
  <2>2. Reports'
    BY <1>a, <1>b, <1>2, <2>1 DEF Reports
  <2>3. QED
    BY <1>1, <2>2 DEF Rest
<1>5. QED
  BY <1>3, <1>4

\* A connection that accept returns has a descriptor nobody holds.
LEMMA AcceptFacts ==
    ASSUME SampleInv, backlog # <<>>, FreeFds # {}, Accepted, UNCHANGED <<hungup, sent, inbuf>>
    PROVE  /\ Head(backlog) \in Clients /\ fd[Head(backlog)] = None /\ LowestFree \in Fds
           /\ fd'[Head(backlog)] = LowestFree /\ \A c \in Clients : fd[c] # LowestFree
           /\ \A c \in Clients \ {Head(backlog)} : fd'[c] = fd[c]
           /\ \A p \in Pollers : Head(backlog) \notin interest[p]
           /\ hand # LowestFree
           /\ \A p \in Pollers : \A i \in 1 .. Len(pipe[p]) : pipe[p][i] # LowestFree
           /\ Sockets' /\ ClosedOnlyWhenGone'
<1> USE SampleAssumption
<1> DEFINE h == Head(backlog)
<1>a. TypeOK /\ Sockets /\ Named /\ ClosedOnlyWhenGone
  BY DEF SampleInv
<1>1. h \in Clients /\ fd[h] = None /\ status[h] = "backlog"
  BY <1>a, HeadWaits
<1>2. LowestFree \in Fds /\ \A c \in Clients : fd[c] # LowestFree
  BY LowestIsFree
<1>3. LowestFree # None
  BY <1>2 DEF None
<1>4. /\ fd'[h] = LowestFree /\ \A c \in Clients \ {h} : fd'[c] = fd[c]
      /\ status'[h] = "open" /\ \A c \in Clients \ {h} : status'[c] = status[c]
  BY <1>a, <1>1 DEF Accepted, TypeOK
<1>5. /\ \A p \in Pollers : h \notin interest[p]
      /\ hand # LowestFree
      /\ \A p \in Pollers : \A i \in 1 .. Len(pipe[p]) : pipe[p][i] # LowestFree
  BY <1>a, <1>1, <1>2, <1>3 DEF Named
<1> HIDE DEF h
<1>6. Sockets'
  <2>1. \A c \in Clients : status'[c] = "open" <=> fd'[c] # None
    BY <1>a, <1>1, <1>3, <1>4 DEF Sockets
  <2>2. \A c, d \in Clients : fd'[c] = fd'[d] => c = d \/ fd'[c] = None
    BY <1>a, <1>2, <1>4 DEF Sockets
  <2>3. /\ \A i \in 1 .. Len(backlog') : status'[backlog'[i]] = "backlog"
        /\ \A i, j \in 1 .. Len(backlog') : backlog'[i] = backlog'[j] => i = j
    <3>1. backlog' = Tail(backlog)
      BY DEF Accepted
    <3>2. /\ \A i \in 1 .. Len(Tail(backlog)) :
                /\ status[Tail(backlog)[i]] = "backlog" /\ Tail(backlog)[i] # h
                /\ Tail(backlog)[i] \in Clients
          /\ \A i, j \in 1 .. Len(Tail(backlog)) : Tail(backlog)[i] = Tail(backlog)[j] => i = j
      BY <1>a, HeadWaits DEF h
    <3>3. QED
      BY <1>4, <3>1, <3>2
  <2>4. \A c \in Clients : inbuf'[c] <= sent'
    BY <1>a DEF Sockets
  <2>5. QED
    BY <2>1, <2>2, <2>3, <2>4 DEF Sockets
<1>7. ClosedOnlyWhenGone'
  BY <1>a, <1>4 DEF ClosedOnlyWhenGone
<1>8. QED
  BY <1>1, <1>2, <1>4, <1>5, <1>6, <1>7 DEF h

\* The single-threaded servers register what they accept at once.
LEMMA AcceptHereKeeps ==
    ASSUME SampleInv, NEW p \in Pollers, AcceptHere(p)
    PROVE  Rest'
<1> USE SampleAssumption
<1> DEFINE h == Head(backlog)
<1>a. TypeOK /\ Sockets /\ Owners /\ Reports /\ ClosedOnlyWhenGone
  BY DEF SampleInv, Owners
<1>b. /\ UNCHANGED <<server, hungup, sent, inbuf, hand, pipe, del>> /\ del[p] = None
      /\ backlog # <<>> /\ p = 1
      /\ \A q \in Pollers : batch'[q] \subseteq batch[q] /\ Listen \notin batch'[q]
  BY <1>a DEF AcceptHere, Reports, TypeOK
<1>c. \A d : Readable(d)' <=> Readable(d)
  BY <1>b DEF Readable
<1>d. \A q \in Pollers : interest[q] \subseteq Clients
  BY <1>a DEF TypeOK
<1>1. CASE FreeFds # {}
  <2>1. Accepted /\ Register(p, {h})
    BY <1>1 DEF AcceptHere
  <2>2. /\ h \in Clients /\ fd[h] = None /\ LowestFree \in Fds
        /\ fd'[h] = LowestFree /\ \A c \in Clients : fd[c] # LowestFree
        /\ \A c \in Clients \ {h} : fd'[c] = fd[c]
        /\ \A q \in Pollers : h \notin interest[q]
        /\ hand # LowestFree
        /\ \A q \in Pollers : \A i \in 1 .. Len(pipe[q]) : pipe[q][i] # LowestFree
        /\ Sockets' /\ ClosedOnlyWhenGone'
    BY <1>b, <1>1, <2>1, AcceptFacts
  <2>3. interest'[p] = interest[p] \cup {h} /\ \A q \in Pollers \ {p} : interest'[q] = interest[q]
    BY <1>a, <2>1 DEF Register, TypeOK
  <2>4. LowestFree # None
    BY <2>2 DEF None
  <2> HIDE DEF h
  <2>a. \A q \in Pollers : interest[q] \subseteq interest'[q]
    BY <2>3
  <2>b. \A q \in Pollers : \A c \in interest'[q] :
           \/ c \in interest[q] /\ c \in Clients /\ c # h /\ fd'[c] = fd[c]
           \/ c = h /\ q = p
    <3> SUFFICES ASSUME NEW q \in Pollers, NEW c \in interest'[q]
                 PROVE  \/ c \in interest[q] /\ c \in Clients /\ c # h /\ fd'[c] = fd[c]
                        \/ c = h /\ q = p
      OBVIOUS
    <3>1. c \in interest[q] \/ (c = h /\ q = p)
      BY <2>3
    <3>2. QED
      BY <1>d, <2>2, <3>1
  <2>5. Named'
    <3>1. hand' # None => \E c \in Clients : fd'[c] = hand'
      BY <1>a, <1>b, <2>2 DEF Owners, Named
    <3>2. \A q \in Pollers : \A i \in 1 .. Len(pipe'[q]) : \E c \in Clients : fd'[c] = pipe'[q][i]
      <4>1. \A q \in Pollers : \A i \in 1 .. Len(pipe[q]) : pipe[q][i] \in Fds /\ pipe[q][i] # None
        BY <1>a, ElementOfSeq DEF TypeOK, None
      <4>2. QED
        BY <1>a, <1>b, <2>2, <4>1 DEF Owners, Named
    <3>3. \A q \in Pollers : \A c \in interest'[q] : fd'[c] # None
      BY <1>a, <2>2, <2>4, <2>b DEF Owners, Named
    <3>4. QED
      BY <3>1, <3>2, <3>3 DEF Named
  <2>6. Owned'
    <3> SUFFICES ASSUME NEW c \in Clients, fd'[c] # None
                 PROVE  \/ hand' = fd'[c]
                        \/ \E q \in Pollers : \E i \in 1 .. Len(pipe'[q]) : pipe'[q][i] = fd'[c]
                        \/ \E q \in Pollers : c \in interest'[q]
      BY DEF Owned
    <3>1. CASE c = h
      BY <2>3, <3>1
    <3>2. CASE c # h
      <4>1. fd'[c] = fd[c]
        BY <2>2, <3>2
      <4>2. \/ hand = fd[c]
            \/ \E q \in Pollers : \E i \in 1 .. Len(pipe[q]) : pipe[q][i] = fd[c]
            \/ \E q \in Pollers : c \in interest[q]
        BY <1>a, <4>1 DEF Owners, Owned
      <4>3. QED
        BY <1>b, <2>a, <4>1, <4>2
    <3>3. QED
      BY <3>1, <3>2
  <2>7. HandApart'
    <3>1. \A q \in Pollers : \A c \in interest'[q] : fd'[c] # hand
      BY <1>a, <2>2, <2>b DEF Owners, HandApart
    <3>2. QED
      BY <1>a, <1>b, <3>1 DEF Owners, HandApart
  <2>8. PipesApart'
    <3>1. \A r, q \in Pollers : \A c \in interest'[r], i \in 1 .. Len(pipe[q]) : pipe[q][i] # fd'[c]
      BY <1>a, <2>2, <2>b DEF Owners, PipesApart
    <3>2. QED
      BY <1>a, <1>b, <3>1 DEF Owners, PipesApart
  <2>9. PollersApart'
    <3> SUFFICES ASSUME NEW r \in Pollers, NEW q \in Pollers, NEW c \in Clients,
                        c \in interest'[r], c \in interest'[q]
                 PROVE  r = q
      BY DEF PollersApart
    <3>1. CASE c = h
      BY <2>b, <3>1
    <3>2. CASE c # h
      BY <1>a, <2>b, <3>2 DEF Owners, PollersApart
    <3>3. QED
      BY <3>1, <3>2
  <2>10. LateDelete'
    <3> SUFFICES ASSUME NEW q \in Pollers, NEW c \in interest'[q], del[q] # None
                 PROVE  fd'[c] # del[q]
      BY <1>b DEF LateDelete
    <3>1. c \in interest[q] /\ fd'[c] = fd[c]
      BY <1>b, <2>b
    <3>2. QED
      BY <1>a, <3>1 DEF Owners, LateDelete
  <2>11. Reports'
    <3>1. \A q \in Pollers : \A f \in batch'[q] \cap Fds :
             \E c \in interest'[q] : fd'[c] = f /\ Readable(c)'
      <4> SUFFICES ASSUME NEW q \in Pollers, NEW f \in batch'[q] \cap Fds
                   PROVE  \E c \in interest'[q] : fd'[c] = f /\ Readable(c)'
        OBVIOUS
      <4>1. PICK c \in interest[q] : fd[c] = f /\ Readable(c)
        BY <1>a, <1>b DEF Reports
      <4>2. c \in interest'[q] /\ fd'[c] = f
        BY <1>d, <2>2, <2>a, <4>1
      <4>3. QED
        BY <1>c, <4>1, <4>2
    <3>2. QED
      BY <1>a, <1>b, <3>1 DEF Reports
  <2>12. QED
    BY <2>2, <2>5, <2>6, <2>7, <2>8, <2>9, <2>10, <2>11 DEF Rest, Owners
<1>2. CASE FreeFds = {}
  <2>1. UNCHANGED <<backlog, status, fd, interest, edge>>
    BY <1>2 DEF AcceptHere
  <2>2. Owners' /\ Sockets' /\ ClosedOnlyWhenGone'
    BY <1>a, <1>b, <2>1, OwnersKept DEF Sockets, ClosedOnlyWhenGone
  <2>3. Reports'
    BY <1>a, <1>b, <1>c, <2>1 DEF Reports
  <2>4. QED
    BY <2>2, <2>3 DEF Rest
<1>3. QED
  BY <1>1, <1>2

\* accept puts the descriptor into the main thread's hand, or ends the process.
LEMMA MainAcceptKeeps ==
    ASSUME SampleInv, MainAccept
    PROVE  Rest'
<1> USE SampleAssumption
<1> DEFINE h == Head(backlog)
<1>a. TypeOK /\ Sockets /\ Owners /\ Reports /\ ClosedOnlyWhenGone
  BY DEF SampleInv, Owners
<1>b. /\ UNCHANGED <<server, hungup, sent, inbuf, pipe, interest, batch, del>>
      /\ backlog # <<>> /\ hand = None /\ server = "multithread"
  BY DEF MainAccept
<1>c. \A d : Readable(d)' <=> Readable(d)
  BY <1>b DEF Readable
<1>d. \A q \in Pollers : interest[q] \subseteq Clients
  BY <1>a DEF TypeOK
<1>1. CASE FreeFds # {} /\ Accepted /\ hand' = LowestFree
  <2>1. Accepted /\ hand' = LowestFree
    BY <1>1
  <2>2. /\ h \in Clients /\ fd[h] = None /\ LowestFree \in Fds
        /\ fd'[h] = LowestFree /\ \A c \in Clients : fd[c] # LowestFree
        /\ \A c \in Clients \ {h} : fd'[c] = fd[c]
        /\ \A q \in Pollers : h \notin interest[q]
        /\ hand # LowestFree
        /\ \A q \in Pollers : \A i \in 1 .. Len(pipe[q]) : pipe[q][i] # LowestFree
        /\ Sockets' /\ ClosedOnlyWhenGone'
    BY <1>b, <1>1, <2>1, AcceptFacts
  <2> HIDE DEF h
  <2>3. Named'
    <3>1. \A q \in Pollers : \A i \in 1 .. Len(pipe'[q]) : \E c \in Clients : fd'[c] = pipe'[q][i]
      <4>1. \A q \in Pollers : \A i \in 1 .. Len(pipe[q]) : pipe[q][i] \in Fds /\ pipe[q][i] # None
        BY <1>a, ElementOfSeq DEF TypeOK, None
      <4>2. QED
        BY <1>a, <1>b, <2>2, <4>1 DEF Owners, Named
    <3>2. \A q \in Pollers : \A c \in interest'[q] : fd'[c] # None
      BY <1>a, <1>b, <1>d, <2>2 DEF Owners, Named
    <3>3. QED
      BY <2>1, <2>2, <3>1, <3>2 DEF Named
  <2>4. Owned'
    <3> SUFFICES ASSUME NEW c \in Clients, fd'[c] # None
                 PROVE  \/ hand' = fd'[c]
                        \/ \E q \in Pollers : \E i \in 1 .. Len(pipe'[q]) : pipe'[q][i] = fd'[c]
                        \/ \E q \in Pollers : c \in interest'[q]
      BY DEF Owned
    <3>1. CASE c = h
      BY <2>1, <2>2, <3>1
    <3>2. CASE c # h
      BY <1>a, <1>b, <2>2, <3>2 DEF Owners, Owned
    <3>3. QED
      BY <3>1, <3>2
  <2>5. HandApart'
    BY <1>b, <1>d, <2>1, <2>2 DEF HandApart
  <2>6. PipesApart'
    <3>1. \A r, q \in Pollers : \A c \in interest[r], i \in 1 .. Len(pipe[q]) : pipe[q][i] # fd'[c]
      <4>1. \A r \in Pollers : \A c \in interest[r] : fd'[c] = fd[c]
        BY <1>d, <2>2
      <4>2. QED
        BY <1>a, <4>1 DEF Owners, PipesApart
    <3>2. QED
      BY <1>a, <1>b, <3>1 DEF Owners, PipesApart
  <2>7. PollersApart'
    BY <1>a, <1>b DEF Owners, PollersApart
  <2>8. LateDelete'
    BY <1>a, <1>b, <1>d, <2>2 DEF Owners, LateDelete
  <2>9. Reports'
    <3>1. \A q \in Pollers : \A f \in batch'[q] \cap Fds :
             \E c \in interest'[q] : fd'[c] = f /\ Readable(c)'
      <4> SUFFICES ASSUME NEW q \in Pollers, NEW f \in batch'[q] \cap Fds
                   PROVE  \E c \in interest'[q] : fd'[c] = f /\ Readable(c)'
        OBVIOUS
      <4>1. PICK c \in interest[q] : fd[c] = f /\ Readable(c)
        BY <1>a, <1>b DEF Reports
      <4>2. c \in interest'[q] /\ fd'[c] = f
        BY <1>b, <1>d, <2>2, <4>1
      <4>3. QED
        BY <1>c, <4>1, <4>2
    <3>2. QED
      BY <1>a, <1>b, <3>1 DEF Reports
  <2>10. QED
    BY <2>2, <2>3, <2>4, <2>5, <2>6, <2>7, <2>8, <2>9 DEF Rest, Owners
<1>2. CASE UNCHANGED <<backlog, status, fd, hand>>
  <2>1. UNCHANGED <<backlog, status, fd, hand>>
    BY <1>2
  <2>2. Owners' /\ Sockets' /\ ClosedOnlyWhenGone'
    BY <1>a, <1>b, <2>1, OwnersKept DEF Sockets, ClosedOnlyWhenGone
  <2>3. Reports'
    BY <1>a, <1>b, <1>c, <2>1 DEF Reports
  <2>4. QED
    BY <2>2, <2>3 DEF Rest
<1>3. QED
  BY <1>1, <1>2 DEF MainAccept

\* The descriptor goes from the main thread's hand to the end of one pipe.
LEMMA HandOverKeeps ==
    ASSUME SampleInv, HandOver
    PROVE  Rest'
<1> USE SampleAssumption
<1> DEFINE w == current_worker
<1>a. TypeOK /\ Sockets /\ Owners /\ Reports /\ ClosedOnlyWhenGone
  BY DEF SampleInv, Owners
<1>b. /\ UNCHANGED <<server, status, hungup, sent, inbuf, backlog, fd, interest, batch, del>>
      /\ hand # None /\ hand \in Fds /\ hand' = None /\ w \in Pollers
      /\ pipe' = [pipe EXCEPT ![w] = Append(pipe[w], hand)]
  BY <1>a DEF HandOver, TypeOK
<1>c. Sockets' /\ ClosedOnlyWhenGone'
  BY <1>a, <1>b DEF Sockets, ClosedOnlyWhenGone
<1>d. \A d : Readable(d)' <=> Readable(d)
  BY <1>b DEF Readable
<1> HIDE DEF w
<1>1. /\ pipe[w] \in Seq(Fds) /\ Len(pipe[w]) \in Nat
      /\ Len(pipe'[w]) = Len(pipe[w]) + 1 /\ pipe'[w][Len(pipe[w]) + 1] = hand
      /\ \A i \in 1 .. Len(pipe[w]) : pipe'[w][i] = pipe[w][i]
      /\ pipe'[w] # <<>>
  <2>1. pipe[w] \in Seq(Fds) /\ pipe'[w] = Append(pipe[w], hand)
    BY <1>a, <1>b DEF TypeOK
  <2>2. QED
    BY <1>b, <2>1, AppendProperties, LenProperties
<1>2. /\ \A q \in Pollers \ {w} : pipe'[q] = pipe[q]
      /\ \A i \in 1 .. Len(pipe'[w]) : i \in 1 .. Len(pipe[w]) \/ i = Len(pipe[w]) + 1
      /\ Len(pipe[w]) + 1 \in 1 .. Len(pipe'[w]) /\ 1 .. Len(pipe[w]) \subseteq 1 .. Len(pipe'[w])
  BY <1>a, <1>b, <1>1 DEF TypeOK
<1>3. Named'
  <2>1. \A q \in Pollers : \A i \in 1 .. Len(pipe'[q]) : \E c \in Clients : fd[c] = pipe'[q][i]
    BY <1>a, <1>b, <1>1, <1>2 DEF Owners, Named
  <2>2. QED
    BY <1>a, <1>b, <2>1 DEF Owners, Named
<1>4. Owned'
  <2> SUFFICES ASSUME NEW c \in Clients, fd[c] # None
               PROVE  \/ \E q \in Pollers : \E i \in 1 .. Len(pipe'[q]) : pipe'[q][i] = fd[c]
                      \/ \E q \in Pollers : c \in interest[q]
    BY <1>b DEF Owned
  <2>1. CASE hand = fd[c]
    BY <1>b, <1>1, <1>2, <2>1
  <2>2. ASSUME NEW q \in Pollers, NEW i \in 1 .. Len(pipe[q]), pipe[q][i] = fd[c]
        PROVE  i \in 1 .. Len(pipe'[q]) /\ pipe'[q][i] = fd[c]
    BY <1>1, <1>2, <2>2
  <2>3. QED
    BY <1>a, <2>1, <2>2 DEF Owners, Owned
<1>5. HandApart'
  <2>1. \A q \in Pollers : \A i \in 1 .. Len(pipe'[q]) : pipe'[q][i] # None
    <3>1. \A q \in Pollers : \A i \in 1 .. Len(pipe[q]) : pipe[q][i] \in Fds
      BY <1>a, ElementOfSeq DEF TypeOK
    <3>2. \A q \in Pollers : \A i \in 1 .. Len(pipe'[q]) : pipe'[q][i] \in Fds
      BY <1>b, <1>1, <1>2, <3>1
    <3>3. QED
      BY <3>2 DEF None
  <2>2. QED
    BY <1>a, <1>b, <2>1 DEF HandApart, Owners, Named
<1>6. PipesApart'
  <2>1. \A p, q \in Pollers : \A i \in 1 .. Len(pipe'[p]), j \in 1 .. Len(pipe'[q]) :
           pipe'[p][i] = pipe'[q][j] => p = q /\ i = j
    <3> SUFFICES ASSUME NEW p \in Pollers, NEW q \in Pollers, NEW i \in 1 .. Len(pipe'[p]),
                        NEW j \in 1 .. Len(pipe'[q]), pipe'[p][i] = pipe'[q][j]
                 PROVE  p = q /\ i = j
      OBVIOUS
    <3>1. \A r \in Pollers : \A k \in 1 .. Len(pipe'[r]) :
             \/ k \in 1 .. Len(pipe[r]) /\ pipe'[r][k] = pipe[r][k] /\ pipe[r][k] # hand
             \/ r = w /\ k = Len(pipe[w]) + 1 /\ pipe'[r][k] = hand
      BY <1>a, <1>1, <1>2 DEF Owners, HandApart
    <3>2. CASE pipe'[p][i] = hand
      BY <3>1, <3>2
    <3>3. CASE pipe'[p][i] # hand
      <4>1. /\ i \in 1 .. Len(pipe[p]) /\ pipe'[p][i] = pipe[p][i]
            /\ j \in 1 .. Len(pipe[q]) /\ pipe'[q][j] = pipe[q][j]
        BY <3>1, <3>3
      <4>2. pipe[p][i] = pipe[q][j]
        BY <4>1
      <4>3. PipesApart
        BY <1>a DEF Owners
      <4>4. QED
        BY <4>1, <4>2, <4>3, PipesMeet
    <3>4. QED
      BY <3>2, <3>3
  <2>2. \A p, q \in Pollers : \A c \in interest[p], i \in 1 .. Len(pipe'[q]) : pipe'[q][i] # fd[c]
    BY <1>a, <1>1, <1>2 DEF Owners, PipesApart, HandApart
  <2>3. QED
    BY <1>b, <2>1, <2>2 DEF PipesApart
<1>7. PollersApart' /\ LateDelete'
  BY <1>a, <1>b DEF Owners, PollersApart, LateDelete
<1>8. Reports'
  BY <1>a, <1>b, <1>d, <1>1, <1>2 DEF Reports
<1>9. QED
  BY <1>c, <1>3, <1>4, <1>5, <1>6, <1>7, <1>8 DEF Rest, Owners

\* The descriptor goes from a pipe to the interest list of the worker that reads it,
\* and still stands for the connection it was accepted for.
LEMMA WorkerReceiveKeeps ==
    ASSUME SampleInv, NEW p \in Pollers, WorkerReceive(p)
    PROVE  Rest'
<1> USE SampleAssumption
<1>a. TypeOK /\ Sockets /\ Owners /\ Reports /\ ClosedOnlyWhenGone
  BY DEF SampleInv, Owners
<1>b. /\ UNCHANGED <<server, status, hungup, sent, inbuf, backlog, fd, hand, del>> /\ del[p] = None
      /\ pipe[p] # <<>>
      /\ \A q \in Pollers : batch'[q] \subseteq batch[q] /\ (q = p => Pipe \notin batch'[q])
      /\ pipe' = [pipe EXCEPT ![p] = Tail(pipe[p])]
      /\ Register(p, Open(Head(pipe[p])))
  BY <1>a DEF WorkerReceive, Reports, TypeOK
<1>c. Sockets' /\ ClosedOnlyWhenGone'
  BY <1>a, <1>b DEF Sockets, ClosedOnlyWhenGone
<1>d. \A d : Readable(d)' <=> Readable(d)
  BY <1>b DEF Readable
<1>e. Named /\ Owned /\ HandApart /\ PipesApart /\ PollersApart /\ LateDelete
  BY <1>a DEF Owners
<1>1. /\ pipe[p] \in Seq(Fds) /\ Len(pipe[p]) \in Nat /\ 1 \in 1 .. Len(pipe[p])
      /\ Head(pipe[p]) = pipe[p][1] /\ Head(pipe[p]) \in Fds
      /\ pipe'[p] = Tail(pipe[p]) /\ Len(pipe'[p]) = Len(pipe[p]) - 1
      /\ \A i \in 1 .. Len(pipe'[p]) : pipe'[p][i] = pipe[p][i + 1]
  <2>1. pipe[p] \in Seq(Fds) /\ pipe'[p] = Tail(pipe[p])
    BY <1>a, <1>b DEF TypeOK
  <2>2. QED
    <3>1. Len(pipe[p]) \in Nat /\ Len(pipe[p]) # 0
      BY <1>b, <2>1, LenProperties, EmptySeq
    <3>2. /\ Head(pipe[p]) = pipe[p][1] /\ Head(pipe[p]) \in Fds
          /\ Len(Tail(pipe[p])) = Len(pipe[p]) - 1
          /\ \A i \in 1 .. Len(Tail(pipe[p])) : Tail(pipe[p])[i] = pipe[p][i + 1]
      BY <1>b, <2>1, HeadTailProperties
    <3>3. QED
      BY <2>1, <3>1, <3>2
<1>2. \A q \in Pollers \ {p} : pipe'[q] = pipe[q]
  BY <1>a, <1>b DEF TypeOK
<1>3. PICK c \in Clients : fd[c] = pipe[p][1]
  BY <1>1, <1>e DEF Named
<1>4. fd[c] # None /\ Open(Head(pipe[p])) = {c}
  <2>1. fd[c] # None
    BY <1>1, <1>3 DEF None
  <2>2. QED
    BY <1>a, <1>1, <1>3, <2>1, OpenIsOne
<1>5. interest'[p] = interest[p] \cup {c} /\ \A q \in Pollers \ {p} : interest'[q] = interest[q]
  BY <1>a, <1>b, <1>4 DEF Register, TypeOK
<1>6. \A q \in Pollers : interest[q] \subseteq interest'[q]
  BY <1>5
<1>7. \A q \in Pollers : \A d \in interest'[q] : d \in interest[q] \/ (d = c /\ q = p)
  BY <1>5
<1>8. \A q \in Pollers : c \notin interest[q]
  BY <1>1, <1>3, <1>e DEF PipesApart
<1>9. \A i \in 1 .. Len(pipe'[p]) : i + 1 \in 1 .. Len(pipe[p]) /\ i + 1 # 1
  BY <1>1
<1>10. \A q \in Pollers : \A i \in 1 .. Len(pipe'[q]) :
          \E k \in 1 .. Len(pipe[q]) : pipe'[q][i] = pipe[q][k]
  <2> SUFFICES ASSUME NEW q \in Pollers, NEW i \in 1 .. Len(pipe'[q])
               PROVE  \E k \in 1 .. Len(pipe[q]) : pipe'[q][i] = pipe[q][k]
    OBVIOUS
  <2>1. CASE q = p
    <3>1. i + 1 \in 1 .. Len(pipe[q]) /\ pipe'[q][i] = pipe[q][i + 1]
      BY <1>1, <1>9, <2>1
    <3>2. QED
      BY <3>1
  <2>2. CASE q # p
    BY <1>2, <2>2
  <2>3. QED
    BY <2>1, <2>2
<1>11. \A q \in Pollers : \A i \in 1 .. Len(pipe'[q]) : pipe'[q][i] # fd[c]
  <2> SUFFICES ASSUME NEW q \in Pollers, NEW i \in 1 .. Len(pipe'[q]), pipe'[q][i] = fd[c]
               PROVE  FALSE
    OBVIOUS
  <2>1. CASE q = p
    <3>1. i + 1 \in 1 .. Len(pipe[p]) /\ i + 1 # 1 /\ pipe[p][i + 1] = pipe[p][1]
      BY <1>1, <1>3, <1>9, <2>1
    <3>2. QED
      BY <1>1, <1>e, <3>1, PipesMeet
  <2>2. CASE q # p
    <3>1. i \in 1 .. Len(pipe[q]) /\ pipe[q][i] = pipe[p][1]
      BY <1>2, <1>3, <2>2
    <3>2. QED
      BY <1>1, <1>e, <2>2, <3>1, PipesMeet
  <2>3. QED
    BY <2>1, <2>2
<1>12. Named'
  <2>1. \A q \in Pollers : \A i \in 1 .. Len(pipe'[q]) : \E d \in Clients : fd[d] = pipe'[q][i]
    <3>1. \A q \in Pollers : \A k \in 1 .. Len(pipe[q]) : \E d \in Clients : fd[d] = pipe[q][k]
      BY <1>e DEF Named
    <3>2. ASSUME NEW q \in Pollers, NEW i \in 1 .. Len(pipe'[q])
          PROVE  \E d \in Clients : fd[d] = pipe'[q][i]
      <4>1. PICK k \in 1 .. Len(pipe[q]) : pipe'[q][i] = pipe[q][k]
        BY <1>10
      <4>2. QED
        BY <3>1, <4>1
    <3>3. QED
      BY <3>2
  <2>2. \A q \in Pollers : \A d \in interest'[q] : fd[d] # None
    BY <1>e, <1>4, <1>7 DEF Named
  <2>3. fd' = fd /\ hand' = hand /\ (hand # None => \E d \in Clients : fd[d] = hand)
    BY <1>b, <1>e DEF Named
  <2>4. QED
    BY <2>1, <2>2, <2>3 DEF Named
<1>13. Owned'
  <2> SUFFICES ASSUME NEW d \in Clients, fd[d] # None
               PROVE  \/ hand = fd[d]
                      \/ \E q \in Pollers : \E i \in 1 .. Len(pipe'[q]) : pipe'[q][i] = fd[d]
                      \/ \E q \in Pollers : d \in interest'[q]
    <3>1. fd' = fd /\ hand' = hand
      BY <1>b
    <3>2. QED
      BY <3>1 DEF Owned
  <2>1. CASE \E q \in Pollers : \E i \in 1 .. Len(pipe[q]) : pipe[q][i] = fd[d]
    <3>1. PICK q \in Pollers : \E i \in 1 .. Len(pipe[q]) : pipe[q][i] = fd[d]
      BY <2>1
    <3>2. PICK i \in 1 .. Len(pipe[q]) : pipe[q][i] = fd[d]
      BY <3>1
    <3>3. CASE q # p
      BY <1>2, <3>2, <3>3
    <3>4. CASE q = p /\ i = 1
      <4>1. d = c
        BY <1>a, <1>3, <1>4, <3>2, <3>4 DEF Sockets
      <4>2. QED
        BY <1>5, <4>1
    <3>5. CASE q = p /\ i # 1
      <4>1. i - 1 \in 1 .. Len(pipe'[p]) /\ (i - 1) + 1 = i
        BY <1>1, <3>5
      <4>2. pipe'[p][i - 1] = fd[d]
        BY <1>1, <3>2, <3>5, <4>1
      <4>3. QED
        BY <4>1, <4>2
    <3>6. QED
      BY <3>3, <3>4, <3>5
  <2>2. CASE \E q \in Pollers : d \in interest[q]
    BY <1>6, <2>2
  <2>3. QED
    BY <1>e, <2>1, <2>2 DEF Owned
<1>14. HandApart'
  <2>1. \A q \in Pollers : \A i \in 1 .. Len(pipe'[q]) : pipe'[q][i] # hand
    <3>1. \A q \in Pollers : \A k \in 1 .. Len(pipe[q]) : pipe[q][k] # hand
      BY <1>e DEF HandApart
    <3>2. ASSUME NEW q \in Pollers, NEW i \in 1 .. Len(pipe'[q])
          PROVE  pipe'[q][i] # hand
      <4>1. PICK k \in 1 .. Len(pipe[q]) : pipe'[q][i] = pipe[q][k]
        BY <1>10
      <4>2. QED
        BY <3>1, <4>1
    <3>3. QED
      BY <3>2
  <2>2. \A q \in Pollers : \A d \in interest'[q] : fd[d] # hand
    BY <1>e, <1>1, <1>3, <1>7 DEF HandApart
  <2>3. QED
    BY <1>b, <2>1, <2>2 DEF HandApart
<1>15. PipesApart'
  <2>1. \A r, q \in Pollers : \A i \in 1 .. Len(pipe'[r]), j \in 1 .. Len(pipe'[q]) :
           pipe'[r][i] = pipe'[q][j] => r = q /\ i = j
    <3> SUFFICES ASSUME NEW r \in Pollers, NEW q \in Pollers, NEW i \in 1 .. Len(pipe'[r]),
                        NEW j \in 1 .. Len(pipe'[q]), pipe'[r][i] = pipe'[q][j]
                 PROVE  r = q /\ i = j
      OBVIOUS
    <3> DEFINE was(x, k) == IF x = p THEN k + 1 ELSE k
    <3>1. was(r, i) \in 1 .. Len(pipe[r]) /\ pipe'[r][i] = pipe[r][was(r, i)]
      BY <1>1, <1>2, <1>9
    <3>2. was(q, j) \in 1 .. Len(pipe[q]) /\ pipe'[q][j] = pipe[q][was(q, j)]
      BY <1>1, <1>2, <1>9
    <3> HIDE DEF was
    <3>3. pipe[r][was(r, i)] = pipe[q][was(q, j)]
      BY <3>1, <3>2
    <3>4. r = q /\ was(r, i) = was(q, j)
      BY <1>e, <3>1, <3>2, <3>3, PipesMeet
    <3>5. i \in Int /\ j \in Int
      OBVIOUS
    <3>6. QED
      BY <3>4, <3>5 DEF was
  <2>2. \A r, q \in Pollers : \A d \in interest'[r], i \in 1 .. Len(pipe'[q]) : pipe'[q][i] # fd'[d]
    <3> SUFFICES ASSUME NEW r \in Pollers, NEW q \in Pollers, NEW d \in interest'[r],
                        NEW i \in 1 .. Len(pipe'[q])
                 PROVE  pipe'[q][i] # fd'[d]
      OBVIOUS
    <3>a. fd' = fd
      BY <1>b
    <3>1. CASE d = c
      BY <1>11, <3>a, <3>1
    <3>2. CASE d \in interest[r]
      BY <1>e, <1>10, <3>a, <3>2 DEF PipesApart
    <3>3. QED
      BY <1>7, <3>1, <3>2
  <2>3. QED
    BY <2>1, <2>2, Zenon DEF PipesApart
<1>16. PollersApart'
  <2> SUFFICES ASSUME NEW r \in Pollers, NEW q \in Pollers, NEW d \in Clients,
                      d \in interest'[r], d \in interest'[q]
               PROVE  r = q
    BY DEF PollersApart
  <2>1. CASE d = c
    BY <1>7, <1>8, <2>1
  <2>2. CASE d # c
    BY <1>7, <1>e, <2>2 DEF PollersApart
  <2>3. QED
    BY <2>1, <2>2
<1>17. LateDelete'
  <2> SUFFICES ASSUME NEW q \in Pollers, NEW d \in interest'[q], del[q] # None
               PROVE  fd[d] # del[q]
    BY <1>b DEF LateDelete
  <2>1. d \in interest[q]
    BY <1>b, <1>7
  <2>2. QED
    BY <1>e, <2>1 DEF LateDelete
<1>18. Reports'
  <2>1. \A q \in Pollers : \A f \in batch'[q] \cap Fds :
           \E d \in interest'[q] : fd[d] = f /\ Readable(d)
    BY <1>a, <1>b, <1>6 DEF Reports
  <2>2. \A q \in Pollers : Pipe \in batch'[q] => pipe'[q] # <<>>
    BY <1>a, <1>b, <1>2 DEF Reports
  <2>3. \A q \in Pollers : Listen \in batch'[q] => q = 1 /\ server # "multithread" /\ backlog # <<>>
    BY <1>a, <1>b DEF Reports
  <2>4. QED
    BY <1>b, <1>d, <2>1, <2>2, <2>3 DEF Reports
<1>19. QED
  BY <1>c, <1>12, <1>13, <1>14, <1>15, <1>16, <1>17, <1>18 DEF Rest, Owners

\* A late unregistration finds nothing to remove.
LEMMA UnregisterKeeps ==
    ASSUME SampleInv, NEW p \in Pollers, Unregister(p)
    PROVE  Rest'
<1> USE SampleAssumption
<1>a. TypeOK /\ Sockets /\ Owners /\ Reports /\ ClosedOnlyWhenGone
  BY DEF SampleInv, Owners
<1>b. /\ UNCHANGED <<server, status, hungup, sent, inbuf, backlog, fd, pipe, batch, hand>>
      /\ del[p] # None /\ del' = [del EXCEPT ![p] = None]
      /\ interest' = [interest EXCEPT ![p] = interest[p] \ Open(del[p])]
  BY DEF Unregister
<1>1. Open(del[p]) \cap interest[p] = {}
  BY <1>a, <1>b DEF Owners, LateDelete, Open
<1>2. interest' = interest
  BY <1>a, <1>b, <1>1 DEF TypeOK
<1>3. LateDelete'
  <2>1. \A q \in Pollers : del'[q] # None => del'[q] = del[q]
    BY <1>a, <1>b DEF TypeOK
  <2>2. QED
    BY <1>a, <1>b, <1>2, <2>1 DEF Owners, LateDelete
<1>4. Named' /\ Owned' /\ HandApart' /\ PipesApart' /\ PollersApart'
  BY <1>a, <1>b, <1>2 DEF Owners, Named, Owned, HandApart, PipesApart, PollersApart
<1>5. Sockets' /\ ClosedOnlyWhenGone'
  BY <1>a, <1>b DEF Sockets, ClosedOnlyWhenGone
<1>6. \A d : Readable(d)' <=> Readable(d)
  BY <1>b DEF Readable
<1>7. Reports'
  BY <1>a, <1>b, <1>2, <1>6 DEF Reports
<1>8. QED
  BY <1>3, <1>4, <1>5, <1>7 DEF Rest, Owners

\* One read takes bytes from one socket; the close that follows an empty read, which
\* only meets a client that is gone, takes the descriptor from everybody.
LEMMA ReadEventKeeps ==
    ASSUME SampleInv, NEW p \in Pollers, NEW f \in Fds, ReadEvent(p, f)
    PROVE  Rest'
<1> USE SampleAssumption
<1>a. TypeOK /\ Sockets /\ Owners /\ Reports /\ ClosedOnlyWhenGone
  BY DEF SampleInv, Owners
<1>b. /\ UNCHANGED <<server, hungup, sent, backlog, pipe, hand>> /\ del[p] = None /\ f \in batch[p]
      /\ \A q \in Pollers : batch'[q] \subseteq batch[q] /\ (q = p => f \notin batch'[q])
  BY <1>a DEF ReadEvent, TypeOK
<1>c. Named /\ Owned /\ HandApart /\ PipesApart /\ PollersApart /\ LateDelete
  BY <1>a DEF Owners
<1>d. f # None
  BY DEF None
<1>e. \A q \in Pollers : interest[q] \subseteq Clients
  BY <1>a DEF TypeOK
<1>1. PICK c \in Clients : /\ fd[c] = f /\ Open(f) = {c} /\ Readable(c)
                           /\ c \in interest[p] /\ fd[c] # None
                           /\ \A q \in Pollers \ {p} : c \notin interest[q]
  BY <1>b, EventMeets
\* The connection is not the one of any other event still to be handled.
<1>2. ASSUME NEW q \in Pollers, NEW g \in batch'[q] \cap Fds
      PROVE  \E d \in interest[q] : fd[d] = g /\ Readable(d) /\ d # c
  <2>1. PICK d \in interest[q] : fd[d] = g /\ Readable(d)
    BY <1>a, <1>b DEF Reports
  <2>2. d # c
    BY <1>1, <1>b, <2>1
  <2>3. QED
    BY <2>1, <2>2
<1>3. CASE inbuf[c] > 0
  <2>1. PICK n \in Nat : n <= inbuf[c] /\ inbuf' = [inbuf EXCEPT ![c] = inbuf[c] - n]
    <3> DEFINE k == IF inbuf[c] < BUFFER_SIZE THEN inbuf[c] ELSE BUFFER_SIZE
    <3>1. (CHOOSE d \in Open(f) : TRUE) = c /\ \E d \in Open(f) : inbuf[d] > 0
      BY <1>1, <1>3
    <3>2. inbuf' = [inbuf EXCEPT ![c] = inbuf[c] - k]
      BY <3>1 DEF ReadEvent
    <3>3. k \in Nat /\ k <= inbuf[c]
      BY <1>a DEF TypeOK
    <3>4. QED
      BY <3>2, <3>3
  <2>2. UNCHANGED <<status, fd, interest, edge, del>>
    BY <1>1, <1>3 DEF ReadEvent
  <2>3. inbuf'[c] <= inbuf[c] /\ \A d \in Clients \ {c} : inbuf'[d] = inbuf[d]
    BY <1>a, <2>1 DEF TypeOK
  <2>4. Owners'
    BY <1>a, <1>b, <2>2, OwnersKept
  <2>5. Sockets'
    <3>1. \A d \in Clients : inbuf'[d] <= sent
      <4>1. inbuf[c] <= sent /\ inbuf'[c] \in Int /\ inbuf[c] \in Int /\ sent \in Int
        BY <1>a, <2>1 DEF Sockets, TypeOK
      <4>2. QED
        BY <1>a, <2>3, <4>1 DEF Sockets
    <3>2. QED
      BY <1>a, <1>b, <2>2, <3>1 DEF Sockets
  <2>6. ClosedOnlyWhenGone'
    <3>1. status[c] # "closed"
      BY <1>a, <1>1 DEF Sockets
    <3>2. QED
      BY <1>a, <1>b, <2>2, <2>3, <3>1 DEF ClosedOnlyWhenGone
  <2>7. Reports'
    <3>1. \A d \in Clients \ {c} : Readable(d) => Readable(d)'
      BY <1>b, <2>3 DEF Readable
    <3>2. \A q \in Pollers : \A g \in batch'[q] \cap Fds :
             \E d \in interest'[q] : fd'[d] = g /\ Readable(d)'
      BY <1>2, <1>e, <2>2, <3>1
    <3>3. QED
      BY <1>a, <1>b, <3>2 DEF Reports
  <2>8. QED
    BY <2>4, <2>5, <2>6, <2>7 DEF Rest
<1>4. CASE ~(inbuf[c] > 0)
  <2>1. Close({c}) /\ del' = [del EXCEPT ![p] = f] /\ UNCHANGED inbuf
    BY <1>1, <1>4 DEF ReadEvent
  <2>2. c \in hungup /\ inbuf[c] = 0
    BY <1>a, <1>1, <1>4 DEF Readable, TypeOK
  <2>3. /\ status'[c] = "closed" /\ fd'[c] = None
        /\ \A d \in Clients \ {c} : status'[d] = status[d] /\ fd'[d] = fd[d]
    BY <2>1 DEF Close
  <2>4. \A q \in Pollers : interest'[q] = interest[q] \ {c}
    BY <2>1 DEF Close
  <2>5. \A q \in Pollers : \A d \in interest'[q] :
           d \in interest[q] /\ d \in Clients \ {c} /\ fd'[d] = fd[d] /\ fd[d] # f
    <3> SUFFICES ASSUME NEW q \in Pollers, NEW d \in interest'[q]
                 PROVE  d \in interest[q] /\ d \in Clients \ {c} /\ fd'[d] = fd[d] /\ fd[d] # f
      OBVIOUS
    <3>1. d \in interest[q] /\ d \in Clients /\ d # c
      BY <1>e, <2>4
    <3>2. QED
      BY <1>a, <1>1, <2>3, <3>1 DEF Sockets
  <2>6. hand # f /\ \A q \in Pollers : \A i \in 1 .. Len(pipe[q]) : pipe[q][i] # f
    BY <1>1, <1>c DEF HandApart, PipesApart
  <2>7. Sockets'
    <3>1. \A d \in Clients : status'[d] = "open" <=> fd'[d] # None
      BY <1>a, <2>3 DEF Sockets
    <3>2. \A d, e \in Clients : fd'[d] = fd'[e] => d = e \/ fd'[d] = None
      BY <1>a, <2>3 DEF Sockets
    <3>3. \A i \in 1 .. Len(backlog) : status'[backlog[i]] = "backlog"
      <4>1. status[c] = "open"
        BY <1>a, <1>1 DEF Sockets
      <4>2. \A i \in 1 .. Len(backlog) : backlog[i] \in Clients /\ status[backlog[i]] = "backlog"
        BY <1>a, ElementOfSeq DEF Sockets, TypeOK
      <4>3. QED
        BY <2>3, <4>1, <4>2
    <3>4. QED
      BY <1>a, <1>b, <2>1, <3>1, <3>2, <3>3 DEF Sockets
  <2>8. Named'
    <3>1. ASSUME NEW g \in Fds, g # f, \E d \in Clients : fd[d] = g
          PROVE  \E d \in Clients : fd'[d] = g
      BY <1>1, <2>3, <3>1
    <3>2. hand # None => \E d \in Clients : fd'[d] = hand
      BY <1>a, <1>c, <2>6, <3>1 DEF Named, TypeOK
    <3>3. \A q \in Pollers : \A i \in 1 .. Len(pipe[q]) : \E d \in Clients : fd'[d] = pipe[q][i]
      <4>1. \A q \in Pollers : \A i \in 1 .. Len(pipe[q]) : pipe[q][i] \in Fds
        BY <1>a, ElementOfSeq DEF TypeOK
      <4>2. QED
        BY <1>c, <2>6, <3>1, <4>1 DEF Named
    <3>4. \A q \in Pollers : \A d \in interest'[q] : fd'[d] # None
      BY <1>c, <2>5 DEF Named
    <3>5. QED
      BY <1>b, <3>2, <3>3, <3>4 DEF Named
  <2>9. Owned'
    <3> SUFFICES ASSUME NEW d \in Clients, fd'[d] # None
                 PROVE  \/ hand = fd'[d]
                        \/ \E q \in Pollers : \E i \in 1 .. Len(pipe[q]) : pipe[q][i] = fd'[d]
                        \/ \E q \in Pollers : d \in interest'[q]
      BY <1>b DEF Owned
    <3>1. d # c /\ fd'[d] = fd[d]
      BY <2>3
    <3>2. \/ hand = fd[d]
          \/ \E q \in Pollers : \E i \in 1 .. Len(pipe[q]) : pipe[q][i] = fd[d]
          \/ \E q \in Pollers : d \in interest[q]
      BY <1>c, <3>1 DEF Owned
    <3>3. QED
      BY <2>4, <3>1, <3>2
  <2>10. HandApart'
    <3>1. \A q \in Pollers : \A d \in interest'[q] : fd'[d] # hand
      BY <1>c, <2>5 DEF HandApart
    <3>2. QED
      BY <1>b, <1>c, <3>1 DEF HandApart
  <2>11. PipesApart'
    <3>1. \A r, q \in Pollers : \A d \in interest'[r], i \in 1 .. Len(pipe[q]) : pipe[q][i] # fd'[d]
      BY <1>c, <2>5 DEF PipesApart
    <3>2. QED
      BY <1>b, <1>c, <3>1 DEF PipesApart
  <2>12. PollersApart'
    BY <1>c, <2>4 DEF PollersApart
  <2>13. LateDelete'
    <3> SUFFICES ASSUME NEW q \in Pollers, NEW d \in interest'[q], del'[q] # None
                 PROVE  fd'[d] # del'[q]
      BY DEF LateDelete
    <3>1. CASE q = p
      <4>1. del'[q] = f
        BY <1>a, <2>1, <3>1 DEF TypeOK
      <4>2. QED
        BY <2>5, <4>1
    <3>2. CASE q # p
      <4>1. del'[q] = del[q]
        BY <1>a, <2>1, <3>2 DEF TypeOK
      <4>2. QED
        BY <1>c, <2>5, <4>1 DEF LateDelete
    <3>3. QED
      BY <3>1, <3>2
  <2>14. ClosedOnlyWhenGone'
    BY <1>a, <1>b, <2>1, <2>2, <2>3 DEF ClosedOnlyWhenGone
  <2>15. Reports'
    <3>1. \A d : Readable(d)' <=> Readable(d)
      BY <1>b, <2>1 DEF Readable
    <3>2. \A q \in Pollers : \A g \in batch'[q] \cap Fds :
             \E d \in interest'[q] : fd'[d] = g /\ Readable(d)'
      <4> SUFFICES ASSUME NEW q \in Pollers, NEW g \in batch'[q] \cap Fds
                   PROVE  \E d \in interest'[q] : fd'[d] = g /\ Readable(d)'
        OBVIOUS
      <4>1. PICK d \in interest[q] : fd[d] = g /\ Readable(d) /\ d # c
        BY <1>2
      <4>2. d \in interest'[q] /\ fd'[d] = g
        BY <1>e, <2>3, <2>4, <4>1
      <4>3. QED
        BY <3>1, <4>1, <4>2
    <3>3. QED
      BY <1>a, <1>b, <3>2 DEF Reports
  <2>16. QED
    BY <2>7, <2>8, <2>9, <2>10, <2>11, <2>12, <2>13, <2>14, <2>15 DEF Rest, Owners
<1>5. QED
  BY <1>3, <1>4

-----------------------------------------------------------------------------
(***************************************************************************)
(* The theorems.                                                           *)
(***************************************************************************)
\* At the start nobody holds a descriptor.
LEMMA SampleInit == Init => SampleInv
<1> SUFFICES ASSUME Init
             PROVE  SampleInv
  OBVIOUS
<1> USE SampleAssumption
<1>a. <<>> \in Seq(Fds) /\ <<>> \in Seq(Clients) /\ Len(<<>>) = 0
  OBVIOUS
<1>b. 1 \in Pollers /\ 0 \in 0 .. MaxSent
  BY DEF Pollers
<1>1. TypeOK
  BY <1>a, <1>b DEF Init, TypeOK
<1>2. Sockets
  BY DEF Init, Sockets
<1>3. Named /\ Owned /\ HandApart
  BY DEF Init, Named, Owned, HandApart
<1>4. PipesApart /\ PollersApart /\ LateDelete
  BY DEF Init, PipesApart, PollersApart, LateDelete
<1>5. Reports /\ ClosedOnlyWhenGone
  BY DEF Init, Reports, ClosedOnlyWhenGone
<1>6. QED
  BY <1>1, <1>2, <1>3, <1>4, <1>5 DEF SampleInv

\* Every step keeps the invariant.
LEMMA SampleStep == SampleInv /\ [Next]_vars => SampleInv'
<1> SUFFICES ASSUME SampleInv, [Next]_vars
             PROVE  SampleInv'
  OBVIOUS
<1>1. TypeOK'
  BY SampleTypeStep
<1>2. ASSUME UNCHANGED vars
      PROVE  Rest'
  <2>1. Sockets' /\ Owners' /\ ClosedOnlyWhenGone'
    BY <1>2, OwnersKept DEF SampleInv, Owners, vars, Sockets, ClosedOnlyWhenGone
  <2>2. Reports'
    BY <1>2 DEF SampleInv, vars, Reports, Readable
  <2>3. QED
    BY <2>1, <2>2 DEF Rest
<1>3. ASSUME Next
      PROVE  Rest'
  <2>1. ASSUME NEW p \in Pollers, PollerStep(p)
        PROVE  Rest'
    BY <2>1, WaitKeeps, AcceptHereKeeps, WorkerReceiveKeeps, ReadEventKeeps, UnregisterKeeps
       DEF PollerStep
  <2>2. QED
    BY <1>3, <2>1, ClientKeeps, WaitKeeps, MainAcceptKeeps, HandOverKeeps DEF Next, MainStep
<1>4. Rest'
  BY <1>2, <1>3
<1>5. QED
  BY <1>1, <1>4 DEF Rest, Owners, SampleInv

\* The invariant holds in every state of every behaviour.
LEMMA SampleAlways == Spec => []SampleInv
BY SampleInit, SampleStep, PTL DEF Spec

\* The sets every variable stays in, for any number of clients, descriptors and workers.
THEOREM SampleTypeTheorem == Spec => []TypeOK
<1>1. SampleInv => TypeOK
  BY DEF SampleInv
<1>2. QED
  BY <1>1, SampleAlways, PTL

\* No sample server closes a live connection, although each takes EAGAIN for the end:
\* an event still meets, when its turn comes, the connection it was reported for.
THEOREM ClosedOnlyWhenGoneTheorem == Spec => []ClosedOnlyWhenGone
<1>1. SampleInv => ClosedOnlyWhenGone
  BY DEF SampleInv
<1>2. QED
  BY <1>1, SampleAlways, PTL

\* Every open connection has exactly one owner: the main thread, one place in one pipe,
\* or the interest list of one poller.
THEOREM OneOwnerTheorem == Spec => []OneOwner
<1>1. ASSUME SampleInv, NEW c \in Clients, status[c] = "open"
      PROVE  LET inHand == {h \in {hand} : h = fd[c]}
                 inPipe == UNION {{p} \X {i \in 1 .. Len(pipe[p]) : pipe[p][i] = fd[c]} :
                                    p \in Pollers}
                 polled == {p \in Pollers : c \in interest[p]}
             IN  Cardinality(inHand) + Cardinality(inPipe) + Cardinality(polled) = 1
  <2> DEFINE places(p) == {i \in 1 .. Len(pipe[p]) : pipe[p][i] = fd[c]}
             inHand == {h \in {hand} : h = fd[c]}
             inPipe == UNION {{p} \X places(p) : p \in Pollers}
             polled == {p \in Pollers : c \in interest[p]}
  <2>a. /\ Sockets /\ Named /\ Owned /\ HandApart /\ PipesApart /\ PollersApart
        /\ fd[c] # None
    BY <1>1 DEF SampleInv, Sockets
  <2>b. \A x : x \in inPipe <=> \E p \in Pollers : \E i \in places(p) : x = <<p, i>>
    OBVIOUS
  <2>1. CASE hand = fd[c]
    <3>1. inHand = {hand}
      BY <2>1
    <3>2. inPipe = {}
      <4>1. \A p \in Pollers : places(p) = {}
        BY <2>a, <2>1 DEF HandApart
      <4>2. QED
        BY <2>b, <4>1
    <3>3. polled = {}
      BY <2>a, <2>1 DEF HandApart
    <3> HIDE DEF inHand, inPipe, polled
    <3>4. Cardinality(inHand) = 1 /\ Cardinality(inPipe) = 0 /\ Cardinality(polled) = 0
      BY <3>1, <3>2, <3>3, FS_EmptySet, FS_Singleton
    <3>5. Cardinality(inHand) + Cardinality(inPipe) + Cardinality(polled) = 1
      BY <3>4
    <3>6. QED
      BY <3>5 DEF inHand, inPipe, polled
  <2>2. ASSUME NEW p \in Pollers, NEW i \in 1 .. Len(pipe[p]), pipe[p][i] = fd[c]
        PROVE  Cardinality(inHand) + Cardinality(inPipe) + Cardinality(polled) = 1
    <3>1. inHand = {}
      BY <2>a, <2>2 DEF HandApart
    <3>2. inPipe = {<<p, i>>}
      <4>1. ASSUME NEW q \in Pollers, NEW j \in places(q)
            PROVE  q = p /\ j = i
        BY <2>a, <2>2, <4>1, PipesMeet
      <4>2. i \in places(p)
        BY <2>2
      <4>3. QED
        BY <2>b, <4>1, <4>2
    <3>3. polled = {}
      BY <2>a, <2>2 DEF PipesApart
    <3> HIDE DEF inHand, inPipe, polled
    <3>4. Cardinality(inHand) = 0 /\ Cardinality(inPipe) = 1 /\ Cardinality(polled) = 0
      BY <3>1, <3>2, <3>3, FS_EmptySet, FS_Singleton
    <3>5. QED
      BY <3>4
  <2>3. ASSUME NEW p \in Pollers, c \in interest[p]
        PROVE  Cardinality(inHand) + Cardinality(inPipe) + Cardinality(polled) = 1
    <3>1. inHand = {}
      BY <2>a, <2>3 DEF HandApart
    <3>2. inPipe = {}
      <4>1. \A q \in Pollers : places(q) = {}
        BY <2>a, <2>3 DEF PipesApart
      <4>2. QED
        BY <2>b, <4>1
    <3>3. polled = {p}
      BY <2>a, <2>3 DEF PollersApart
    <3> HIDE DEF inHand, inPipe, polled
    <3>4. Cardinality(inHand) = 0 /\ Cardinality(inPipe) = 0 /\ Cardinality(polled) = 1
      BY <3>1, <3>2, <3>3, FS_EmptySet, FS_Singleton
    <3>5. QED
      BY <3>4
  <2>4. QED
    BY <2>a, <2>1, <2>2, <2>3 DEF Owned
<1>2. SampleInv => OneOwner
  BY <1>1 DEF OneOwner
<1>3. QED
  BY <1>2, SampleAlways, PTL
=============================================================================
