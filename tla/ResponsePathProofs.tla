------------------------- MODULE ResponsePathProofs -------------------------
(***************************************************************************)
(* Proofs about ResponsePath, for any number of workers and requests and   *)
(* any size of the socket's send buffer, on both backends of the event     *)
(* loop.                                                                   *)
(***************************************************************************)
EXTENDS ResponsePath, SequenceTheorems, TLAPS

USE DEF scenario, clientVars, socketVars, workerVars, bufVars, localVars

-----------------------------------------------------------------------------
(***************************************************************************)
(* The event loop's operators.                                             *)
(***************************************************************************)
\* event_loop_mod registers what it is asked to, with an event due at once when
\* the descriptor is ready.
LEMMA ModFacts ==
    ASSUME NEW b, NEW r \in Registration, NEW e \in SUBSET Filters, NEW ready
    PROVE  /\ Mod(b, r, e, ready) \in Registration
           /\ e \subseteq Mod(b, r, e, ready).filters
           /\ e \cap ready \subseteq Mod(b, r, e, ready).pending
           /\ r.pending \subseteq r.filters =>
                  Mod(b, r, e, ready).pending \subseteq Mod(b, r, e, ready).filters
<1>1. CASE b = "epoll"
  BY <1>1 DEF Mod, EpollMod, Add, Registration
<1>2. CASE b # "epoll"
  <2>1. Mod(b, r, e, ready) =
           [filters |-> r.filters \cup e, pending |-> r.pending \cup (e \cap ready)]
    BY <1>2 DEF Mod, KqueueMod
  <2>2. r.filters \subseteq Filters /\ r.pending \subseteq Filters
    BY DEF Registration
  <2>3. QED
    BY <1>2, <2>1, <2>2 DEF Registration
<1>3. QED
  BY <1>1, <1>2

\* An event is due for a filter that was registered and for no other.
LEMMA RaiseFacts ==
    ASSUME NEW r \in Registration, NEW f
    PROVE  /\ Raise(r, f) \in Registration
           /\ Raise(r, f).filters = r.filters
           /\ Raise(r, f).pending = r.pending \cup ({f} \cap r.filters)
BY DEF Raise, Registration

\* event_loop_wait leaves the filters as they are.
LEMMA CollectFacts ==
    ASSUME NEW r \in Registration
    PROVE  /\ Collect(r) \in Registration
           /\ Collect(r).filters = r.filters /\ Collect(r).pending = {}
BY DEF Collect, Registration

\* What the socket is ready for, filter by filter.
LEMMA ReadyFacts ==
    /\ Ready \subseteq Filters
    /\ "read" \in Ready <=> inbuf # <<>>
    /\ "write" \in Ready <=> Len(out) < Room
BY DEF Ready, Filters

-----------------------------------------------------------------------------
(***************************************************************************)
(* The sizes of what is copied from buffer to buffer.                      *)
(***************************************************************************)
\* What one read returns.
IsChunk(d) == d # <<>> /\ Len(d) <= MaxRequests

\* Every response fits into write_buf, an idle worker has no store left to make,
\* handle_write calls write only with something to write, and events are due only
\* for filters that are registered.
Sizes ==
    /\ Len(buf) = MaxRequests + 1 /\ Len(inbuf) <= sent
    /\ \A i \in 1 .. Len(tasks) : IsChunk(tasks[i])
    /\ \A w \in Workers : IF Idle(w) THEN wstores[w] = {} ELSE IsChunk(wdata[w])
    /\ wsize <= MaxRequests + 1 /\ lsize <= MaxRequests + 1
    /\ iopc = "write" => lpos < lsize
    /\ iopc = "wait" => batch = {}
    /\ reg.pending \subseteq reg.filters

\* The response to a chunk is a header and the chunk, and fits into write_buf.
LEMMA ResponseFacts ==
    ASSUME NEW d \in Seq(Requests), Len(d) <= MaxRequests
    PROVE  /\ Response(d) \in Seq(Cells) /\ Len(Response(d)) = Len(d) + 1
           /\ Len(Response(d)) \in 1 .. MaxRequests + 1
           /\ Response(d)[1] = 0 /\ \A i \in 1 .. Len(d) : Response(d)[i + 1] = d[i]
<1> USE PathAssumption
<1>1. d \in Seq(Cells) /\ Len(d) \in Nat
  <2>1. Requests \subseteq Cells
    BY DEF Requests, Cells
  <2>2. QED
    BY <2>1, SeqMonotonic, LenProperties
<1>2. <<0>> \in Seq(Cells) /\ Len(<<0>>) = 1 /\ <<0>>[1] = 0
  BY DEF Cells
<1>3. /\ <<0>> \o d \in Seq(Cells) /\ Len(<<0>> \o d) = 1 + Len(d)
      /\ \A i \in 1 .. 1 + Len(d) : (<<0>> \o d)[i] = IF i <= 1 THEN <<0>>[i] ELSE d[i - 1]
  <2>1. \A s1, s2 \in Seq(Cells) :
           /\ s1 \o s2 \in Seq(Cells) /\ Len(s1 \o s2) = Len(s1) + Len(s2)
           /\ \A i \in 1 .. Len(s1) + Len(s2) :
                 (s1 \o s2)[i] = IF i <= Len(s1) THEN s1[i] ELSE s2[i - Len(s1)]
    BY ConcatProperties
  <2>2. QED
    BY <1>1, <1>2, <2>1
<1>4. \A i \in 1 .. Len(d) : (<<0>> \o d)[i + 1] = d[i]
  BY <1>1, <1>3
<1>5. QED
  BY <1>1, <1>2, <1>3, <1>4 DEF Response

\* The memcpy of process_request puts the response at the beginning of write_buf
\* and leaves the size of the buffer alone.
LEMMA StoreFacts ==
    ASSUME NEW r \in Seq(Cells), NEW b \in Seq(Cells), Len(r) <= Len(b)
    PROVE  /\ r \o SubSeq(b, Len(r) + 1, Len(b)) \in Seq(Cells)
           /\ Len(r \o SubSeq(b, Len(r) + 1, Len(b))) = Len(b)
           /\ \A i \in 1 .. Len(r) : (r \o SubSeq(b, Len(r) + 1, Len(b)))[i] = r[i]
<1>1. Len(r) \in Nat /\ Len(b) \in Nat
  BY LenProperties
<1>2. \A i \in Len(r) + 1 .. Len(b) : b[i] \in Cells
  BY <1>1, ElementOfSeq
<1>3. /\ SubSeq(b, Len(r) + 1, Len(b)) \in Seq(Cells)
      /\ Len(SubSeq(b, Len(r) + 1, Len(b))) = Len(b) - Len(r)
  BY <1>1, <1>2, SubSeqProperties
<1>4. QED
  BY <1>1, <1>3, ConcatProperties

\* What write puts into the socket's send buffer.
LEMMA CopyFacts ==
    ASSUME NEW o \in Seq(Cells), NEW b \in Seq(Cells), NEW p \in Nat, NEW n \in Nat, p + n <= Len(b)
    PROVE  /\ o \o SubSeq(b, p + 1, p + n) \in Seq(Cells)
           /\ Len(o \o SubSeq(b, p + 1, p + n)) = Len(o) + n
           /\ \A i \in 1 .. Len(o) : (o \o SubSeq(b, p + 1, p + n))[i] = o[i]
           /\ \A i \in 1 .. n : (o \o SubSeq(b, p + 1, p + n))[Len(o) + i] = b[p + i]
<1> DEFINE s == SubSeq(b, p + 1, p + n)
<1>1. Len(o) \in Nat /\ Len(b) \in Nat
  BY LenProperties
<1>2. \A i \in p + 1 .. p + n : b[i] \in Cells
  BY <1>1, ElementOfSeq
<1>3. s \in Seq(Cells) /\ Len(s) = n /\ \A i \in 1 .. n : s[i] = b[p + i]
  <2>1. /\ s \in Seq(Cells) /\ Len(s) = IF p + 1 <= p + n THEN (p + n) - (p + 1) + 1 ELSE 0
        /\ \A i \in 1 .. (p + n) - (p + 1) + 1 : s[i] = b[p + 1 + i - 1]
    BY <1>2, SubSeqProperties
  <2>2. QED
    BY <2>1
<1>4. /\ o \o s \in Seq(Cells) /\ Len(o \o s) = Len(o) + Len(s)
      /\ \A i \in 1 .. Len(o) + Len(s) : (o \o s)[i] = IF i <= Len(o) THEN o[i] ELSE s[i - Len(o)]
  BY <1>3, ConcatProperties
<1> HIDE DEF s
<1>5. QED
  BY <1>1, <1>3, <1>4 DEF s

\* A read takes the first n requests out of the socket.
LEMMA ReadFacts ==
    ASSUME NEW d \in Seq(Requests), NEW n \in 1 .. Len(d)
    PROVE  /\ SubSeq(d, 1, n) \in Seq(Requests) /\ Len(SubSeq(d, 1, n)) = n
           /\ SubSeq(d, 1, n) # <<>>
           /\ SubSeq(d, n + 1, Len(d)) \in Seq(Requests) /\ Len(SubSeq(d, n + 1, Len(d))) = Len(d) - n
<1>1. Len(d) \in Nat /\ \A i \in 1 .. Len(d) : d[i] \in Requests
  BY LenProperties, ElementOfSeq
<1>2. SubSeq(d, 1, n) \in Seq(Requests) /\ Len(SubSeq(d, 1, n)) = n
  <2>1. \A i \in 1 .. n : d[i] \in Requests
    BY <1>1
  <2>2. QED
    BY <1>1, <2>1, SubSeqProperties
<1>3. SubSeq(d, n + 1, Len(d)) \in Seq(Requests) /\ Len(SubSeq(d, n + 1, Len(d))) = Len(d) - n
  <2>1. \A i \in n + 1 .. Len(d) : d[i] \in Requests
    BY <1>1
  <2>2. /\ SubSeq(d, n + 1, Len(d)) \in Seq(Requests)
        /\ Len(SubSeq(d, n + 1, Len(d))) = IF n + 1 <= Len(d) THEN Len(d) - (n + 1) + 1 ELSE 0
    BY <1>1, <2>1, SubSeqProperties
  <2>3. QED
    BY <1>1, <2>2
<1>4. SubSeq(d, 1, n) # <<>>
  BY <1>1, <1>2, EmptySeq
<1>5. QED
  BY <1>2, <1>3, <1>4

\* Every step keeps the types and the sizes: what handle_read hands over, what a
\* worker stores and what handle_write sends always lies within write_buf.
LEMMA PathTypeStep == TypeOK /\ Sizes /\ [Next]_vars => TypeOK' /\ Sizes'
<1> SUFFICES ASSUME TypeOK, Sizes, [Next]_vars
             PROVE  TypeOK' /\ Sizes'
  OBVIOUS
<1> USE PathAssumption
<1>a. /\ Len(inbuf) \in Nat /\ Len(out) \in Nat /\ Len(buf) \in Nat /\ Len(tasks) \in Nat
      /\ reg \in Registration
  BY LenProperties DEF TypeOK
<1>1. CASE ClientSend
  <2>1. sent' \in Requests /\ sent' = sent + 1
    BY <1>1 DEF ClientSend, TypeOK, Requests
  <2>2. inbuf' \in Seq(Requests) /\ Len(inbuf') = Len(inbuf) + 1
    BY <1>1, <2>1, AppendProperties DEF ClientSend, TypeOK
  <2>3. reg' \in Registration /\ reg'.pending \subseteq reg'.filters
    BY <1>a, <1>1, RaiseFacts DEF ClientSend, Sizes
  <2>4. TypeOK'
    BY <1>1, <2>1, <2>2, <2>3 DEF ClientSend, TypeOK, Requests
  <2>5. Sizes'
    BY <1>a, <1>1, <2>1, <2>2, <2>3 DEF ClientSend, Sizes, Idle, TypeOK
  <2>6. QED
    BY <2>4, <2>5
<1>2. CASE ClientReceive
  <2>1. got' \in Seq(Cells) /\ out' \in Seq(Cells) /\ Len(out') = 0
    BY <1>2, ConcatProperties, EmptySeq DEF ClientReceive, TypeOK
  <2>2. reg' \in Registration /\ reg'.pending \subseteq reg'.filters
    BY <1>a, <1>2, RaiseFacts DEF ClientReceive, Sizes
  <2>3. TypeOK'
    BY <1>2, <2>1, <2>2 DEF ClientReceive, TypeOK
  <2>4. Sizes'
    BY <1>2, <2>2 DEF ClientReceive, Sizes, Idle
  <2>5. QED
    BY <2>3, <2>4
<1>3. ASSUME NEW w \in Workers, WorkerTake(w)
      PROVE  TypeOK' /\ Sizes'
  <2>1. /\ Head(tasks) \in Seq(Requests) /\ IsChunk(Head(tasks))
        /\ tasks' \in Seq(Seq(Requests)) /\ \A i \in 1 .. Len(tasks') : IsChunk(tasks'[i])
    <3>1. /\ Head(tasks) \in Seq(Requests) /\ Head(tasks) = tasks[1] /\ 1 \in 1 .. Len(tasks)
          /\ Tail(tasks) \in Seq(Seq(Requests)) /\ Len(Tail(tasks)) = Len(tasks) - 1
          /\ \A i \in 1 .. Len(Tail(tasks)) : Tail(tasks)[i] = tasks[i + 1]
      BY <1>a, <1>3, HeadTailProperties, EmptySeq DEF WorkerTake, TypeOK
    <3>2. \A i \in 1 .. Len(Tail(tasks)) : i + 1 \in 1 .. Len(tasks)
      BY <1>a, <3>1
    <3>3. QED
      BY <1>3, <3>1, <3>2 DEF WorkerTake, Sizes
  <2>2. wdata' \in [Workers -> Seq(Requests)] /\ wstores' \in [Workers -> SUBSET {"buf", "size", "pos"}]
    BY <1>3, <2>1 DEF WorkerTake, TypeOK
  <2>3. \A v \in Workers : IF Idle(v)' THEN wstores'[v] = {} ELSE IsChunk(wdata'[v])
    BY <1>3, <2>1 DEF WorkerTake, TypeOK, Sizes, Idle, IsChunk
  <2>4. TypeOK'
    BY <1>3, <2>1, <2>2 DEF WorkerTake, TypeOK
  <2>5. Sizes'
    BY <1>3, <2>1, <2>3 DEF WorkerTake, Sizes
  <2>6. QED
    BY <2>4, <2>5
<1>4. ASSUME NEW w \in Workers, NEW s \in {"buf", "size", "pos"}, WorkerStore(w, s)
      PROVE  TypeOK' /\ Sizes'
  <2>1. wdata[w] \in Seq(Requests) /\ IsChunk(wdata[w])
    BY <1>4 DEF WorkerStore, TypeOK, Sizes, Idle
  <2>2. Response(wdata[w]) \in Seq(Cells) /\ Len(Response(wdata[w])) \in 1 .. MaxRequests + 1
    BY <2>1, ResponseFacts DEF IsChunk
  <2>3. buf' \in Seq(Cells) /\ Len(buf') = MaxRequests + 1
    <3>1. CASE s = "buf"
      <4>1. Len(Response(wdata[w])) <= Len(buf)
        BY <2>2 DEF Sizes
      <4>2. QED
        BY <1>4, <2>2, <3>1, <4>1, StoreFacts DEF WorkerStore, TypeOK, Sizes
    <3>2. CASE s # "buf"
      BY <1>4, <3>2 DEF WorkerStore, TypeOK, Sizes
    <3>3. QED
      BY <3>1, <3>2
  <2>4. wsize' \in Nat /\ wpos' \in Nat /\ wsize' <= MaxRequests + 1
    BY <1>4, <2>2 DEF WorkerStore, TypeOK, Sizes
  <2>5. wstores' \in [Workers -> SUBSET {"buf", "size", "pos"}]
    BY <1>4 DEF WorkerStore, TypeOK
  <2>6. \A v \in Workers : IF Idle(v)' THEN wstores'[v] = {} ELSE IsChunk(wdata'[v])
    BY <1>4, <2>1 DEF WorkerStore, TypeOK, Sizes, Idle, IsChunk
  <2>7. TypeOK'
    BY <1>4, <2>3, <2>4, <2>5 DEF WorkerStore, TypeOK
  <2>8. Sizes'
    BY <1>4, <2>3, <2>4, <2>6 DEF WorkerStore, Sizes
  <2>9. QED
    BY <2>7, <2>8
<1>5. ASSUME NEW w \in Workers, WorkerNotify(w)
      PROVE  TypeOK' /\ Sizes'
  <2>1. wdata' \in [Workers -> Seq(Requests)] /\ msgs' \in Nat
    BY <1>5, EmptySeq DEF WorkerNotify, TypeOK
  <2>2. \A v \in Workers : IF Idle(v)' THEN wstores'[v] = {} ELSE IsChunk(wdata'[v])
    BY <1>5 DEF WorkerNotify, TypeOK, Sizes, Idle, IsChunk
  <2>3. TypeOK'
    BY <1>5, <2>1 DEF WorkerNotify, TypeOK
  <2>4. Sizes'
    BY <1>5, <2>2 DEF WorkerNotify, Sizes
  <2>5. QED
    BY <2>3, <2>4
<1>6. CASE EventLoopWait
  <2>1. /\ reg' \in Registration /\ reg'.pending \subseteq reg'.filters
        /\ batch' \subseteq Filters \cup {"msgs"}
    <3>1. reg' \in Registration /\ reg'.pending \subseteq reg'.filters
      BY <1>a, <1>6, CollectFacts DEF EventLoopWait
    <3>2. batch' \subseteq Filters \cup {"msgs"}
      BY <1>6, ReadyFacts DEF EventLoopWait, Reported
    <3>3. QED
      BY <3>1, <3>2
  <2>2. TypeOK'
    BY <1>6, <2>1 DEF EventLoopWait, TypeOK
  <2>3. Sizes'
    BY <1>6, <2>1 DEF EventLoopWait, Sizes, Idle
  <2>4. QED
    BY <2>2, <2>3
<1>7. ASSUME NEW e \in Filters \cup {"msgs"}, Dispatch(e)
      PROVE  TypeOK' /\ Sizes'
  <2>1. iopc' \in {"read", "start", "msgs"} /\ batch' \subseteq Filters \cup {"msgs"}
    BY <1>7 DEF Dispatch, TypeOK, Filters
  <2>2. TypeOK'
    BY <1>7, <2>1 DEF Dispatch, TypeOK
  <2>3. Sizes'
    BY <1>7, <2>1 DEF Dispatch, Sizes, Idle
  <2>4. QED
    BY <2>2, <2>3
<1>8. CASE BatchDone \/ ReadAgain
  <2>1. TypeOK'
    BY <1>8 DEF BatchDone, ReadAgain, TypeOK
  <2>2. Sizes'
    BY <1>8 DEF BatchDone, ReadAgain, Sizes, Idle
  <2>3. QED
    BY <2>1, <2>2
<1>9. \A e \in {{"read"}, {"write"}} :
         /\ Mod(backend, reg, e, Ready) \in Registration
         /\ Mod(backend, reg, e, Ready).pending \subseteq Mod(backend, reg, e, Ready).filters
  <2>1. \A e \in {{"read"}, {"write"}} : e \in SUBSET Filters
    BY DEF Filters
  <2>2. QED
    BY <1>a, <2>1, ModFacts DEF Sizes
<1>10. CASE HandleMessages
  <2>1. /\ msgs' \in Nat /\ iopc' \in {"msgs", "dispatch"}
        /\ reg' \in Registration /\ reg'.pending \subseteq reg'.filters
    BY <1>9, <1>10 DEF HandleMessages, TypeOK, Sizes
  <2>2. TypeOK'
    BY <1>10, <2>1 DEF HandleMessages, TypeOK
  <2>3. Sizes'
    BY <1>10, <2>1 DEF HandleMessages, Sizes, Idle
  <2>4. QED
    BY <2>2, <2>3
<1>11. CASE ReadRequest
  <2>1. PICK n \in 1 .. Len(inbuf) : /\ tasks' = Append(tasks, SubSeq(inbuf, 1, n))
                                     /\ inbuf' = SubSeq(inbuf, n + 1, Len(inbuf))
    BY <1>11 DEF ReadRequest
  <2>2. /\ SubSeq(inbuf, 1, n) \in Seq(Requests) /\ IsChunk(SubSeq(inbuf, 1, n))
        /\ inbuf' \in Seq(Requests) /\ Len(inbuf') <= sent
    <3>1. Len(inbuf) <= sent /\ sent <= MaxRequests /\ sent \in Nat
      BY DEF Sizes, TypeOK
    <3>2. /\ SubSeq(inbuf, 1, n) \in Seq(Requests) /\ Len(SubSeq(inbuf, 1, n)) = n
          /\ SubSeq(inbuf, 1, n) # <<>>
          /\ inbuf' \in Seq(Requests) /\ Len(inbuf') = Len(inbuf) - n
      BY <2>1, ReadFacts DEF TypeOK
    <3>3. n \in Nat /\ n <= MaxRequests /\ Len(inbuf) - n <= sent
      BY <1>a, <3>1
    <3>4. QED
      BY <3>2, <3>3 DEF IsChunk
  <2>3. tasks' \in Seq(Seq(Requests)) /\ \A i \in 1 .. Len(tasks') : IsChunk(tasks'[i])
    <3>1. /\ tasks' \in Seq(Seq(Requests)) /\ Len(tasks') = Len(tasks) + 1
          /\ \A i \in 1 .. Len(tasks) : tasks'[i] = tasks[i]
          /\ tasks'[Len(tasks) + 1] = SubSeq(inbuf, 1, n)
      <4>1. tasks \in Seq(Seq(Requests)) /\ SubSeq(inbuf, 1, n) \in Seq(Requests)
        BY <2>2 DEF TypeOK
      <4>2. QED
        BY <2>1, <4>1, AppendProperties
    <3>2. \A i \in 1 .. Len(tasks') : i \in 1 .. Len(tasks) \/ i = Len(tasks) + 1
      BY <1>a, <3>1
    <3>3. QED
      BY <2>2, <3>1, <3>2 DEF Sizes
  <2>4. TypeOK'
    BY <1>11, <2>2, <2>3 DEF ReadRequest, TypeOK
  <2>5. Sizes'
    BY <1>11, <2>2, <2>3 DEF ReadRequest, Sizes, Idle
  <2>6. QED
    BY <2>4, <2>5
<1>12. CASE WriteStart
  <2>1. /\ iopc' \in {"loop", "dispatch"}
        /\ reg' \in Registration /\ reg'.pending \subseteq reg'.filters
    BY <1>9, <1>12 DEF WriteStart, TypeOK, Sizes
  <2>2. TypeOK'
    BY <1>12, <2>1 DEF WriteStart, TypeOK
  <2>3. Sizes'
    BY <1>12, <2>1 DEF WriteStart, Sizes, Idle
  <2>4. QED
    BY <2>2, <2>3
<1>13. CASE WriteLoop
  <2>1. /\ iopc' \in {"write", "dispatch"} /\ (iopc' = "write" => lpos' < lsize')
        /\ wpos' \in Nat /\ wsize' \in Nat /\ lpos' \in Nat /\ lsize' \in Nat
        /\ wsize' <= MaxRequests + 1 /\ lsize' <= MaxRequests + 1
        /\ reg' \in Registration /\ reg'.pending \subseteq reg'.filters
    <3>1. /\ wpos \in Nat /\ wsize \in Nat /\ lpos \in Nat /\ lsize \in Nat /\ MaxRequests \in Nat
          /\ wsize <= MaxRequests + 1 /\ lsize <= MaxRequests + 1
          /\ reg \in Registration /\ reg.pending \subseteq reg.filters
      BY DEF TypeOK, Sizes
    <3>2. CASE wpos < wsize
      BY <1>13, <3>1, <3>2 DEF WriteLoop
    <3>3. CASE ~(wpos < wsize)
      <4>1. reg' \in Registration /\ reg'.pending \subseteq reg'.filters
        BY <1>9, <1>13, <3>3 DEF WriteLoop
      <4>2. QED
        BY <1>13, <3>1, <3>3, <4>1 DEF WriteLoop
    <3>4. QED
      BY <3>2, <3>3
  <2>2. TypeOK'
    BY <1>13, <2>1 DEF WriteLoop, TypeOK
  <2>3. Sizes'
    BY <1>13, <2>1 DEF WriteLoop, Sizes, Idle
  <2>4. QED
    BY <2>2, <2>3
<1>14. CASE WriteCall
  <2> DEFINE n == IF lsize - lpos < Room - Len(out) THEN lsize - lpos ELSE Room - Len(out)
  <2>1. /\ n \in Int /\ n <= lsize - lpos /\ Len(out) + n <= Room
        /\ lpos \in Nat /\ lsize \in Nat /\ lsize <= Len(buf)
    <3>1. /\ lpos \in Nat /\ lsize \in Nat /\ lsize <= Len(buf)
          /\ Room \in Nat /\ Len(out) \in Nat
      BY <1>a DEF TypeOK, Sizes
    <3>2. QED
      BY <3>1
  <2>2. /\ out' \in Seq(Cells) /\ Len(out') <= Room /\ ln' \in Nat
        /\ iopc' \in {"advance", "again"}
    <3>1. CASE n > 0
      <4>1. n \in Nat /\ lpos + n <= Len(buf)
        BY <1>a, <2>1, <3>1
      <4>2. out' = out \o SubSeq(buf, lpos + 1, lpos + n) /\ ln' = n /\ iopc' = "advance"
        BY <1>14, <3>1 DEF WriteCall
      <4> HIDE DEF n
      <4>3. out' \in Seq(Cells) /\ Len(out') = Len(out) + n
        <5>1. out \in Seq(Cells) /\ buf \in Seq(Cells)
          BY DEF TypeOK
        <5>2. QED
          BY <2>1, <4>1, <4>2, <5>1, CopyFacts
      <4>4. QED
        BY <2>1, <4>1, <4>2, <4>3
    <3>2. CASE ~(n > 0)
      BY <1>14, <3>2 DEF WriteCall, TypeOK
    <3>3. QED
      BY <3>1, <3>2
  <2> HIDE DEF n
  <2>3. TypeOK'
    BY <1>14, <2>2 DEF WriteCall, TypeOK
  <2>4. Sizes'
    BY <1>14, <2>2 DEF WriteCall, Sizes, Idle
  <2>5. QED
    BY <2>3, <2>4
<1>15. CASE WriteAdvance
  <2>1. TypeOK'
    BY <1>15 DEF WriteAdvance, TypeOK
  <2>2. Sizes'
    BY <1>15 DEF WriteAdvance, Sizes, Idle
  <2>3. QED
    BY <2>1, <2>2
<1>16. CASE WriteAgain
  <2>1. /\ wpos' \in Nat /\ wsize' \in Nat /\ wsize' <= MaxRequests + 1
        /\ reg' \in Registration /\ reg'.pending \subseteq reg'.filters
    BY <1>9, <1>16 DEF WriteAgain, TypeOK, Sizes
  <2>2. TypeOK'
    BY <1>16, <2>1 DEF WriteAgain, TypeOK
  <2>3. Sizes'
    BY <1>16, <2>1 DEF WriteAgain, Sizes, Idle
  <2>4. QED
    BY <2>2, <2>3
<1>17. CASE UNCHANGED vars
  BY <1>17 DEF vars, TypeOK, Sizes, Idle
<1>18. QED
  BY <1>1, <1>2, <1>3, <1>4, <1>5, <1>6, <1>7, <1>8, <1>10, <1>11, <1>12, <1>13, <1>14, <1>15,
     <1>16, <1>17 DEF Next, IoStep, WorkerStep

-----------------------------------------------------------------------------
(***************************************************************************)
(* Events that are due.                                                    *)
(***************************************************************************)
\* NoForgottenInput at every point of the IO thread's loop: the event may have
\* been collected, or handle_read may be at work on it.
InputDue ==
    "read" \in reg.filters /\ inbuf # <<>> =>
        "read" \in reg.pending \/ "read" \in batch \/ iopc = "read"

\* NoStrandedResponse at every point of the loop: the event may have been collected,
\* or handle_write may be at work, until it has found the send buffer full.
ResponseDue ==
    wpos < wsize /\ msgs = 0 /\ (\A w \in Workers : Idle(w)) =>
        /\ "write" \in reg.filters
        /\ \/ "write" \in reg.pending \/ Len(out) = Room
           \/ "write" \in batch \/ iopc \in {"start", "loop", "write", "advance"}

\* Requests in the socket keep their event through every change of interest.
LEMMA InputStep == TypeOK /\ Sizes /\ InputDue /\ [Next]_vars => InputDue'
<1> SUFFICES ASSUME TypeOK, Sizes, InputDue, [Next]_vars
             PROVE  InputDue'
  OBVIOUS
<1>a. reg \in Registration /\ backend \in Backends /\ batch \subseteq Filters \cup {"msgs"}
  BY PathAssumption DEF TypeOK
<1>b. /\ "read" \in Mod(backend, reg, {"read"}, Ready).pending \/ inbuf = <<>>
      /\ \/ "read" \notin Mod(backend, reg, {"write"}, Ready).filters
         \/ /\ "read" \in reg.filters
            /\ "read" \in reg.pending => "read" \in Mod(backend, reg, {"write"}, Ready).pending
  <2>1. {"read"} \in SUBSET Filters /\ {"write"} \in SUBSET Filters
    BY DEF Filters
  <2>2. {"read"} \cap Ready \subseteq Mod(backend, reg, {"read"}, Ready).pending
    BY <1>a, <2>1, ModFacts
  <2>3. /\ backend = "epoll" => Mod(backend, reg, {"write"}, Ready).filters = {"write"}
        /\ backend # "epoll" =>
              /\ Mod(backend, reg, {"write"}, Ready).filters = reg.filters \cup {"write"}
              /\ reg.pending \subseteq Mod(backend, reg, {"write"}, Ready).pending
    <3>1. CASE backend = "epoll"
      BY <3>1 DEF Mod, EpollMod, Add
    <3>2. CASE backend # "epoll"
      BY <3>2 DEF Mod, KqueueMod
    <3>3. QED
      BY <3>1, <3>2
  <2>4. QED
    BY <2>2, <2>3, ReadyFacts
<1>1. CASE ClientSend
  BY <1>a, <1>1, RaiseFacts DEF ClientSend, InputDue
<1>2. CASE ClientReceive
  BY <1>a, <1>2, RaiseFacts DEF ClientReceive, InputDue
<1>3. ASSUME NEW w \in Workers, WorkerStep(w)
      PROVE  InputDue'
  BY <1>3 DEF WorkerStep, WorkerTake, WorkerStore, WorkerNotify, InputDue
<1>4. CASE EventLoopWait
  <2>1. batch = {} /\ iopc = "wait" /\ reg'.filters = reg.filters /\ inbuf' = inbuf
    BY <1>a, <1>4, CollectFacts DEF EventLoopWait, Sizes
  <2>2. "read" \in reg.pending /\ inbuf # <<>> => "read" \in batch'
    BY <1>4, ReadyFacts DEF EventLoopWait, Reported
  <2>3. QED
    BY <2>1, <2>2 DEF InputDue
<1>5. ASSUME NEW e \in Filters \cup {"msgs"}, Dispatch(e)
      PROVE  InputDue'
  BY <1>5 DEF Dispatch, InputDue, Filters
<1>6. CASE BatchDone \/ ReadAgain \/ WriteCall \/ WriteAdvance
  BY <1>6 DEF BatchDone, ReadAgain, WriteCall, WriteAdvance, InputDue
<1>7. CASE ReadRequest
  BY <1>7 DEF ReadRequest, InputDue
<1>8. CASE HandleMessages
  BY <1>b, <1>8 DEF HandleMessages, InputDue
<1>9. CASE WriteStart \/ WriteLoop \/ WriteAgain
  BY <1>b, <1>9 DEF WriteStart, WriteLoop, WriteAgain, InputDue
<1>10. CASE UNCHANGED vars
  BY <1>10 DEF vars, InputDue
<1>11. QED
  BY <1>1, <1>2, <1>3, <1>4, <1>5, <1>6, <1>7, <1>8, <1>9, <1>10 DEF Next, IoStep

\* A response in write_buf keeps its event: the connection is switched back to
\* reading only when nothing is left to send, and a full send buffer raises the
\* event itself once the client reads.
LEMMA ResponseStep == TypeOK /\ Sizes /\ ResponseDue /\ [Next]_vars => ResponseDue'
<1> SUFFICES ASSUME TypeOK, Sizes, ResponseDue, [Next]_vars
             PROVE  ResponseDue'
  OBVIOUS
<1> USE PathAssumption
<1>a. /\ reg \in Registration /\ backend \in Backends /\ batch \subseteq Filters \cup {"msgs"}
      /\ wdata \in [Workers -> Seq(Requests)] /\ msgs \in Nat /\ wpos \in Nat /\ wsize \in Nat
      /\ Len(out) \in Nat /\ Len(out) <= Room /\ lpos \in Nat /\ lsize \in Nat /\ ln \in Nat
  BY LenProperties DEF TypeOK
<1>1. CASE ClientSend
  BY <1>a, <1>1, RaiseFacts DEF ClientSend, ResponseDue, Idle
<1>2. CASE ClientReceive
  <2>1. /\ reg'.filters = reg.filters /\ reg.pending \subseteq reg'.pending
        /\ Len(out) = Room /\ "write" \in reg.filters => "write" \in reg'.pending
    BY <1>a, <1>2, RaiseFacts DEF ClientReceive
  <2>2. QED
    BY <1>2, <2>1 DEF ClientReceive, ResponseDue, Idle
<1>3. ASSUME NEW w \in Workers, WorkerTake(w)
      PROVE  ResponseDue'
  <2>1. Head(tasks) # <<>>
    <3>1. tasks \in Seq(Seq(Requests)) /\ tasks # <<>>
      BY <1>3 DEF WorkerTake, TypeOK
    <3>2. Head(tasks) = tasks[1] /\ 1 \in 1 .. Len(tasks)
      BY <3>1, EmptySeq, LenProperties
    <3>3. QED
      BY <3>2 DEF Sizes, IsChunk
  <2>2. ~Idle(w)'
    BY <1>a, <1>3, <2>1 DEF WorkerTake, Idle
  <2>3. QED
    BY <2>2 DEF ResponseDue
<1>4. ASSUME NEW w \in Workers, NEW s \in {"buf", "size", "pos"}, WorkerStore(w, s)
      PROVE  ResponseDue'
  <2>1. ~Idle(w)'
    BY <1>4 DEF WorkerStore, Sizes, Idle
  <2>2. QED
    BY <2>1 DEF ResponseDue
<1>5. ASSUME NEW w \in Workers, WorkerNotify(w)
      PROVE  ResponseDue'
  <2>1. msgs' # 0
    BY <1>a, <1>5 DEF WorkerNotify
  <2>2. QED
    BY <2>1 DEF ResponseDue
<1>6. CASE EventLoopWait
  <2>1. batch = {} /\ iopc = "wait" /\ reg'.filters = reg.filters
    BY <1>a, <1>6, CollectFacts DEF EventLoopWait, Sizes
  <2>2. "write" \in reg.pending /\ Len(out) < Room => "write" \in batch'
    BY <1>6, ReadyFacts DEF EventLoopWait, Reported
  <2>3. QED
    BY <1>a, <1>6, <2>1, <2>2 DEF EventLoopWait, ResponseDue, Idle
<1>7. ASSUME NEW e \in Filters \cup {"msgs"}, Dispatch(e)
      PROVE  ResponseDue'
  BY <1>7 DEF Dispatch, ResponseDue, Idle, Filters
<1>8. CASE BatchDone \/ ReadAgain \/ ReadRequest
  BY <1>8 DEF BatchDone, ReadAgain, ReadRequest, ResponseDue, Idle
<1>9. CASE HandleMessages
  <2>1. CASE msgs > 0
    <3>1. {"write"} \in SUBSET Filters
      BY DEF Filters
    <3>2. "write" \in reg'.filters /\ ("write" \in Ready => "write" \in reg'.pending)
      <4>1. /\ {"write"} \subseteq Mod(backend, reg, {"write"}, Ready).filters
            /\ {"write"} \cap Ready \subseteq Mod(backend, reg, {"write"}, Ready).pending
        BY <1>a, <3>1, ModFacts
      <4>2. reg' = Mod(backend, reg, {"write"}, Ready)
        BY <1>9, <2>1 DEF HandleMessages
      <4>3. QED
        BY <4>1, <4>2
    <3>3. "write" \in reg'.pending \/ Len(out') = Room
      BY <1>a, <1>9, <3>2, ReadyFacts DEF HandleMessages
    <3>4. QED
      BY <3>2, <3>3 DEF ResponseDue
  <2>2. CASE ~(msgs > 0)
    BY <1>9, <2>2 DEF HandleMessages, ResponseDue, Idle
  <2>3. QED
    BY <2>1, <2>2
<1>10. CASE WriteStart
  BY <1>a, <1>10 DEF WriteStart, ResponseDue, Idle
<1>11. CASE WriteLoop
  BY <1>a, <1>11 DEF WriteLoop, ResponseDue, Idle
<1>12. CASE WriteCall
  <2> DEFINE n == IF lsize - lpos < Room - Len(out) THEN lsize - lpos ELSE Room - Len(out)
  <2>1. CASE n > 0
    BY <1>12, <2>1 DEF WriteCall, ResponseDue, Idle
  <2>2. CASE ~(n > 0)
    <3>1. Len(out) = Room /\ out' = out
      BY <1>a, <1>12, <2>2 DEF WriteCall, Sizes
    <3>2. QED
      BY <1>12, <3>1 DEF WriteCall, ResponseDue, Idle
  <2>3. QED
    BY <2>1, <2>2
<1>13. CASE WriteAdvance
  BY <1>a, <1>13 DEF WriteAdvance, ResponseDue, Idle
<1>14. CASE WriteAgain
  BY <1>a, <1>14 DEF WriteAgain, ResponseDue, Idle
<1>15. CASE UNCHANGED vars
  BY <1>15 DEF vars, ResponseDue, Idle
<1>16. QED
  BY <1>1, <1>2, <1>3, <1>4, <1>5, <1>6, <1>7, <1>8, <1>9, <1>10, <1>11, <1>12, <1>13, <1>14,
     <1>15 DEF Next, IoStep, WorkerStep

-----------------------------------------------------------------------------
(***************************************************************************)
(* The client that waits for each answer, on epoll, its requests being one *)
(* piece each: where its request is, and what that says of every buffer on *)
(* the way.                                                                *)
(***************************************************************************)
\* The i-th cell of the ideal stream of responses.
Cell(i) == IF i % 2 = 1 THEN 0 ELSE i \div 2

\* What has left the server is the beginning of the ideal stream.
Faithful ==
    /\ \A i \in 1 .. Len(got) : got[i] = Cell(i)
    /\ \A i \in 1 .. Len(out) : out[i] = Cell(Len(got) + i)

\* How many cells have left the server.
Told == Len(got) + Len(out)

AllIdle == \A w \in Workers : Idle(w)

\* The IO thread is outside handle_write, and the connection waits for requests.
Reading == reg.filters = {"read"} /\ iopc \in {"wait", "dispatch", "msgs", "read"}

\* A batch of such a connection holds at most one event.
OnlyEvent(e) == batch \subseteq {e} /\ (batch # {} => iopc = "dispatch")

\* Everything read so far is answered; there may be one request in the socket, and
\* handle_write may still have to notice that it is done.
Quiet ==
    /\ tasks = <<>> /\ AllIdle /\ msgs = 0 /\ OnlyEvent("read")
    /\ \/ inbuf = <<>> /\ Told = 2 * sent
       \/ inbuf = <<sent>> /\ sent > 0 /\ Told = 2 * sent - 2
    /\ \/ Reading /\ iopc # "msgs" /\ wsize = 0 /\ wpos = 0
       \/ iopc = "advance" /\ wsize = 2 /\ wpos + ln = 2
       \/ iopc = "loop" /\ wsize = 2 /\ wpos = 2

\* The request is in the worker pool's queue.
InTask ==
    /\ sent > 0 /\ inbuf = <<>> /\ Told = 2 * sent - 2
    /\ tasks = << <<sent>> >> /\ AllIdle /\ msgs = 0 /\ batch = {}
    /\ Reading /\ iopc # "msgs" /\ wsize = 0 /\ wpos = 0

\* One worker has it and is storing the response.
InWorker ==
    /\ sent > 0 /\ inbuf = <<>> /\ Told = 2 * sent - 2
    /\ tasks = <<>> /\ msgs = 0 /\ batch = {}
    /\ Reading /\ iopc # "msgs" /\ wpos = 0
    /\ \E w \in Workers :
          /\ wdata[w] = <<sent>> /\ \A v \in Workers \ {w} : Idle(v)
          /\ ("buf" \notin wstores[w] => buf[1] = 0 /\ buf[2] = sent)
          /\ ("size" \notin wstores[w] => wsize = 2)

\* The response is in the write buffer and nobody else is at work.
Stored == /\ sent > 0 /\ inbuf = <<>> /\ tasks = <<>> /\ AllIdle
          /\ buf[1] = 0 /\ buf[2] = sent /\ wsize = 2

\* The worker's message is under way.
Announced ==
    /\ Stored /\ msgs = 1 /\ wpos = 0 /\ Told = 2 * sent - 2
    /\ Reading /\ OnlyEvent("msgs")

\* The response is being sent.
Sending ==
    /\ Stored /\ msgs = 0 /\ reg.filters = {"write"} /\ iopc # "read" /\ OnlyEvent("write")
    /\ Told = 2 * sent - 2 + wpos + (IF iopc = "advance" THEN ln ELSE 0) /\ Told < 2 * sent
    /\ (iopc = "write" => lpos = wpos /\ lsize = 2)

Stage == Quiet \/ InTask \/ InWorker \/ Announced \/ Sending

Echo == backend = "epoll" /\ client = "waits" => Faithful /\ Stage

\* The cells of the k-th response, and those of the responses before it.
LEMMA CellFacts ==
    ASSUME NEW k \in Nat, k > 0
    PROVE  /\ Cell(2 * k - 1) = 0 /\ Cell(2 * k) = k
           /\ \A i \in Nat : i < 2 * k => Cell(i) # k
<1>1. (2 * k - 1) % 2 = 1 /\ (2 * k) % 2 = 0 /\ (2 * k) \div 2 = k
  OBVIOUS
<1>2. \A i \in Nat : i < 2 * k => i \div 2 # k
  OBVIOUS
<1>3. QED
  BY <1>1, <1>2 DEF Cell

\* On epoll a change of interest replaces the filters.
LEMMA EpollSwitch ==
    ASSUME backend = "epoll", NEW e, NEW ready
    PROVE  Mod(backend, reg, e, ready).filters = e
BY DEF Mod, EpollMod, Add

\* The client's reading moves cells from the socket to the client.
LEMMA ReceiveStage ==
    ASSUME TypeOK, Faithful, Stage, ClientReceive
    PROVE  Faithful' /\ Stage'
<1>a. /\ got \in Seq(Cells) /\ out \in Seq(Cells) /\ Len(got) \in Nat /\ Len(out) \in Nat
      /\ reg \in Registration
  BY LenProperties DEF TypeOK
<1>1. /\ Len(got') = Len(got) + Len(out)
      /\ \A i \in 1 .. Len(got) + Len(out) :
            got'[i] = IF i <= Len(got) THEN got[i] ELSE out[i - Len(got)]
      /\ Len(out') = 0
  BY <1>a, ConcatProperties, EmptySeq DEF ClientReceive
<1>2. Faithful'
  <2>1. \A i \in 1 .. Len(got') : got'[i] = Cell(i)
    <3> SUFFICES ASSUME NEW i \in 1 .. Len(got')
                 PROVE  got'[i] = Cell(i)
      OBVIOUS
    <3>1. CASE i <= Len(got)
      BY <1>a, <1>1, <3>1 DEF Faithful
    <3>2. CASE ~(i <= Len(got))
      <4>1. i - Len(got) \in 1 .. Len(out) /\ Len(got) + (i - Len(got)) = i
        BY <1>a, <1>1, <3>2
      <4>2. QED
        BY <1>1, <3>2, <4>1 DEF Faithful
    <3>3. QED
      BY <3>1, <3>2
  <2>2. QED
    BY <1>1, <2>1 DEF Faithful
<1>3. Told' = Told
  BY <1>a, <1>1 DEF Told
<1>4. reg'.filters = reg.filters
  BY <1>a, RaiseFacts DEF ClientReceive
<1>5. UNCHANGED <<sent, inbuf, tasks, wdata, wstores, msgs, buf, wsize, wpos, iopc, batch, lpos,
                  lsize, ln, reg.filters, Told>>
  BY <1>3, <1>4 DEF ClientReceive
<1>6. QED
  BY <1>2, <1>5 DEF Stage, Quiet, InTask, InWorker, Announced, Sending, Stored, Reading, OnlyEvent,
                    AllIdle, Idle

\* The client sends only when its last request is answered, so only in Quiet.
LEMMA SendStage ==
    ASSUME TypeOK, Faithful, Stage, client = "waits", ClientSend
    PROVE  Faithful' /\ Stage'
<1>a. /\ got \in Seq(Cells) /\ Len(got) \in Nat /\ Len(out) \in Nat
      /\ reg \in Registration /\ sent \in Nat
  BY LenProperties DEF TypeOK
<1>1. Quiet /\ inbuf = <<>> /\ Told = 2 * sent
  <2>1. ASSUME sent > 0, Told < 2 * sent
        PROVE  FALSE
    <3>a. Answered
      BY DEF ClientSend
    <3>b. sent \in Elements(got)
      BY <1>a, <2>1, <3>a DEF Answered
    <3>1. PICK i \in 1 .. Len(got) : got[i] = sent
      BY <3>b DEF Elements
    <3>2. i \in Nat /\ i < 2 * sent
      BY <1>a, <2>1 DEF Told
    <3>3. got[i] = Cell(i)
      BY DEF Faithful
    <3>4. QED
      BY <1>a, <2>1, <3>1, <3>2, <3>3, CellFacts
  <2>2. QED
    BY <1>a, <2>1 DEF Stage, Quiet, InTask, InWorker, Announced, Sending, Stored, Told
<1>2. sent' = sent + 1 /\ inbuf' = <<sent'>> /\ reg'.filters = reg.filters
  BY <1>a, <1>1, RaiseFacts DEF ClientSend
<1>3. Faithful' /\ Told' = Told
  BY DEF ClientSend, Faithful, Told
<1>4. sent' > 0 /\ Told' = 2 * sent' - 2
  BY <1>a, <1>1, <1>2, <1>3
<1>5. Quiet'
  BY <1>1, <1>2, <1>4 DEF ClientSend, Quiet, AllIdle, Idle, OnlyEvent, Reading
<1>6. QED
  BY <1>3, <1>5 DEF Stage

\* From Quiet the IO thread reads the request, or finishes handle_write.
LEMMA QuietStage ==
    ASSUME TypeOK, Sizes, Faithful, Quiet, backend = "epoll",
           IoStep \/ \E w \in Workers : WorkerStep(w)
    PROVE  Faithful' /\ Stage'
<1> USE PathAssumption
<1>a. /\ reg \in Registration /\ sent \in Nat /\ wpos \in Nat /\ wsize \in Nat /\ ln \in Nat
      /\ msgs \in Nat /\ inbuf \in Seq(Requests) /\ reg.pending \subseteq reg.filters
  BY DEF TypeOK, Sizes
<1>1. ASSUME NEW w \in Workers, WorkerStep(w)
      PROVE  FALSE
  <2>1. Idle(w) /\ wstores[w] = {} /\ tasks = <<>>
    BY DEF Quiet, AllIdle, Sizes
  <2>2. QED
    BY <1>1, <2>1 DEF WorkerStep, WorkerTake, WorkerStore, WorkerNotify
<1>2. CASE EventLoopWait
  <2>1. /\ reg'.filters = reg.filters /\ reg.pending \subseteq {"read"}
        /\ reg.filters = {"read"} /\ wsize = 0 /\ wpos = 0
    BY <1>a, <1>2, CollectFacts DEF EventLoopWait, Quiet, Reading
  <2>2. batch' \subseteq {"read"} /\ iopc' = "dispatch"
    BY <1>2, <2>1 DEF EventLoopWait, Reported, Quiet
  <2>3. Faithful' /\ Told' = Told
    BY <1>2 DEF EventLoopWait, Faithful, Told
  <2>4. Quiet'
    BY <1>2, <2>1, <2>2, <2>3 DEF EventLoopWait, Quiet, Reading, AllIdle, Idle, OnlyEvent
  <2>5. QED
    BY <2>3, <2>4 DEF Stage
<1>3. ASSUME NEW e \in Filters \cup {"msgs"}, Dispatch(e)
      PROVE  Faithful' /\ Stage'
  <2>1. e = "read" /\ iopc' = "read" /\ batch' = {}
    BY <1>3 DEF Dispatch, Quiet, OnlyEvent
  <2>2. Faithful' /\ Told' = Told
    BY <1>3 DEF Dispatch, Faithful, Told
  <2>3. Quiet'
    BY <1>3, <2>1, <2>2 DEF Dispatch, Quiet, Reading, AllIdle, Idle, OnlyEvent
  <2>4. QED
    BY <2>2, <2>3 DEF Stage
<1>4. CASE BatchDone \/ ReadAgain
  <2>1. Faithful' /\ Told' = Told
    BY <1>4 DEF BatchDone, ReadAgain, Faithful, Told
  <2>2. Quiet'
    BY <1>4, <2>1 DEF BatchDone, ReadAgain, Quiet, Reading, AllIdle, Idle, OnlyEvent
  <2>3. QED
    BY <2>1, <2>2 DEF Stage
<1>5. CASE ReadRequest
  <2>1. inbuf = <<sent>> /\ sent > 0 /\ Told = 2 * sent - 2 /\ batch = {}
    BY <1>5 DEF ReadRequest, Quiet, OnlyEvent
  <2>2. tasks' = << <<sent>> >> /\ inbuf' = <<>>
    <3>1. PICK n \in 1 .. Len(inbuf) : /\ tasks' = Append(tasks, SubSeq(inbuf, 1, n))
                                       /\ inbuf' = SubSeq(inbuf, n + 1, Len(inbuf))
      BY <1>5 DEF ReadRequest
    <3>2. n = 1 /\ Len(inbuf) = 1
      BY <2>1
    <3>3. SubSeq(inbuf, 1, 1) = inbuf /\ SubSeq(inbuf, 2, 1) = <<>>
      BY <1>a, <3>2, SubSeqFull, SubSeqEmpty
    <3>4. QED
      BY <2>1, <3>1, <3>2, <3>3 DEF Quiet
  <2>3. Faithful' /\ Told' = Told
    BY <1>5 DEF ReadRequest, Faithful, Told
  <2>4. InTask'
    BY <1>5, <2>1, <2>2, <2>3 DEF ReadRequest, InTask, Quiet, Reading, AllIdle, Idle
  <2>5. QED
    BY <2>3, <2>4 DEF Stage
<1>6. CASE WriteLoop
  <2>1. wpos = 2 /\ wsize = 2 /\ batch = {}
    BY <1>6 DEF WriteLoop, Quiet, Reading, OnlyEvent
  <2>2. wpos' = 0 /\ wsize' = 0 /\ iopc' = "dispatch" /\ reg'.filters = {"read"}
    BY <1>6, <2>1, EpollSwitch DEF WriteLoop
  <2>3. Faithful' /\ Told' = Told
    BY <1>6 DEF WriteLoop, Faithful, Told
  <2>4. Quiet'
    BY <1>6, <2>1, <2>2, <2>3 DEF WriteLoop, Quiet, Reading, AllIdle, Idle, OnlyEvent
  <2>5. QED
    BY <2>3, <2>4 DEF Stage
<1>7. CASE WriteAdvance
  <2>1. wpos + ln = 2 /\ wsize = 2 /\ batch = {}
    BY <1>7 DEF WriteAdvance, Quiet, Reading, OnlyEvent
  <2>2. Faithful' /\ Told' = Told
    BY <1>7 DEF WriteAdvance, Faithful, Told
  <2>3. Quiet'
    BY <1>7, <2>1, <2>2 DEF WriteAdvance, Quiet, Reading, AllIdle, Idle, OnlyEvent
  <2>4. QED
    BY <2>2, <2>3 DEF Stage
<1>8. ASSUME HandleMessages \/ WriteStart \/ WriteCall \/ WriteAgain
      PROVE  FALSE
  BY <1>8 DEF HandleMessages, WriteStart, WriteCall, WriteAgain, Quiet, Reading
<1>9. QED
  BY <1>1, <1>2, <1>3, <1>4, <1>5, <1>6, <1>7, <1>8 DEF IoStep

\* A queued request is taken by a worker; the IO thread has nothing to do.
LEMMA InTaskStage ==
    ASSUME TypeOK, Sizes, Faithful, InTask, backend = "epoll",
           IoStep \/ \E w \in Workers : WorkerStep(w)
    PROVE  Faithful' /\ Stage'
<1> USE PathAssumption
<1>1. ASSUME NEW w \in Workers, WorkerStep(w)
      PROVE  Faithful' /\ Stage'
  <2>1. WorkerTake(w)
    <3>1. Idle(w) /\ wstores[w] = {}
      BY DEF InTask, AllIdle, Sizes
    <3>2. QED
      BY <1>1, <3>1 DEF WorkerStep, WorkerStore, WorkerNotify
  <2>2. /\ wdata' = [wdata EXCEPT ![w] = <<sent>>] /\ tasks' = <<>>
        /\ wstores' = [wstores EXCEPT ![w] = {"buf", "size", "pos"}]
    <3>1. Head(<< <<sent>> >>) = <<sent>> /\ Tail(<< <<sent>> >>) = <<>>
      OBVIOUS
    <3>2. QED
      BY <2>1, <3>1 DEF WorkerTake, InTask
  <2>3. /\ wdata'[w] = <<sent>> /\ wstores'[w] = {"buf", "size", "pos"}
        /\ \A v \in Workers \ {w} : Idle(v)'
    BY <2>2 DEF InTask, AllIdle, Idle, TypeOK
  <2>4. Faithful' /\ Told' = Told
    BY <2>1 DEF WorkerTake, Faithful, Told
  <2>5. InWorker'
    BY <2>1, <2>2, <2>3, <2>4 DEF WorkerTake, InTask, InWorker, Reading
  <2>6. QED
    BY <2>4, <2>5 DEF Stage
<1>2. ASSUME EventLoopWait
      PROVE  FALSE
  <2>1. reg.pending \subseteq {"read"} /\ "read" \notin Ready /\ msgs = 0
    BY ReadyFacts DEF InTask, Reading, Sizes
  <2>2. QED
    BY <1>2, <2>1 DEF EventLoopWait, Reported
<1>3. CASE BatchDone \/ ReadAgain
  <2>1. Faithful' /\ Told' = Told
    BY <1>3 DEF BatchDone, ReadAgain, Faithful, Told
  <2>2. InTask'
    BY <1>3, <2>1 DEF BatchDone, ReadAgain, InTask, Reading, AllIdle, Idle
  <2>3. QED
    BY <2>1, <2>2 DEF Stage
<1>4. ASSUME \/ \E e \in Filters \cup {"msgs"} : Dispatch(e)
             \/ HandleMessages \/ ReadRequest
             \/ WriteStart \/ WriteLoop \/ WriteCall \/ WriteAdvance \/ WriteAgain
      PROVE  FALSE
  BY <1>4 DEF Dispatch, HandleMessages, ReadRequest, WriteStart, WriteLoop, WriteCall, WriteAdvance,
              WriteAgain, InTask, Reading
<1>5. QED
  BY <1>1, <1>2, <1>3, <1>4 DEF IoStep

\* The worker stores the response, in any order, and sends its message; handle_write
\* is not at work meanwhile.
LEMMA InWorkerStage ==
    ASSUME TypeOK, Sizes, Faithful, InWorker, backend = "epoll",
           IoStep \/ \E w \in Workers : WorkerStep(w)
    PROVE  Faithful' /\ Stage'
<1> USE PathAssumption
<1>a. /\ wdata \in [Workers -> Seq(Requests)] /\ wstores \in [Workers -> SUBSET {"buf", "size", "pos"}]
      /\ buf \in Seq(Cells) /\ sent \in Nat /\ sent <= MaxRequests /\ MaxRequests \in Nat
  BY DEF TypeOK
<1>b. PICK w \in Workers :
         /\ wdata[w] = <<sent>> /\ \A v \in Workers \ {w} : Idle(v)
         /\ ("buf" \notin wstores[w] => buf[1] = 0 /\ buf[2] = sent)
         /\ ("size" \notin wstores[w] => wsize = 2)
  BY DEF InWorker
<1>c. ~Idle(w) /\ \A v \in Workers \ {w} : wstores[v] = {}
  BY <1>b DEF Idle, Sizes
<1>1. ASSUME NEW v \in Workers, WorkerStep(v)
      PROVE  Faithful' /\ Stage'
  <2>1. v = w /\ ~WorkerTake(v)
    BY <1>b, <1>c, <1>1 DEF WorkerStep, WorkerTake, WorkerStore, WorkerNotify, InWorker
  <2>2. ASSUME NEW s \in {"buf", "size", "pos"}, WorkerStore(w, s)
        PROVE  Faithful' /\ Stage'
    <3>1. /\ Len(Response(wdata[w])) = 2 /\ Response(wdata[w]) \in Seq(Cells)
          /\ Response(wdata[w])[1] = 0 /\ Response(wdata[w])[2] = sent
      <4>1. Len(<<sent>>) = 1 /\ <<sent>>[1] = sent /\ Len(wdata[w]) <= MaxRequests
        BY <1>b, <1>c DEF Sizes, IsChunk
      <4>2. /\ Len(Response(wdata[w])) = Len(wdata[w]) + 1 /\ Response(wdata[w]) \in Seq(Cells)
            /\ Response(wdata[w])[1] = 0
            /\ \A i \in 1 .. Len(wdata[w]) : Response(wdata[w])[i + 1] = wdata[w][i]
        BY <1>a, <4>1, ResponseFacts
      <4>3. QED
        BY <1>b, <4>1, <4>2
    <3>2. s = "buf" => buf'[1] = 0 /\ buf'[2] = sent
      <4>1. Len(Response(wdata[w])) <= Len(buf)
        BY <3>1, <1>a DEF Sizes, InWorker
      <4>2. \A i \in 1 .. 2 : s = "buf" => buf'[i] = Response(wdata[w])[i]
        <5> DEFINE r == Response(wdata[w])
        <5>1. s = "buf" => buf' = r \o SubSeq(buf, Len(r) + 1, Len(buf))
          BY <2>2 DEF WorkerStore
        <5> HIDE DEF r
        <5>2. \A i \in 1 .. Len(r) : (r \o SubSeq(buf, Len(r) + 1, Len(buf)))[i] = r[i]
          BY <1>a, <3>1, <4>1, StoreFacts DEF r
        <5>3. Len(r) = 2
          BY <3>1 DEF r
        <5>4. QED
          BY <5>1, <5>2, <5>3 DEF r
      <4>3. QED
        BY <3>1, <4>2
    <3>3. /\ (s # "buf" => buf' = buf) /\ (s = "size" => wsize' = 2) /\ (s # "size" => wsize' = wsize)
          /\ wpos' = 0 /\ wstores'[w] = wstores[w] \ {s} /\ wdata' = wdata
      BY <1>a, <2>2, <3>1 DEF WorkerStore, InWorker
    <3>4. Faithful' /\ Told' = Told
      BY <2>2 DEF WorkerStore, Faithful, Told
    <3>5. InWorker'
      <4>1. /\ wdata'[w] = <<sent>> /\ \A u \in Workers \ {w} : Idle(u)'
            /\ ("buf" \notin wstores'[w] => buf'[1] = 0 /\ buf'[2] = sent)
            /\ ("size" \notin wstores'[w] => wsize' = 2)
        BY <1>b, <3>2, <3>3 DEF Idle
      <4>2. QED
        BY <2>2, <3>3, <3>4, <4>1 DEF WorkerStore, InWorker, Reading
    <3>6. QED
      BY <3>4, <3>5 DEF Stage
  <2>3. CASE WorkerNotify(w)
    <3>1. AllIdle'
      BY <1>a, <1>b, <2>3 DEF WorkerNotify, AllIdle, Idle
    <3>2. Faithful' /\ Told' = Told
      BY <2>3 DEF WorkerNotify, Faithful, Told
    <3>3. Announced'
      BY <1>b, <2>3, <3>1, <3>2
         DEF WorkerNotify, Announced, Stored, InWorker, Reading, OnlyEvent
    <3>4. QED
      BY <3>2, <3>3 DEF Stage
  <2>4. QED
    BY <1>1, <2>1, <2>2, <2>3 DEF WorkerStep
<1>2. ASSUME EventLoopWait
      PROVE  FALSE
  <2>1. reg.pending \subseteq {"read"} /\ "read" \notin Ready /\ msgs = 0
    BY ReadyFacts DEF InWorker, Reading, Sizes
  <2>2. QED
    BY <1>2, <2>1 DEF EventLoopWait, Reported
<1>3. CASE BatchDone \/ ReadAgain
  <2>1. Faithful' /\ Told' = Told
    BY <1>3 DEF BatchDone, ReadAgain, Faithful, Told
  <2>2. InWorker'
    BY <1>3, <2>1 DEF BatchDone, ReadAgain, InWorker, Reading, Idle
  <2>3. QED
    BY <2>1, <2>2 DEF Stage
<1>4. ASSUME \/ \E e \in Filters \cup {"msgs"} : Dispatch(e)
             \/ HandleMessages \/ ReadRequest
             \/ WriteStart \/ WriteLoop \/ WriteCall \/ WriteAdvance \/ WriteAgain
      PROVE  FALSE
  BY <1>4 DEF Dispatch, HandleMessages, ReadRequest, WriteStart, WriteLoop, WriteCall, WriteAdvance,
              WriteAgain, InWorker, Reading
<1>5. QED
  BY <1>1, <1>2, <1>3, <1>4 DEF IoStep

\* The message makes the IO thread wait for room in the send buffer.
LEMMA AnnouncedStage ==
    ASSUME TypeOK, Sizes, Faithful, Announced, backend = "epoll",
           IoStep \/ \E w \in Workers : WorkerStep(w)
    PROVE  Faithful' /\ Stage'
<1> USE PathAssumption
<1>1. ASSUME NEW w \in Workers, WorkerStep(w)
      PROVE  FALSE
  <2>1. Idle(w) /\ wstores[w] = {} /\ tasks = <<>>
    BY DEF Announced, Stored, AllIdle, Sizes
  <2>2. QED
    BY <1>1, <2>1 DEF WorkerStep, WorkerTake, WorkerStore, WorkerNotify
<1>2. CASE EventLoopWait
  <2>1. reg'.filters = reg.filters
    BY <1>2, CollectFacts DEF EventLoopWait, TypeOK
  <2>2. batch' \subseteq {"msgs"} /\ iopc' = "dispatch"
    <3>1. reg.pending \subseteq {"read"} /\ "read" \notin Ready
      BY ReadyFacts DEF Announced, Stored, Reading, Sizes
    <3>2. QED
      BY <1>2, <3>1 DEF EventLoopWait, Reported
  <2>3. Faithful' /\ Told' = Told
    BY <1>2 DEF EventLoopWait, Faithful, Told
  <2>4. Announced'
    BY <1>2, <2>1, <2>2, <2>3
       DEF EventLoopWait, Announced, Stored, Reading, AllIdle, Idle, OnlyEvent
  <2>5. QED
    BY <2>3, <2>4 DEF Stage
<1>3. ASSUME NEW e \in Filters \cup {"msgs"}, Dispatch(e)
      PROVE  Faithful' /\ Stage'
  <2>1. e = "msgs" /\ iopc' = "msgs" /\ batch' = {}
    BY <1>3 DEF Dispatch, Announced, OnlyEvent
  <2>2. Faithful' /\ Told' = Told
    BY <1>3 DEF Dispatch, Faithful, Told
  <2>3. Announced'
    BY <1>3, <2>1, <2>2 DEF Dispatch, Announced, Stored, Reading, AllIdle, Idle, OnlyEvent
  <2>4. QED
    BY <2>2, <2>3 DEF Stage
<1>4. CASE BatchDone \/ ReadAgain
  <2>1. Faithful' /\ Told' = Told
    BY <1>4 DEF BatchDone, ReadAgain, Faithful, Told
  <2>2. Announced'
    BY <1>4, <2>1 DEF BatchDone, ReadAgain, Announced, Stored, Reading, AllIdle, Idle, OnlyEvent
  <2>3. QED
    BY <2>1, <2>2 DEF Stage
<1>5. CASE HandleMessages
  <2>1. msgs = 1 /\ batch = {} /\ iopc = "msgs"
    BY <1>5 DEF HandleMessages, Announced, OnlyEvent
  <2>2. msgs' = 0 /\ reg'.filters = {"write"} /\ iopc' = "msgs" /\ batch' = {}
    BY <1>5, <2>1, EpollSwitch DEF HandleMessages
  <2>3. Faithful' /\ Told' = Told
    BY <1>5 DEF HandleMessages, Faithful, Told
  <2>4. wpos' = 0 /\ sent' = sent /\ Told' = 2 * sent' - 2 + wpos' /\ Told' < 2 * sent'
    <3>1. sent \in Nat
      BY DEF TypeOK
    <3>2. QED
      BY <1>5, <2>3, <3>1 DEF HandleMessages, Announced
  <2>5. Sending'
    BY <1>5, <2>2, <2>3, <2>4
       DEF HandleMessages, Announced, Sending, Stored, AllIdle, Idle, OnlyEvent
  <2>6. QED
    BY <2>3, <2>5 DEF Stage
<1>6. ASSUME \/ ReadRequest
             \/ WriteStart \/ WriteLoop \/ WriteCall \/ WriteAdvance \/ WriteAgain
      PROVE  FALSE
  BY <1>6 DEF ReadRequest, WriteStart, WriteLoop, WriteCall, WriteAdvance, WriteAgain, Announced,
              Stored, Reading
<1>7. QED
  BY <1>1, <1>2, <1>3, <1>4, <1>5, <1>6 DEF IoStep

\* handle_write sends the response cell by cell, however often it is cut short: what
\* it adds to the socket are the cells that come next in the ideal stream.
LEMMA SendingStage ==
    ASSUME TypeOK, Sizes, Faithful, Sending, backend = "epoll",
           IoStep \/ \E w \in Workers : WorkerStep(w)
    PROVE  Faithful' /\ Stage'
<1> USE PathAssumption
<1>a. /\ sent \in Nat /\ sent > 0 /\ wpos \in Nat /\ ln \in Nat /\ lpos \in Nat /\ lsize \in Nat
      /\ Len(got) \in Nat /\ Len(out) \in Nat /\ Len(out) <= Room /\ wsize = 2
      /\ out \in Seq(Cells) /\ buf \in Seq(Cells) /\ Len(buf) >= 2 /\ Told \in Nat
  BY LenProperties DEF TypeOK, Sizes, Sending, Stored, Told
<1>1. ASSUME NEW w \in Workers, WorkerStep(w)
      PROVE  FALSE
  <2>1. Idle(w) /\ wstores[w] = {} /\ tasks = <<>>
    BY DEF Sending, Stored, AllIdle, Sizes
  <2>2. QED
    BY <1>1, <2>1 DEF WorkerStep, WorkerTake, WorkerStore, WorkerNotify
<1>2. CASE EventLoopWait
  <2>1. reg'.filters = reg.filters
    BY <1>2, CollectFacts DEF EventLoopWait, TypeOK
  <2>2. batch' \subseteq {"write"} /\ iopc' = "dispatch" /\ iopc = "wait"
    <3>1. reg.pending \subseteq {"write"} /\ msgs = 0
      BY DEF Sending, Sizes
    <3>2. QED
      BY <1>2, <3>1 DEF EventLoopWait, Reported
  <2>3. Faithful' /\ Told' = Told
    BY <1>2 DEF EventLoopWait, Faithful, Told
  <2>4. Sending'
    BY <1>2, <2>1, <2>2, <2>3 DEF EventLoopWait, Sending, Stored, AllIdle, Idle, OnlyEvent
  <2>5. QED
    BY <2>3, <2>4 DEF Stage
<1>3. ASSUME NEW e \in Filters \cup {"msgs"}, Dispatch(e)
      PROVE  Faithful' /\ Stage'
  <2>1. e = "write" /\ iopc' = "start" /\ batch' = {} /\ iopc = "dispatch"
    BY <1>3 DEF Dispatch, Sending, OnlyEvent
  <2>2. Faithful' /\ Told' = Told
    BY <1>3 DEF Dispatch, Faithful, Told
  <2>3. Sending'
    BY <1>3, <2>1, <2>2 DEF Dispatch, Sending, Stored, AllIdle, Idle, OnlyEvent
  <2>4. QED
    BY <2>2, <2>3 DEF Stage
<1>4. CASE BatchDone
  <2>1. Faithful' /\ Told' = Told
    BY <1>4 DEF BatchDone, Faithful, Told
  <2>2. Sending'
    BY <1>4, <2>1 DEF BatchDone, Sending, Stored, AllIdle, Idle, OnlyEvent
  <2>3. QED
    BY <2>1, <2>2 DEF Stage
<1>5. CASE HandleMessages
  <2>1. msgs = 0 /\ batch = {} /\ iopc = "msgs" /\ iopc' = "dispatch" /\ UNCHANGED <<msgs, reg>>
    BY <1>5 DEF HandleMessages, Sending, OnlyEvent
  <2>2. Faithful' /\ Told' = Told
    BY <1>5 DEF HandleMessages, Faithful, Told
  <2>3. Sending'
    BY <1>5, <2>1, <2>2 DEF HandleMessages, Sending, Stored, AllIdle, Idle, OnlyEvent
  <2>4. QED
    BY <2>2, <2>3 DEF Stage
<1>6. CASE WriteStart
  <2>1. iopc = "start" /\ iopc' = "loop" /\ reg' = reg
    BY <1>a, <1>6 DEF WriteStart
  <2>2. Faithful' /\ Told' = Told
    BY <1>6 DEF WriteStart, Faithful, Told
  <2>3. Sending'
    BY <1>6, <2>1, <2>2 DEF WriteStart, Sending, Stored, AllIdle, Idle, OnlyEvent
  <2>4. QED
    BY <2>2, <2>3 DEF Stage
<1>7. CASE WriteLoop
  <2>1. wpos < wsize
    <3>1. iopc = "loop"
      BY <1>7 DEF WriteLoop
    <3>2. Told = 2 * sent - 2 + wpos /\ Told < 2 * sent /\ wsize = 2
      BY <1>a, <3>1 DEF Sending, Stored
    <3>3. QED
      BY <1>a, <3>2
  <2>2. iopc' = "write" /\ lpos' = wpos /\ lsize' = 2 /\ UNCHANGED <<wpos, wsize, reg>>
    BY <1>a, <1>7, <2>1 DEF WriteLoop
  <2>3. Faithful' /\ Told' = Told
    BY <1>7 DEF WriteLoop, Faithful, Told
  <2>4. Sending'
    BY <1>7, <2>2, <2>3 DEF WriteLoop, Sending, Stored, AllIdle, Idle, OnlyEvent
  <2>5. QED
    BY <2>3, <2>4 DEF Stage
<1>8. CASE WriteCall
  <2> DEFINE n == IF lsize - lpos < Room - Len(out) THEN lsize - lpos ELSE Room - Len(out)
  <2>1. /\ iopc = "write" /\ lpos = wpos /\ lsize = 2 /\ wpos < 2 /\ batch = {}
        /\ Told = 2 * sent - 2 + wpos
    <3>1. /\ iopc = "write" /\ lpos = wpos /\ lsize = 2 /\ batch = {}
          /\ Told = 2 * sent - 2 + wpos + 0 /\ Told < 2 * sent
      BY <1>8 DEF WriteCall, Sending, OnlyEvent
    <3>2. QED
      BY <1>a, <3>1
  <2>2. CASE n > 0
    <3>1. n \in Nat /\ n > 0 /\ wpos + n <= 2
      BY <1>a, <2>1, <2>2
    <3>2. out' = out \o SubSeq(buf, wpos + 1, wpos + n) /\ ln' = n /\ iopc' = "advance"
      BY <1>8, <2>1, <2>2 DEF WriteCall
    <3> HIDE DEF n
    <3>3. /\ Len(out') = Len(out) + n /\ \A i \in 1 .. Len(out) : out'[i] = out[i]
          /\ \A i \in 1 .. n : out'[Len(out) + i] = buf[wpos + i]
      <4>1. wpos + n <= Len(buf)
        BY <1>a, <3>1
      <4> DEFINE new == out \o SubSeq(buf, wpos + 1, wpos + n)
      <4>2. Len(new) = Len(out) + n
        BY <1>a, <3>1, <4>1, CopyFacts
      <4>3. \A i \in 1 .. Len(out) : new[i] = out[i]
        BY <1>a, <3>1, <4>1, CopyFacts
      <4>4. \A i \in 1 .. n : new[Len(out) + i] = buf[wpos + i]
        BY <1>a, <3>1, <4>1, CopyFacts
      <4>5. QED
        BY <3>2, <4>2, <4>3, <4>4
    <3>4. \A i \in 1 .. n : buf[wpos + i] = Cell(Told + i)
      <4> SUFFICES ASSUME NEW i \in 1 .. n
                   PROVE  buf[wpos + i] = Cell(Told + i)
        OBVIOUS
      <4>1. wpos + i = 1 \/ wpos + i = 2
        BY <1>a, <2>1, <3>1
      <4>2. Told + i = 2 * sent - 2 + (wpos + i)
        BY <1>a, <2>1, <3>1
      <4>3. CASE wpos + i = 1
        <5>1. Told + i = 2 * sent - 1
          BY <1>a, <4>2, <4>3
        <5>2. QED
          BY <1>a, <4>3, <5>1, CellFacts DEF Sending, Stored
      <4>4. CASE wpos + i = 2
        <5>1. Told + i = 2 * sent
          BY <1>a, <4>2, <4>4
        <5>2. QED
          BY <1>a, <4>4, <5>1, CellFacts DEF Sending, Stored
      <4>5. QED
        BY <4>1, <4>3, <4>4
    <3>5. Faithful'
      <4>1. got' = got
        BY <1>8 DEF WriteCall
      <4>2. \A i \in 1 .. Len(out') : out'[i] = Cell(Len(got) + i)
        <5> SUFFICES ASSUME NEW i \in 1 .. Len(out')
                     PROVE  out'[i] = Cell(Len(got) + i)
          OBVIOUS
        <5>1. CASE i <= Len(out)
          BY <1>a, <3>3, <5>1 DEF Faithful
        <5>2. CASE ~(i <= Len(out))
          <6>1. PICK j \in 1 .. n : i = Len(out) + j
            <7>1. i - Len(out) \in 1 .. n /\ i = Len(out) + (i - Len(out))
              BY <1>a, <3>1, <3>3, <5>2
            <7>2. QED
              BY <7>1
          <6>2. Len(got) + i = Told + j
            BY <1>a, <3>1, <6>1 DEF Told
          <6>3. QED
            BY <3>3, <3>4, <6>1, <6>2
        <5>3. QED
          BY <5>1, <5>2
      <4>3. QED
        BY <4>1, <4>2 DEF Faithful
    <3>6. Told' = 2 * sent - 2 + wpos + n /\ Told' = Told + n
      <4>1. got' = got
        BY <1>8 DEF WriteCall
      <4>2. Told' = Told + n
        BY <1>a, <3>1, <3>3, <4>1 DEF Told
      <4>3. QED
        BY <1>a, <2>1, <3>1, <4>2
    <3>7. CASE wpos + n = 2
      <4>1. Told' = 2 * sent'
        BY <1>a, <1>8, <3>1, <3>6, <3>7 DEF WriteCall
      <4>2. Quiet'
        BY <1>8, <2>1, <3>2, <3>7, <4>1
           DEF WriteCall, Sending, Stored, Quiet, AllIdle, Idle, OnlyEvent
      <4>3. QED
        BY <3>5, <4>2 DEF Stage
    <3>8. CASE wpos + n < 2
      <4>1. Told' = 2 * sent' - 2 + wpos' + ln' /\ Told' < 2 * sent'
        BY <1>a, <1>8, <3>1, <3>2, <3>6, <3>8 DEF WriteCall
      <4>2. Sending'
        BY <1>8, <2>1, <3>2, <4>1 DEF WriteCall, Sending, Stored, AllIdle, Idle, OnlyEvent
      <4>3. QED
        BY <3>5, <4>2 DEF Stage
    <3>9. QED
      BY <1>a, <3>1, <3>7, <3>8
  <2>3. CASE ~(n > 0)
    <3>1. iopc' = "again" /\ UNCHANGED <<out, ln>>
      BY <1>8, <2>3 DEF WriteCall
    <3>2. Faithful' /\ Told' = Told
      BY <1>8, <3>1 DEF WriteCall, Faithful, Told
    <3>3. Sending'
      BY <1>8, <2>1, <3>1, <3>2 DEF WriteCall, Sending, Stored, AllIdle, Idle, OnlyEvent
    <3>4. QED
      BY <3>2, <3>3 DEF Stage
  <2>4. QED
    BY <2>2, <2>3
<1>9. CASE WriteAdvance
  <2>1. /\ iopc = "advance" /\ iopc' = "loop" /\ wpos' = wpos + ln
        /\ Told = 2 * sent - 2 + wpos + ln /\ Told < 2 * sent /\ batch = {}
    BY <1>9 DEF WriteAdvance, Sending, OnlyEvent
  <2>2. Faithful' /\ Told' = Told
    BY <1>9 DEF WriteAdvance, Faithful, Told
  <2>3. Told' = 2 * sent' - 2 + wpos' /\ Told' < 2 * sent'
    BY <1>a, <1>9, <2>1, <2>2 DEF WriteAdvance
  <2>4. Sending'
    BY <1>9, <2>1, <2>3 DEF WriteAdvance, Sending, Stored, AllIdle, Idle, OnlyEvent
  <2>5. QED
    BY <2>2, <2>4 DEF Stage
<1>10. CASE WriteAgain
  <2>1. /\ iopc = "again" /\ ~(wpos >= wsize) /\ batch = {}
        /\ Told = 2 * sent - 2 + wpos /\ Told < 2 * sent
    BY <1>a, <1>10 DEF WriteAgain, Sending, OnlyEvent
  <2>2. iopc' = "dispatch" /\ UNCHANGED <<wpos, wsize, reg>>
    BY <1>10, <2>1 DEF WriteAgain
  <2>3. Faithful' /\ Told' = Told
    BY <1>10 DEF WriteAgain, Faithful, Told
  <2>4. Sending'
    BY <1>10, <2>1, <2>2, <2>3 DEF WriteAgain, Sending, Stored, AllIdle, Idle, OnlyEvent
  <2>5. QED
    BY <2>3, <2>4 DEF Stage
<1>11. ASSUME ReadRequest \/ ReadAgain
       PROVE  FALSE
  BY <1>11 DEF ReadRequest, ReadAgain, Sending
<1>12. QED
  BY <1>1, <1>2, <1>3, <1>4, <1>5, <1>6, <1>7, <1>8, <1>9, <1>10, <1>11 DEF IoStep

\* The five stages follow one another and there is no way out of them.
LEMMA EchoStep == TypeOK /\ Sizes /\ Echo /\ [Next]_vars => Echo'
<1> SUFFICES ASSUME TypeOK, Sizes, Echo, [Next]_vars, backend' = "epoll", client' = "waits"
             PROVE  Faithful' /\ Stage'
  BY DEF Echo
<1>1. UNCHANGED <<backend, client>>
  BY DEF Next, IoStep, WorkerStep, ClientSend, ClientReceive, WorkerTake, WorkerStore, WorkerNotify,
         EventLoopWait, Dispatch, BatchDone, HandleMessages, ReadRequest, ReadAgain, WriteStart,
         WriteLoop, WriteCall, WriteAdvance, WriteAgain, vars
<1>2. backend = "epoll" /\ client = "waits" /\ Faithful /\ Stage
  BY <1>1 DEF Echo
<1>3. CASE ClientSend
  BY <1>2, <1>3, SendStage
<1>4. CASE ClientReceive
  BY <1>2, <1>4, ReceiveStage
<1>5. CASE IoStep \/ \E w \in Workers : WorkerStep(w)
  BY <1>2, <1>5, QuietStage, InTaskStage, InWorkerStage, AnnouncedStage, SendingStage DEF Stage
<1>6. CASE UNCHANGED vars
  <2>1. UNCHANGED <<sent, inbuf, out, got, tasks, wdata, wstores, msgs, buf, wsize, wpos, iopc, batch,
                    lpos, lsize, ln, reg>>
    BY <1>6 DEF vars
  <2>2. Faithful' /\ Told' = Told
    BY <1>2, <2>1 DEF Faithful, Told
  <2>3. QED
    BY <1>2, <2>1, <2>2
       DEF Stage, Quiet, InTask, InWorker, Announced, Sending, Stored, Reading, OnlyEvent, AllIdle, Idle
<1>7. QED
  BY <1>3, <1>4, <1>5, <1>6 DEF Next

-----------------------------------------------------------------------------
\* The inductive invariant of the response path.
PathInv == TypeOK /\ Sizes /\ InputDue /\ ResponseDue /\ Echo

\* It holds of a connection that has just been registered for reading.
LEMMA PathInit == Init => PathInv
<1> SUFFICES ASSUME Init
             PROVE  PathInv
  OBVIOUS
<1> USE PathAssumption DEF Init
<1>1. buf \in Seq(Cells) /\ Len(buf) = MaxRequests + 1
  <2>1. MaxRequests + 1 \in Nat /\ -1 \in Cells
    BY DEF Cells
  <2>2. QED
    BY <2>1, SeqDef
<1>2. /\ inbuf \in Seq(Requests) /\ out \in Seq(Cells) /\ got \in Seq(Cells)
      /\ tasks \in Seq(Seq(Requests)) /\ wdata \in [Workers -> Seq(Requests)]
      /\ Len(inbuf) = 0 /\ Len(out) = 0 /\ Len(got) = 0 /\ Len(tasks) = 0
  BY EmptySeq
<1>3. reg \in Registration /\ reg.filters = {"read"} /\ reg.pending = {}
  BY DEF Add, Registration, Filters
<1>4. TypeOK
  BY <1>1, <1>2, <1>3 DEF TypeOK
<1>5. Sizes
  BY <1>1, <1>2, <1>3 DEF Sizes, Idle
<1>6. InputDue /\ ResponseDue
  BY DEF InputDue, ResponseDue
<1>7. Echo
  <2>1. Faithful /\ Told = 0
    BY <1>2 DEF Faithful, Told
  <2>2. Quiet
    BY <1>3, <2>1 DEF Quiet, OnlyEvent, Reading, AllIdle, Idle
  <2>3. QED
    BY <2>1, <2>2 DEF Echo, Stage
<1>8. QED
  BY <1>4, <1>5, <1>6, <1>7 DEF PathInv

LEMMA PathAlways == Spec => []PathInv
<1>1. PathInv /\ [Next]_vars => PathInv'
  BY PathTypeStep, InputStep, ResponseStep, EchoStep DEF PathInv
<1>2. QED
  BY <1>1, PathInit, PTL DEF Spec

\* The variables of the response path keep their types; the send buffer never holds
\* more than it has room for.
THEOREM PathTypeTheorem == Spec => []TypeOK
<1>1. PathInv => TypeOK
  BY DEF PathInv
<1>2. QED
  BY <1>1, PathAlways, PTL

\* Neither backend of the event loop forgets requests when handle_write and the
\* message loop of io_thread_run switch the connection between reading and writing.
THEOREM NoForgottenInputTheorem == Spec => []NoForgottenInput
<1>1. PathInv => NoForgottenInput
  BY DEF PathInv, Sizes, InputDue, NoForgottenInput
<1>2. QED
  BY <1>1, PathAlways, PTL

\* No response stays in the write buffer without an event that will send it, whatever
\* the moment handle_write finds the send buffer full.
THEOREM NoStrandedTheorem == Spec => []NoStrandedResponse
<1>1. PathInv => NoStrandedResponse
  BY DEF PathInv, Sizes, ResponseDue, NoStrandedResponse
<1>2. QED
  BY <1>1, PathAlways, PTL

\* What leaves the server is the beginning of the ideal stream.
LEMMA FaithfulStream == TypeOK /\ Echo => EchoedInOrder
<1> SUFFICES ASSUME TypeOK, Faithful, Stage
             PROVE  LET stream == got \o out
                    IN  Len(stream) <= 2 * sent /\ stream = SubSeq(Ideal(sent), 1, Len(stream))
  BY DEF Echo, EchoedInOrder
<1> DEFINE stream == got \o out
           ideal == SubSeq(Ideal(sent), 1, Told)
<1>a. /\ got \in Seq(Cells) /\ out \in Seq(Cells) /\ Len(got) \in Nat /\ Len(out) \in Nat
      /\ sent \in Nat /\ wpos \in Nat /\ ln \in Nat /\ Told \in Nat
  BY LenProperties, PathAssumption DEF TypeOK, Told
<1>1. /\ stream \in Seq(Cells) /\ Len(stream) = Told
      /\ \A i \in 1 .. Len(got) + Len(out) :
            stream[i] = IF i <= Len(got) THEN got[i] ELSE out[i - Len(got)]
  BY <1>a, ConcatProperties DEF Told
<1>2. Told <= 2 * sent
  BY <1>a DEF Stage, Quiet, InTask, InWorker, Announced, Sending
<1> HIDE DEF stream
<1>3. \A i \in 1 .. Told : stream[i] = Cell(i)
  <2> SUFFICES ASSUME NEW i \in 1 .. Told
               PROVE  stream[i] = Cell(i)
    OBVIOUS
  <2>1. CASE i <= Len(got)
    BY <1>a, <1>1, <2>1 DEF Faithful, Told
  <2>2. CASE ~(i <= Len(got))
    <3>1. i - Len(got) \in 1 .. Len(out) /\ Len(got) + (i - Len(got)) = i
      BY <1>a, <2>2 DEF Told
    <3>2. out[i - Len(got)] = Cell(i)
      BY <3>1 DEF Faithful
    <3>3. QED
      BY <1>1, <2>2, <3>2 DEF Told
  <2>3. QED
    BY <2>1, <2>2
<1>4. \A i \in 1 .. Told : Ideal(sent)[i] = Cell(i)
  BY <1>a, <1>2 DEF Ideal, Cell
<1>5. \A i \in 1 .. Told : Cell(i) \in Cells
  BY <1>1, <1>3, ElementOfSeq
<1>6. ideal \in Seq(Cells) /\ Len(ideal) = Told /\ \A i \in 1 .. Told : ideal[i] = Cell(i)
  <2>1. \A i \in 1 .. Told : Ideal(sent)[i] \in Cells
    BY <1>4, <1>5
  <2>2. /\ ideal \in Seq(Cells) /\ Len(ideal) = IF 1 <= Told THEN Told - 1 + 1 ELSE 0
        /\ \A i \in 1 .. Told - 1 + 1 : ideal[i] = Ideal(sent)[1 + i - 1]
    BY <1>a, <2>1, SubSeqProperties
  <2>3. QED
    BY <1>a, <1>4, <2>2
<1> HIDE DEF ideal
<1>7. stream = ideal
  BY <1>1, <1>3, <1>6, SeqEqual
<1>8. QED
  BY <1>1, <1>2, <1>7 DEF stream, ideal

\* On Linux, a client that waits for each answer, and each of whose requests one read
\* returns whole, gets its requests echoed in order, complete and each once, for any
\* number of requests and workers and any size of the send buffer: the write buffer
\* shared without a lock is never written by a worker while handle_write sends from
\* it.  Nothing is said of a request that takes two reads (client "splits").
THEOREM EchoedInOrderTheorem == Spec => []EchoedInOrder
<1>1. PathInv => EchoedInOrder
  BY FaithfulStream DEF PathInv
<1>2. QED
  BY <1>1, PathAlways, PTL
=============================================================================
