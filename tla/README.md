# deep-in-io: a TLA+ verification project

This directory specifies and verifies the servers of the repository: the **advanced
reactor server** (`src/advanced-reactor-server`), the **simple reactor server**
(`src/linux/reactor-server`) and the three single-file **sample servers**
(`src/linux/epoll`, `src/osx/kqueue`). Modules are translated from the C source; TLC checks
them on small instances and TLAPS proves the central ones for every value of the
constants. `PROJECT.json` maps each definition to the lines it stands for.

## 1. Inventory

### The advanced reactor server

A main thread accepts connections and deals them out to IO threads. Each IO thread
runs an edge-triggered event loop over its connections and over two pipes. Requests
become tasks in one bounded queue, workers take them, write the answer into the
connection's buffer and post a message to the IO thread, which then sends it.

| component | state | operations | talks to |
|---|---|---|---|
| connection objects (`connection.c`) | `ref_count`, `closing`, `fd`, buffers, a mutex | create, acquire, release, is_valid, mark_closing | held by IO thread, tasks, messages |
| IO thread (`io_thread.c`) | event loop, `pipe_fd` (new connections), `msg_pipe_fd` and a list (messages), `shutdown` | run, handle_read, handle_write, add_connection, send_message, create, destroy | main thread through `pipe_fd`, workers through the list, pool through `thread_pool_submit` |
| task queue (`task_queue.c`) | list, `size`, `max_size`, `shutdown`, one mutex, two condition variables | push (blocks when full), pop (blocks when empty), shutdown, destroy | IO threads produce, workers consume |
| worker pool (`thread_pool.c`) | `shutdown`, the threads | create, submit, worker loop, process_request, shutdown, destroy | queue, `io_thread_send_message` |
| server (`server.c`, `main.c`) | listening socket, main event loop, all of the above, a `running` flag set by signals | create, start, accept_connections, destroy | everything |
| event loop (`event_loop*.c`) | the kernel's interest set | create, add, mod, del, wait; epoll and kqueue backends | IO threads, server |

What makes each part correct, and where it is hard:

- *Message path*: no message is left in the list with the IO thread asleep. Hard,
  because one byte is read per event, bytes pile up, and the notifying write is not
  checked: its failure on a full pipe must be covered by an earlier event.
- *Task queue*: FIFO within its bound; one `pthread_cond_signal` per push or pop must
  not strand a sleeper; shutdown must free sleeping workers and blocked producers; no
  task is lost, destroyed twice, or leaked by a refused submission that `handle_read`
  ignores.
- *Connections*: the count is exact under every interleaving of closing, queued tasks
  and messages; no holder's pointer dangles; a closed connection is freed; a
  descriptor number that the kernel hands out again is never closed, deleted or
  modified on behalf of its former owner.
- *Hand-over*: a connection accepted is registered with its IO thread, or closed.
- *Accept loop*: the listening socket is edge-triggered, so every pass must go on until
  `EAGAIN`; clients that came before the registration, a failing accept and the signal
  at any moment are the hard cases.
- *Response path*: the write buffer is shared by IO thread and workers without a lock;
  a connection is registered for reading or for writing, never (on epoll) for both, so
  every switch must find out again what it missed; sends may be cut short anywhere. On
  kqueue filters accumulate instead.
- *HTTP echo*: what `snprintf` returns is not what it stores, so lengths announced,
  tested and sent can differ.
- *Start and stop*: whatever step fails, everything acquired before is given back; the
  shutdown ends although IO threads may wait on a full queue; nothing is freed under a
  running thread.

### The simple reactor server

A main thread accepts and adds connections *directly* to an IO thread's epoll set, in
round robin. IO threads read, and drop requests into a global array of slots; workers
poll the array, build an echo and print it (nothing ever calls
`io_thread_handle_response`, so no answer is sent). Hard here: the main thread
changes the epoll set while the IO thread closes descriptors of the same set, and
events carry bare descriptor numbers.

### The sample servers

One thread with epoll; a main thread that hands descriptors through pipes to workers
with an epoll each; one thread with kqueue. All read once per event and close on every
read without data. Hard: edge-triggered events with a single read; `EAGAIN` taken for
the end; descriptor numbers closed and deleted by workers while the main thread is
given them again; accept without a free descriptor.

### Left aside

The epoll wrapper that nothing includes, the simple reactor's response map that nothing
fills, the load-generating test client, build and profiling scripts, logging and
printing. `PROJECT.json` lists each with its reason.

## 2. Modules

| module | models | extends / refines |
|---|---|---|
| `Mailbox` | what the message path promises | abstract |
| `MessageChannel` | `io_thread_send_message` and the message branch of `io_thread_run` | implements `Mailbox` |
| `MessageChannelProofs` | theorems about it | extends `MessageChannel` |
| `BoundedFifo` | what the task queue promises | abstract |
| `WorkerPool` | `task_queue.c`, the loop and the stopping of `thread_pool.c` | implements `BoundedFifo` |
| `WorkerPoolProofs` | theorems about it | extends `WorkerPool` |
| `ConnectionLifecycle` | `connection.c`, `accept_connections`, `io_thread_add_connection`, `io_thread_run` with its handlers, `worker_thread` with `process_request` | composes main thread, one IO thread and workers |
| `ConnectionLifecycleProofs` | theorems about it | extends `ConnectionLifecycle` |
| `ServerLifecycle` | `server_create`, `server_start` with `accept_connections`, `server_destroy` and the create and destroy functions they call | composes main thread, IO threads, workers |
| `ServerLifecycleProofs` | theorems about it | extends `ServerLifecycle` |
| `EventLoop` | `event_loop.c` and its two backends for one descriptor: operators | used by `ResponsePath` |
| `ResponsePath` | `handle_read`, `handle_write`, `process_request` and the write buffer of one connection | composes client, socket, IO thread, workers; extends `EventLoop` |
| `ResponsePathProofs` | theorems about it, lemmas about the operators of `EventLoop` | extends `ResponsePath` |
| `HttpEcho` | the lengths of `process_request`, with their theorems | stand-alone |
| `SimpleReactor` | the simple reactor server | stand-alone |
| `SimpleReactorProofs` | theorems about it | extends `SimpleReactor` |
| `SampleServers` | the three sample servers, chosen by the variable `server` | stand-alone |
| `SampleServersProofs` | theorems about them | extends `SampleServers` |

Some modules hold several programs or scenarios in one: a variable that never changes
(`early`, `backend`, `client`, `server`) is chosen in the initial state.

Operators placed just above an action and named after it with a suffix
(`PushAppendWithoutSignal`, `StopPoolFirst`, ...) are deliberately wrong versions of
it. Each property has one that it must catch; no specification uses them.

### Granularity

- A section under a mutex is one step: only the data it guards is touched inside it,
  and only inside it. In `WorkerPool` one pass from the loop test of `push` or `pop` to
  the next release of the mutex is one step; `pthread_cond_wait` splits it.
  `pool->shutdown`, which is read and written without the lock, has steps of its own.
- In `MessageChannel` appending under the mutex and writing the byte after it are two
  steps, as are reading the byte and taking each message.
- In `ConnectionLifecycle` the three calls that close a connection (`conn_mark_closing`,
  `event_loop_del`, `conn_release`) are three steps, so that an accept may hand the
  descriptor out again between any two of them. A worker's `conn_is_valid` and the IO
  thread's test after a handler are steps apart from what is done with the answer; in
  `MessageTake` and `ConnectionEvent` the IO thread's test and what follows it are one
  step, since only that thread closes connections. `conn_release` with its free is one
  step: once the count is zero nobody else has the pointer.
- The two queues are counts per connection in `ConnectionLifecycle`, their order and
  wake-ups being the business of the other two modules; in `ServerLifecycle` a task or
  message is just the IO thread it belongs to.
- `TASK_TYPE_CLOSE` has no action: `worker_thread` has a branch for it, but nothing in
  the program creates such a task.
- In `ResponsePath` a worker's stores to `write_buf`, `write_size` and `write_pos` are
  three steps in any order, since nothing orders them for the IO thread; the IO thread
  loads position and size once per turn of its loop and sends from the buffer as it is
  then. `write_pos += n` (line 70), and the last test of `handle_write` with the two
  resets after it (lines 94-96), are one step each, although a worker may store in
  between. Finer steps would let the resets or the stale position wipe out one more
  response; that is the loss `response_pipelined` shows, and no property for such clients
  excludes it: `NoStrandedResponse` asks for an event only while unsent bytes are left.
- The server does not know where a request ends: a task is what one `read` returned, up
  to `BUFFER_SIZE` bytes. In `ResponsePath` a number is a *piece* of input that no read
  divides; a read returns one or more, and they share a response (0, its header, and the
  pieces). `client` says who sends: one that waits for each answer and whose requests are
  one piece each (`"waits"`), one that waits but whose requests are two pieces, longer
  than a read returns or arriving in two segments (`"splits"`), one that does not wait
  (`"pipes"`). `NoForgottenInput`, `NoStrandedResponse` and the first half of
  `RequestServed` hold for all three, `EchoedInOrder` for `"waits"`. The queues of tasks and
  messages are reliable there, being the business of `WorkerPool` and `MessageChannel`.
  Closing and write errors are in `ConnectionLifecycle`.
- In `ServerLifecycle` an IO thread tests its flag, then handles a batch (`"handle"`), and
  does not test it again before the batch is done; within the batch `handle_read` may
  read as long as clients send. `clients` counts its connections, descriptor and
  `connection_t`, from accept until they are closed, those still in `pipe_fd` included.
- `Destroy` of `WorkerPool` frees the queue when the workers have been joined. In the
  scenario `early` it also waits for the producers to be gone: `thread_pool_destroy` does
  not look after that, whoever calls it must, as `server_destroy` does.
- `ServerLifecycle` counts the backlog. An `accept` that fails leaves the client there
  (no descriptor) or takes it away (aborted); a client that cannot be handed over is
  closed, its turn in the round robin used up.
- `SampleServers` keys interest lists by connection, as the kernel does, and everything
  the program holds by number. A hang-up is seen behind the data that preceded it; a
  reset that discards data is not distinguished.
- Interchangeable connections, tasks and clients are used in the order of their
  numbers, and `accept` returns the lowest free descriptor; this stands in for symmetry.
- `SimpleReactor` keeps the round-robin counter modulo the number of IO threads; the
  code's signed counter grows for ever.
- The IO thread's batch in `ConnectionLifecycle` may contain any event for any
  registered connection, and its events may be handled in any order: peers do what
  they like.

### Kernel and library, from how the code uses them

- *epoll, edge-triggered*: a successful write to a watched pipe raises its event also
  when bytes were there before. This is what Linux does, but for kernels 5.5 to 5.13,
  where a pipe raised an edge only when it had been empty. `NoLostWakeup` depends on
  it: `WriteByteEdgeOnlyFromEmpty` is exactly that other behaviour and breaks `Delivers`.
- *epoll and kqueue on sockets*: changing the interest looks at the descriptor again and
  reports what is there. An event is reported only if the descriptor is ready when
  events are collected. Linux reports room in a send buffer only after it was full,
  kqueue whenever some is freed.
- *close* removes the descriptor's registration; its number is free at once.
- *Condition variables* may wake spuriously (`SpuriousWakeup`); a signal wakes any one
  waiter, a broadcast all.
- *Freed memory*: `conn_is_valid` on a freed block returns what `FreedReads` allows.
  The passing runs use `{FALSE}`: the block still holds `closing = 1`, the usual case
  directly after `free`. That such a call happens at all is the finding of
  `lifecycle_use_after_free`; what it returns after the block was reused is outside
  what any model of the program can promise. A block is allocated once per run
  (`Conns`), so an address is not reused.

## 3. Runs

| run | instance | shows |
|---|---|---|
| `message_channel` | 3 workers, 2 connections, 2-byte pipe, 4 messages | no lost wake-up, every event has a byte to read, messages taken in order, each once, under fairness |
| `pool` | 2 producers, 2 workers, 4 tasks, `max_size` 2, pool stopped as in `server_destroy` or at any time | no stranded sleeper, no task lost or handled twice, none leaked in the server's order, refinement of `BoundedFifo`, shutdown ends, each queued task is processed |
| `lifecycle` | 2 connections, 2 descriptors, 2 workers, 2 requests, failing allocations | exact counts, no dangling pointer in any holder's hands, one owner per descriptor, no orphan; a closed connection is eventually freed, unless `task_create` lost a reference |
| `lifecycle_use_after_free` | 1 connection | **violated**: see findings |
| `lifecycle_handover` | 2 connections, room for 2 in the pipe | **violated**: see findings |
| `server` | 2 IO threads, 2 workers, `queue_size` 1, 2 clients, every step may fail | backlog noticed and served, threads joined, pool outlives its users; at the end (`LeftAtEnd`) what the server made for itself is released but for the message pipes, and after a failed start no connection or message is left; teardown ends if clients pause |
| `server_late_worker` | the same without failures | **violated**: see findings |
| `simple_reactor` | 2 IO threads, 2 descriptors, 3 connections, 2 slots | no thread reaches another's descriptor; once clients leave off, every slot of the queue is emptied |
| `simple_reactor_forgotten` | the same | **violated**: see findings |
| `response` | both backends, three clients (waiting, waiting with requests that take two reads, not waiting), 2 workers, 2 pieces, a send buffer of one cell | no input missed, no response stranded; on epoll a waiting client whose requests one read returns whole gets each answer complete and in order |
| `response_pipelined` | epoll, a client that does not wait | **violated**: see findings |
| `samples` | the three servers, 3 clients, 2 descriptors, 2 workers, 3 bytes, a buffer of 2 | one owner per descriptor, no live client closed, everything noticed but what a single read left |

### Why the bounds are enough

- *Queue bound 2 with 2 producers, 2 workers and 4 tasks*: a full queue with both
  producers blocked, an empty one with both workers asleep, and a thread that
  takes a place or a task without ever having waited, are all reached. Signals that go
  to the wrong thread need no more. The theorems of section 5 remove the bound.
- *Pipe of 2 bytes, 3 workers*: a full pipe with a further worker about to write.
- *Two connections and two descriptors*: enough for a number to be given to the second
  connection while the first is being closed under it. Two workers and two requests
  allow a task in the queue, one in a worker's hands and a message of the same
  connection at the same time.
- *`InboxCap` 1* makes the hand-over pipe overflow (`AddRefused`) and never hold two
  pointers, which is what `ClosedIsFreed` needs to be about freeing and not about
  the hand-over; *`InboxCap` 2* in `lifecycle_handover` shows the pipe holding two.
- *Two clients in the backlog* are enough for one to arrive during each step of a pass
  over the other: `BacklogNoticed` looks at the last one.
- *Two pieces of input through a send buffer of one cell*: every write is cut short, so a
  response takes several edges, and the second piece can arrive, be read and be
  answered at any point of the first one's way.
- *Three clients for two descriptors, 3 bytes for a buffer of 2*: numbers are reused,
  accept fails for lack of one, reads are short and full.
- *`MaxReads`, `MaxPending`, `MaxMessages`, `MaxArrivals`, `MaxConns`, `MaxRequests`, `MaxSent`* are bounds of the model only;
  the code has no such limit.

`CHECK_DEADLOCK FALSE` is used where the server may idle for ever: when all
connections of the instance are closed, nobody has to connect.

### Fairness

Threads that can run do run (weak fairness per thread). Nothing obliges a client to
connect, send or hang up, or anybody to stop the server; in `ResponsePath` the client
takes what was sent to it (a peer that never reads keeps its response in the buffer, as
it should). Clients being finitely many, `BacklogServed` does not speak of an endless
stream of them. No specification has strong fairness. Two properties need more than the
scheduling of the threads, and say so as the left-hand side of an implication:

- `TeardownEnds` assumes that clients pause (`ClientsPause`: an IO thread that goes on
  reading also comes to `EAGAIN` again and again) and that a thread waiting in
  `task_queue_push` does not lose every race for room (`PushersServed`, strong fairness of
  `IoPush`). The code guarantees neither. Without the first TLC shows the teardown that
  never ends: `handle_read` does not look at the flag, a client streams, and
  `pthread_join` waits.
- `QueuedIsServed` assumes that from some moment on no more data is read.

## 4. Findings

1. **Use after free in `io_thread_run`** (`io_thread.c:185`, `193`). A handler that
   meets end of file or an error releases the IO thread's reference; with no task or
   message pending this frees the connection, and `io_thread_run` then calls
   `conn_is_valid` on it.
2. **A connection stays in the hand-over pipe** (`io_thread.c:120`). One pointer is
   read per edge-triggered event. Two connections accepted before the IO thread waits
   raise one event, and the second is not registered until somebody else connects to
   that IO thread; from then on one is always left over.
3. **A response overwrites the one before it** (`thread_pool.c:30`). The second of two
   requests a client sends without waiting may be answered into `write_buf` before the
   first answer was sent: one response is lost, or its bytes are mixed with the other's.
   Pipelined requests are never safe, and neither is one request of a client that waits
   if it takes two reads (more than `BUFFER_SIZE` bytes, or two segments): its two tasks
   race in the same way (`Clients = {"splits"}` in the same configuration). On kqueue a client that waits is not safe either:
   the write filter added by the first response is never removed
   (`event_loop_kqueue.c:100`), so `handle_write` can run between a worker's store of the
   size and its copy and send the previous response again (`Platforms = {"kqueue"}`,
   `Clients = {"waits"}`).
4. **IO threads are freed before the workers stop** (`server.c:221`). A worker still in
   `process_request` posts its message to a freed `io_thread_t`.
5. **Simple reactor: close before `EPOLL_CTL_DEL`** (`io_thread.c:50`). A connection that
   gets the number in between and is registered with the same IO thread loses its
   registration and is never read. The advanced server uses the same order safely,
   because there the IO thread itself does both (`DeleteHitsNobody`).

Met while modelling and without a run of their own: a server stopped while clients are
connected leaves their descriptors and `connection_t` objects, pointers in `pipe_fd`
included, and the messages nobody read, since neither `io_thread_destroy`
(`io_thread.c:296-319`) nor `server_destroy` releases them, against the "Graceful cleanup on
server shutdown" of its README (line 164; the process exits right after, so the kernel
collects them); the message pipes are closed neither by `io_thread_destroy`
(`io_thread.c:310`) nor by two error paths of `io_thread_create` (`LeftAtEnd` says exactly
what may be left); a client that keeps sending can keep `server_destroy` from returning
(`io_thread.c:10`; assumption `ClientsPause` of `TeardownEnds`); after an accept that failed
the backlog waits for the next client (`server.c:72`; `BacklogNoticed` excepts it); the edge-triggered samples never see data
beyond one buffer, nor a hang-up behind data, until the client sends again, so that a
client that writes and closes at once leaves its descriptor open (`Noticed` excepts
exactly that); all samples terminate a full buffer one byte past its end; `task_create` keeps the reference
it took when its second allocation fails (`task_queue.c:131`; the variable `lost` counts
them, and `ClosedIsFreed` excepts them); the read at `io_thread.c:144`, commented as
emptying the pipe, takes one byte (harmless: `NoLostWakeup` holds with it); the simple
reactor's array serves the lowest slot first, so under steady load a task in a higher
one can wait for ever.

## 5. Theorems

Every invariant and every action property that a passing run checks is also proved, for
every value of the constants. The table leaves out the type theorems (`ChannelTypeTheorem`,
`PoolTypeTheorem`, `LifeTypeTheorem`, `ServerTypeTheorem`, `PathTypeTheorem`,
`ReactorTypeTheorem`, `SampleTypeTheorem`), one for each component.

| theorem | property | says, for every value of the constants |
|---|---|---|
| `WakeupTheorem` | `NoLostWakeup` | no message waits without a wake-up on its way |
| `FullPipeTheorem` | `FullPipeIsArmed` | a full pipe has an event pending or a read due |
| `EventsHaveBytesTheorem` | `EventsHaveBytes` | every event, pending or being handled, has a byte of its own |
| `ChannelRefinesMailbox` | | the message path implements the safety part of `Mailbox` |
| `NoLeakTheorem` | `NoTaskLeaked` | stopped in the order of `server_destroy`, no submission is refused |
| `PoolIsFifo` | `QueueIsFifo` | the queue implements `BoundedFifo` |
| `NoSleeperTheorem`, `NoBlockedTheorem` | `NoSleeperWhileWork`, `NoBlockedWhileRoom` | one signal per push, and per pop, is enough |
| `OneHolderTheorem` | `OneHolder` | a task is in one hand or one place of the queue, and handled or destroyed once |
| `NoTaskVanishesTheorem` | `NoTaskVanishes` | no step loses a task |
| `RefsExactTheorem` | `RefsExact` | `ref_count` is the number of parties that will release |
| `NoDanglingTheorem` | `NoDanglingReference` | whoever will use a pointer to a connection finds it alive |
| `FdOwnershipTheorem` | `FdOwnership` | descriptors have one owner and do not leak |
| `NoOrphanTheorem` | `NoOrphan` | a connection not closing is in the pipe or registered |
| `DeleteHitsNobodyTheorem` | `DeleteHitsNobody` | the late `event_loop_del` finds nothing registered |
| `PoolOutlivesIoTheorem` | `PoolOutlivesIo` | IO threads always have a pool to submit to |
| `FreedAfterJoinTheorem` | `FreedAfterJoin` | nothing a thread runs on is freed under it |
| `LeftAtEndTheorem` | `LeftAtEnd` | whatever failed, threads are joined, pool and IO threads freed, of the server's descriptors only message pipes open; after a failed start no connection or message is left |
| `BacklogTheorem` | `BacklogNoticed` | a waiting main thread has an edge for the clients in the backlog |
| `NoForgottenInputTheorem` | `NoForgottenInput` | no switch of interest misses a request, on either backend |
| `NoStrandedTheorem` | `NoStrandedResponse` | no response stays in the write buffer without an event |
| `EchoedInOrderTheorem` | `EchoedInOrder` | on epoll a client that waits, and whose requests one read returns whole, gets its echoes complete and in order |
| `ResponseFits` | | whatever was read, the response fits `write_buf` and passes `process_request`'s test |
| `AnnouncedIsSent` | | `Content-Length` is right exactly up to 1017 bytes of data |
| `OneReaderTheorem` | `OneReader` | no IO thread of the simple reactor reaches another's descriptor |
| `OneOwnerTheorem` | `OneOwner` | an accepted descriptor of a sample server is in exactly one place |
| `ClosedOnlyWhenGoneTheorem` | `ClosedOnlyWhenGone` | no sample server closes a live connection |

Assumptions: those the modules name (`ChannelAssumption`, `PoolAssumption`,
`SampleAssumption`, ...): positive capacities, finite thread sets, non-values outside
their sets. `NoLeakTheorem` also assumes that the pool is not stopped early. The theorems
about `ConnectionLifecycle` carry the hypothesis `FreedReads \subseteq {FALSE}`, used in
one place: after a handler has freed the connection, the test of `io_thread_run` on it (the
finding of `lifecycle_use_after_free`) must read the block as it was left. With `TRUE` there
the thread would go on with a freed connection, and nothing could be said of it.

*Message path.* `NoLostWakeup` alone is not inductive. A worker whose write fails
because the pipe is full stops being the wake-up of its message; that is harmless only
because a full pipe has an event or a read ahead of it (`FullPipeIsArmed`). That in turn
survives the read of one byte only when an event raised while the read was due has a
second byte to stand on (`EventsHaveBytes`). The conjunction of the three with the types
is inductive (`WakeupInv`).

*Worker pool.* `PoolInv` adds to the types what the program counters say: who holds a
task (`Holding`), how the two flags go up with the progress of the stopping thread and
that workers leave only after the first (`Phases`), and that without early shutdown
the flag goes up after the producers have stopped (`Ordered`). The two theorems on
signals compare the length of the queue with the number of threads awake inside `pop`
or `push`. Each step moves at most one thread in or out of that set, or, for a
broadcast, all sleepers at once; three counting lemmas say what that does to its
cardinality, and the step proofs go through the actions one by one. `OneHolder` is
restated pair by pair (`Apart`), which is inductive together with `Holding`; that no task
vanishes is then a case for each action, by following the task from one place to the next.

*Connections.* `LifeInv` has twelve parts beside the types. `RefsExact` needs to know
that a pointer in the hand-over pipe is there once and that nobody has used it
(`InboxDistinct`, `InboxFresh`), what worker and IO thread hold at each point of their
code (`WorkerHolds`, `IoHolds`), and that nobody names a block that is not allocated
(`NoUser`): a count can then reach zero only when the last holder lets go. For the
descriptors the key is that `conn_mark_closing` forgets and closes the number in one step
(`Blocks`), that the epoll set names connections under their own numbers
(`EpollNames`) and batches only connections that are still registered (`BatchNames`);
`MainHolds` keeps the number the main thread has just accepted apart from all others.
`NoDanglingReference` and `DeleteHitsNobody` follow from the parts and are not among them.

*Start and stop.* `ServerInv` says for each place of the main thread which resources
exist: the pool (`PoolPhase`), the IO threads with the loop index that creates, joins and
frees them (`IoPhase`), the descriptors (`FdPhase`). That there is never a gap in the
row of created IO threads is what lets `io_thread_pool_destroy` stop at the first one
missing. `Unserved`, that a server which fails to start has accepted nobody and so has
no connection, task or message, is what `LeftAtEnd` says of it. `BacklogNoticed` becomes inductive when it is stated for the main thread on its
way to the wait as well (`ListenPhase`).

*Response path.* `Sizes` bounds the buffers. `InputDue` and `ResponseDue` are the two
properties at every point of the IO thread's loop and not only where it waits: an event
may be pending, collected, or under way in a handler. They hold for both backends and for
every client. `EchoedInOrder` (for the client `"waits"`) is about what the shared buffer holds when it is sent, so
its invariant, `Echo`, follows the only request there can be through five stages: nothing to do
(`Quiet`), in the queue (`InTask`), in a worker's hands (`InWorker`), announced by a
message (`Announced`), being sent (`Sending`). In each stage it says who may touch the
buffer and how many bytes have left (`Told`); `Faithful` says that these bytes are the
beginning of the ideal stream. The stages exclude one another only because the connection
is registered for writing alone while a response is sent, which is what epoll's
replacing `EPOLL_CTL_MOD` does and kqueue's accumulating filters do not.

*Simple reactor.* `OneReader` is inductive once the accepted descriptor, which is in
nobody's set yet, is known to be out of every IO thread's reach (`AcceptedIsMain`), and the
event being handled to have left the batch (`HandledOnce`).

*Sample servers.* `OneOwner`, a sum of three cardinalities, is split into existence
(`Owned`) and five statements that the places are disjoint and name open connections
(`Named`, `HandApart`, `PipesApart`, `PollersApart`, `LateDelete`). `LateDelete` is the
interesting one: a worker that has closed a number and not yet unregistered it is busy
with just that, so it cannot meanwhile receive the connection that got the number.
`ClosedOnlyWhenGone` rests on `Reports`: an event not yet handled still finds its connection
registered and readable, since only its own poller reads it, once in a batch.
That `accept` returns a free descriptor uses that a set of numbers has a least element.

*HTTP echo.* Arithmetic over the lengths a read can return (0 to 4096): bounds for the
body, the digits and the sum. `ResponseFits` is why `ResponsePath` has no step in which
a worker stores nothing.

*Only model-checked*: the liveness properties, fairness being outside the prover's reach:
`Delivers` as a whole (its safety part is `ChannelRefinesMailbox`), `ShutdownCompletes`,
`TaskProcessed`, `ClosedIsFreed`, `BacklogServed`, `TeardownEnds`, `QueuedIsServed`,
`RequestServed` and `Noticed`.

## 6. Plan

1. Proofs: what the code promises beyond the runs' properties, above all parts of the
   inductive invariants that a reader of the code would want by name.
2. Where a liveness property has a safety core (no reachable state from which it cannot
   be met), state and prove that core.

### Not modelled

`epoll_wrapper.c` (neither built nor included), `conn_map.c` and
`io_thread_handle_response` of the simple reactor (never called, so the map stays empty
and `EPOLLOUT` is never registered), `kqueue_del_impl` and the creation of a kqueue (as
on epoll but for the calls), statistics and logging, the test client and the scripts.
Reuse of freed memory, writes outside arrays and a reset's discarding of data are
outside the models.

## 7. Running

`tlc -config X.cfg M` for each row of `PROJECT.json`'s runs (the longest takes two or
three minutes); `tlapm M.tla` for `HttpEcho` and for each of the seven modules whose names end in
`Proofs` (the longest, `ConnectionLifecycleProofs`, `ResponsePathProofs` and
`SampleServersProofs`, take some minutes each).
