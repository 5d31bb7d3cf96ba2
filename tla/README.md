# Verification of cc_learning

TLA+ models of the concurrent and protocol-like parts of this repository, TLC runs that check
them on small instances, and TLAPS proofs of the properties that matter most for every value of
the constants. Paths are relative to the repository; line numbers are those of the commit the
models were written from.

## 1. The system

The repository is a set of independent libraries, each with a driver of its own. Only the parts
of `reactor_net` call one another.

| Component | State it keeps | Operations | Hard behaviour | What makes it correct |
|---|---|---|---|---|
| Thread pool, `thread_pool/ThreadPool.h` | priority queue `tasks_`, `workers_`, `accepting_`, `stop_`, one mutex, one condition variable | constructor, `submit`, `wait_and_stop`, `stop_immediately`, destructor, `worker_loop` | lost wake-ups, growth and shrinking that race with submits and stops, threads that detach themselves, two stop calls at once, `std::thread` failing half way | every accepted task runs once or is discarded; no task is left with everybody asleep; size between core and limit; the stop that wins leaves nothing behind |
| SPSC queue, `ring_buffer/include/ring_buffer.h` | `buffer_`, three atomic indices | `enqueue_bulk`, `dequeue_bulk` | reservation by CAS, filling outside it, commit in order by spinning, stale loads, `size_t` overflow | a bounded FIFO of batches; no two threads on one slot |
| Locked queue, same file | `buffer_`, two indices, a mutex | the same | batches cut at both ends, index overflow | the same FIFO |
| Event loop, `reactor_net/src/EventLoop.cpp`, `EventLoopThread.cpp` | `pendingFunctors_`, `quit_`, eventfd, `callingPendingFunctors_`, `loop_`, `poller_` | `loop`, `quit`, `runInLoop`, `queueInLoop`, `wakeup`, `startLoop`, destructors | wake-up protocol between threads, quit racing with start, destruction order | no sleep on work, functors in order and once, quit ends the loop |
| Channel and poller, `Channel.cpp`, `EPollPoller.cpp` | `events_`, `index_`, `addedToLoop_`, the map fd to channel | `enable*/disable*`, `update`, `remove`, `poll`, `handleEvent` | registration state kept in three places, removal from inside a callback | the three agree; a removed channel is never dispatched |
| TCP server, `TcpServer.cpp`, `TcpConnection.cpp`, `Acceptor.cpp` | `connections_`, `nextConnId_`, per connection `state_`, input and output buffer | `newConnection`, `removeConnection`, `send`, `shutdown`, `forceClose`, the channel handlers | the life of a connection crosses two loops; calls from any thread; half-closed connections | every connection is established once and destroyed once, in its own loop; output is sent before shutdown |
| Timer queue, `TimerQueue.cpp`, `Timer.cpp` | ordered set of timers, timerfd, `callingExpiredTimers_` | `addTimer`, `cancel`, `handleRead`, `getExpired`, `reset` | cancelling and adding from callbacks and from other threads, raw pointers as identifiers | the timerfd is armed no later than the earliest timer; a timer has one owner and leaves the heap in time |
| Timer list, `timer/timer.cc` | doubly linked list sorted by expiry, a mutex | `add_timer`, `del_timer`, `adjust_timer`, `tick` | callbacks outside the lock, expiry changed before the lock, back pointers read before it | the links are intact; the list is sorted; nobody is left with a pointer to a deleted node |
| Logger, `logger/src/log_file.cpp`, `logger.cpp` | file handle, size, day, a mutex | `Log`, `Write`, rotation | a rotation is several fallible steps with the clock running; archive names can collide; the process dies | a line stays in one file, the files in order; dropping lines ends |
| Memory pool, `pool/pool.c` | free list, `used_count`, the block | `pool_init`, `pool_alloc`, `pool_free` | the links of free blocks lie where the user wrote | a block has one owner; how far `used_count` is from the number of blocks in use |
| Buffer, `Buffer.cpp` | vector, reader and writer index | append, retrieve, `makeSpace`, `readFd` | index arithmetic when compacting and growing; a read into two vectors | contents are preserved |
| HTTP, `HttpRequest.cpp`, `HttpResponse.cpp`, `main.cpp` | none between messages but the input buffer | parse, format, answer and shut down | requests that arrive in pieces or with the end of the input right behind | the first request is answered once, however it is cut |

Interaction in `reactor_net`: the acceptor runs in the base loop and hands each new descriptor to
`TcpServer::newConnection`, which creates a `TcpConnection` on an I/O loop and posts
`connectEstablished` with `runInLoop`. Callbacks of a connection run in its loop; when it closes,
the close callback posts `removeConnectionInLoop` to the base loop, which posts `connectDestroyed`
back. Every one of these posts goes through `EventLoop::queueInLoop`, which is why the loop is
modelled before the server. The timer queue is a member of each loop. The thread pool, the queues,
the timer list, the logger and the memory pool stand alone.

`struct/struct.c`, `Socket.cpp` and `InetAddress.cpp` keep no state of their own. `PROJECT.json`
lists the hazards of each component at the line where they bite, and the property that watches it.

## 2. The modules

### ThreadPool

One action per critical section of `mtx_`, since nothing blocks inside one except on `cv_`, and one
for each step outside: `notify_one` and `notify_all` come after the unlock in the code and are
steps of their own here, so a thread can test its predicate between a push and the notification.

| Code | Actions |
|---|---|
| constructor, 74-80 | `Construct`, one thread at a time, without the mutex |
| `submit_impl`, 238-279 | `SubmitRejected`, `SubmitQueued`, `SubmitGrows`, `SubmitSpawnFails`, then `notify_one` |
| `wait_and_stop`, `stop_immediately` | `WaitAndStop`, `StopImmediately`, `StopReturnsEarly`, then `notify_all`, `SwapWorkers`, `Join`, `StopReturns` |
| destructor | `DestroyRunning`, `DestroyStopped` |
| `worker_loop` | `TakeTask`, `Exit`, `Wait`, `Shrink`, `StayCore`, `FinishTask`, `Timeout`, `SpuriousWake` |

`pc`, `cpc` and `toJoin` are the local state of the threads; `future` is what the caller's
`std::future` shows; `shutdown`, `early` and `threw` are ghosts that no guard reads. A slot of
`Workers` stands for a thread the system can give: when none is free `std::thread` throws, after the
push. The constructor is assumed to get its core threads (`WorkersAssumption`); a failure there
leaves joinable threads in a vector being destroyed, the end of the process. Tasks of equal
priority come out in any order. The destructor runs when no other call is in progress, the
language's own rule.

### SPSCQueue and BoundedFIFO

`SPSCQueue` takes one atomic access or one slot access per step, for any number of producers (the
code reserves by CAS, so the model shows what that buys) and one consumer. Indices run modulo `M`,
the model's 2^64; `ReserveFails` is the strong CAS that lost. The value loaded and the value used
are two steps apart, so a loaded value may be overtaken before it is used. Memory is sequentially
consistent. With one producer, for which the class is meant, that is no restriction: the acquire and
release pairs on the indices order the slots. With several it is one: the relaxed load of `write_idx_`
may see another producer's reservation before the load of `read_idx_` sees what made room for it
(ring_buffer.h:51-55), and what the code computes from such a pair is not covered.
An `M` so small that a thread could sleep through a whole turn of the index is kept out by a guard (`NoWrapDuringCall`): in the code it takes 2^64 operations within one
call.

`BoundedFIFO` is the abstract queue. A producer hands over a batch (`Hand`), as much of it as there is
room for then goes in, in one piece (`Put`), and the consumer takes a batch from the front (`Take`).
`Put` puts in the items that were handed over and no others, so a refinement can neither lose, repeat
nor reorder them. `SPSCQueue` implements it (`ImplementsFIFO`) with the slots between `read_idx_` and
`commit_idx_` as the queue and the batch a producer has got slots for as the one handed over: it is
handed over at the CAS and goes in at the commit.

### LockedQueue

`MPMCLockedQueue`. A call of `enqueue_bulk` brings its items (`CallEnqueue`) and waits for the mutex,
as any number of others may. From there each operation holds the mutex to its end and is one step, so
what remains is the index arithmetic: free-running indices modulo `Width` (2^64), slots modulo the capacity, batches
cut to the room or to the content. It is a second implementation of `BoundedFIFO`
(`LockedImplementsFIFO`), under the mapping `Stored`, the slots from `read_idx_` on: what goes in is the
front of what the call brought.

### EventLoop

The loop thread, the owner of the `EventLoopThread` and client threads interleave at each
`mutex_` section, access to `quit_` and access to the eventfd. `tpc` walks through `threadFunc`,
`loop()` and `~EventLoop`: `created`, `published` (the pointer is out, `loop()` not entered),
`while` to `call` (the body of the loop), `returned`, `cleared`, `members` (the body of the
destructor has run). `OnLoopThread` is what a callback or a functor may do: queue, quit or neither;
the loop writes the eventfd for itself only while `callingPendingFunctors_` is set, as in the code.
The I/O behind other channels is external: one may be ready at any time. A functor is queued at
most once, which is the bound on the behaviours; there are as many queues as functors. Clients use
the pointer only while the loop exists.

`runInLoop` on the loop thread calls the functor at once and is no step of the queue; elsewhere it
is `queueInLoop`.

### Connection and TcpServer

`Connection` holds what one thread does to one connection: a record for `TcpConnection`, its
`Channel`, the entry of `EPollPoller` and the kernel's side of the socket, and an operator per
method, composed as the code composes the calls. `handleEvent(r, revents, react, n)` is thus
`Channel::handleEventWithGuard` with the four callbacks in its order: `react` is what the message
callback does with the connection (nothing, `send`, `shutdown`, both, or `forceClose`), and `n` how
much the socket takes. An assert that fails sets `failed`.

| Fields | Code |
|---|---|
| `state`, `output` | `state_`, the readable bytes of `outputBuffer_` |
| `events`, `index`, `added` | the channel's `events_`, `index_`, `addedToLoop_` |
| `polled`, `interest` | the descriptor in epoll, and the events epoll holds for it |
| `peer`, `inbox`, `error`, `shut` | the other end (open, half-closed, reset), data to read, `SO_ERROR`, the write side shut down |
| `log`, `failed` | what the user's callbacks saw; an assert failed |

`TcpServer` composes the connections with the loops. A loop is what `EventLoop` is shown to promise:
`Poll`, the ready channels in any order (`Handle`, `Accept`, `Refuse`), `SwapPending`, the functors
in their order (`CallEstablished`, `CallDestroyed`, `CallForceClose`, `CallRemove`), `EndBatch`.
Loop 0 is the base loop, which accepts, removes and runs the connections itself when
`setThreadNum(0)` is in force. A channel event is one action, since only the loop's thread touches
the connection; `runInLoop` on another loop appends to its queue. What `removeConnection` does
depends on the loop it is called in, as in the code.

`shared_ptr` counts are computed, not kept: a connection is `Referenced` by the map, by a functor
queued or still in the batch being called, or by a thread of the user, and `Dead` otherwise. Its
destructor's asserts, and those of `Channel`, must then hold (`Destructible`; `AssertFails` says that
one did not). `Aborted` says that an assert failed or that a loop was destroyed, and nothing happens
after it. The names in the map are the pair of the client's
address and the connection number, for two names are equal exactly if these are.

External: `Ready` is level-triggered epoll (a reset reports IN, ERR and HUP, a half-close IN, and HUP
as well once the write side is shut down here). A write to a reset connection fails without a
signal, which `EventLoop.cpp:30-34` ignores. A peer that has not reset goes on reading. A client
sends one message, and messages are not empty (an empty `send` keeps the loop busy, which is noted
as a hazard). An address is used by one connection at a time and again after that one was reset
or closed.

Destruction follows the code's order. The base loop leaves `loop()` between two rounds (`Left`), with
whatever was queued since the last one. `~TcpServer` takes one connection after the other off the map
and tears it down, at once or on its loop (`DestroyServer`), while the other loops go on. Then the member
`threadPool_` is destroyed (`DestroyLoop`): `~EventLoopThread` makes a loop quit, joins it, and the loop
is destroyed with the functors queued since its last swap, and with them the references they hold;
`pendingFunctors_` is declared after `timerQueue_` (EventLoop.h:75, 84), so it goes first. There the
behaviour ends, for `~TimerQueue` comes next and gets no further (`event_loop_destroyed`). A server
without loops of its own leaves its base loop, which is destroyed after it.

The bodies of `connectionCallback` and `writeCompleteCallback` are the user's and do nothing here; the
user's reactions are those of the message callback listed under `react` above, and, in `ThreadedSpec`,
the calls of its threads.

`ThreadedSpec` adds threads of the user that call `send`, `shutdown` and `forceClose`: the test of
`state_` is a step, the assignment and the post another, because nothing guards `state_`.

### Buffer and DemoServer

`Buffer` is the vector and its two indices, an operator per method. Bytes outside the readable ones
are blanked, since nothing reads them: the content of `buffer_` there is not part of any state.

`DemoServer` composes `Connection` and `Buffer` with the two programs of `main.cpp` and one client
that sends bytes, closes or resets at any time. It starts with the connection established; the
growing log of callbacks, which `TcpServer` is about, is left out of it. `Handle` is one round of `Channel::handleEvent`: the
read takes what is in the socket up to the capacity of `readFd`'s two vectors, the message callback
gets the input buffer, its answer goes to the output buffer, and the write takes any number of bytes.
`app` is the program. The echo server returns the input buffer; `onMessage` parses it as
`HttpRequest` does (a request line that starts with a method, headers up to an empty line), answers
through a `Buffer` of the response, retrieves the request and shuts down. A byte is one of four: text
that makes a good request line, other text, CR and LF. The parts of an answer are one symbol each.

| Code | Definitions |
|---|---|
| `Buffer.cpp`, `Buffer.h` | `append`, `makeSpace`, `retrieve`, `retrieveAll`, `readFd`, `writeFd` |
| `main.cpp` 60-99, `EchoServer`, `HttpServer` | `Echo`, `onMessage` |
| `HttpRequest.cpp` | `LineEnds`, `HeaderEnds`, `parseRequestLine`, `parseRequest` |
| `HttpResponse::appendToBuffer` | `appendToBuffer`, `Response` |

### TimerQueue

The loop thread and the threads that add and cancel. Time is relative, in ticks of the 100
microseconds `resetTimerfd` never goes below: `due[t]` is how far a timer is away, `TimePasses`
brings all of them and the timerfd nearer, also while the callbacks of a batch run (`age`), so the
`now` that `handleRead` took at its start is stale when `Reset` restarts the repeating timers with it.
`HandleRead` takes what has expired, `RunExpired` calls one callback, `Reset` is `reset`. A callback,
a handler of another channel or a functor may add a timer or cancel any pointer (`Use`). A name in
`Timers` is an address: `new` takes a free one, and what another thread holds may be stale and name a
new timer (`CancelElsewhere` passes any). A cancel deletes only what is in the active set, which is why
none of this is an access to freed memory (`OneOwner`). It is also why a repeating timer that is
cancelled by its own callback goes on: it is in neither set then, and `reset` inserts it again
(TimerQueue.cpp:86, 147-155). No comment promises otherwise; `OneOwner` describes it.

### TimerList

`TimerListMgr` with the links themselves. Its operations hold the mutex and are a step each; around
them the model has the steps its users do without it: they read `client_data::timer`, write `expire`
and only then call `adjust_timer`, and `tick` runs the callbacks of the nodes it took out after
unlocking. Using a deleted node ends the behaviour, so that the exceptions can be told:
`raced` records that `tick` or a callback got hold of a node a client had read, and `mixed` that a
node was placed while the changed `expire` of another was still to be adjusted. The order of the
list (`Order`) is not kept but found: the one sequence of different nodes that the links agree with. Without the first
nothing dangles (`NoDangling`), without the second the list is sorted (`InOrder`), and in either case
the links are intact (`ListIntact`).

### LogFile

`Logger::Log` over `LogFile`, with the clock, the directory and crashes. `Log` holds one mutex for the
whole call, so what can come between its steps is a second passing, or midnight: the code reads the
clock up to four times, for the test, for the old name, for the time in the archive's name and for the
new name. A rename may fail (its result is ignored) and the open may throw, leaving no file until the
day changes. A crash keeps what was written, since every line is flushed. Ghosts: `written` is what
reached a file, `replaced` what a rename overwrote because an archive of that second existed, and
`midnight` an archive that got the day before and the time after midnight.

### MemoryPool

`pool.c` with the free list threaded through the blocks. The user may write anything into a block it
holds (`Scribble`) and frees each once, as C requires. `used_count` counts up for a block from the
arena, not for one from the free list, and down for both: it is the number of blocks held less the
reuses so far, modulo the width of `size_t`. `BlocksConserved` states this equation, so it is exact until
the first reuse, too low from then on, and beyond zero when there were more reuses than blocks are held.

### MCThreadPool, MCTcpServer, MCUtilities

`MCUtilities` puts the five parts that share nothing with the others, `TimerQueue`, `TimerList`,
`LogFile`, `LockedQueue` and `MemoryPool`, side by side: `running` chooses one of them at the start
and the rest stand still. It is one model only for convenience; each part has a specification of its own.

The other two give TLC the values that a configuration cannot write: `Priority`, and the assignments of addresses to
connections (the first connection always has address 1, since addresses are alike).

## 3. The runs

| Run | Instance | What it shows |
|---|---|---|
| `pool_fixed` | 2 core threads of 3 slots, 2 clients, 3 tasks, no timeouts | no stranded task, complete shutdown, every task settles, every stop call returns. A fixed pool has nothing but notifications to wake a thread, so this is where a lost one would show |
| `pool_elastic` | core 1, limit 3, 2 slots, 2 clients, 3 tasks | accounting of futures, size bounds, growth with the backlog, no thread left at destruction, shrinking when idle. The system refuses the third thread, so growth fails below the limit |
| `pool_stop_race` (violation) | as `pool_fixed` | `stop_immediately` during another client's `wait_and_stop` returns at once and empties nothing, against ThreadPool.h:165 |
| `spsc_queue` | 2 producers, capacity 2, `M` 6, batches up to 2 | refinement of the FIFO, no race on a slot, index order across overflow, and that every reserved batch is consumed; what a commit puts in is what its producer brought |
| `event_loop` | 2 clients, 3 functors | no sleep on work, queue order, every functor called, quit ends an entered loop, `startLoop` returns |
| `event_loop_lost_quit` (violation) | the same, fair | `loop()` resets `quit_`: a quit after `startLoop` returned and before `loop()` began is lost, and the join in `~EventLoopThread` hangs |
| `event_loop_destroyed` (violation) | the same | `~EventLoop` deletes the poller in its body; `~TimerQueue`, a member, then takes its channel off a null poller |
| `tcp_server` | 2 connections, 1 or 2 addresses, no or one I/O loop | registration agrees between channel, poller and epoll; callbacks up, messages, down, each end once; output before shutdown; no event or functor on a destroyed connection; a closed peer's connection is destroyed; a shutdown reaches the socket; no assert fails but in the three cases below, the destruction of the server and of its loops at any time included |
| `tcp_reset_leak` (violation) | 1 connection | reset by the peer with output pending, a connection is never closed |
| `tcp_send_race` (violation) | 1 connection, 1 user thread, 1 I/O loop | the lambda that `send` posts from another thread outlives the connection |
| `utilities` | 2 timers with delays up to 2 ticks; 3 clients and nodes; 2 days of 3 seconds and 5 lines; 2 producers, 2 slots, `Width` 6; 3 blocks | the properties of the five modules of `MCUtilities`: the timerfd armed in time, one owner of a timer, each timer leaves the heap; links, order and pointers of the timer list; lines kept, in order, and dropped for one day at most; blocks conserved; the locked queue a bounded FIFO |
| `demo_server` | 6 bytes, a buffer of 2 with 1 to prepend and 2 in the second vector | no byte lost, repeated or reordered through socket and buffers; the answer depends on what was sent and not on how it was cut; it arrives, also when the client closes its side at once |

Bounds. Three tasks over two priorities on two threads give a queue longer than the threads, a
thread that finds the queue emptied by another, and a task left to a thread that was busy; two
clients give every pair of concurrent calls, and the protocol treats callers alike. One client more
or one task more adds repetitions of the same steps. Two producers, capacity 2 and batches of up to
2 give partial batches, a full and an empty queue, a failed CAS and an overtaking producer; `M` = 6
makes each index overflow. Three functors let one be running, one be in the batch and one be
queued during it. Two connections are enough for one
to take the other's name or its place in a round while the first is being closed, and one I/O loop
gives the two-loop protocol of removal; a third connection would repeat one of the two, and further
I/O loops do not interact with one another. A message of two bytes gives a partial write. TLC
explores these instances completely.

Delays of up to two ticks, a thread up to one tick late (`MaxLag`) and two functors in the queue let a
timer be earlier than, equal to and later than the other, expire while the callbacks run, and be
cancelled while its insertion waits; two addresses give a stale pointer. Three nodes of the timer list
have a first, a middle and a last, and three clients an add, an adjust and a delete at once, with
`tick` a fourth. Two days with three seconds have two rotations in a second and one across midnight;
two lines fill a file and five make three files. The buffer of two bytes grows and compacts within
the six bytes, and the shortest good request, text and two line ends, is five: one more byte comes
behind a complete request. `CountWidth` 5 wraps with three blocks.

Deadlock is checked in the pool, queue and event loop runs (a destroyed pool stutters). It is not in
`tcp_server`, where a server without clients rightly waits for ever and a failed assert or a destroyed loop ends
the process, in `demo_server`, for the same reason, and in `utilities`, where the log ends with
`MaxLines` and a use of a deleted node ends the behaviour.

Type invariants: `TypeOK` of the thread pool is checked in `pool_elastic`. The type invariant of
every module is proved, on its own (`TypeCorrect`, `TimersTypeCorrect`, `ListTypeCorrect`) or, for
`LogFile`, `MemoryPool` and `LockedQueue`, as the first part of the inductive invariant.

Exceptions in the properties of `tcp_server`. `AssertsHold` leaves out three cases that the code leaves
open, and only these, each told for the connection whose assert fails. `connectDestroyed` does nothing
to a connection in `kDisconnecting` (TcpConnection.cpp:51), so a server destroyed while one is closing
reaches the assert of `Channel::remove`. A `connectDestroyed` queued on a loop after its last swap is
dropped when the loop is made to quit and destroyed (`Dropped`; EventLoop.cpp:80, EventLoopThread.cpp:8-16):
the functor held the last reference, and the connection dies as it is, open or not. And without I/O loops `nextConnId_` never grows (TcpServer.cpp:73-75), so a
client that resets its connection and comes back from the same port before the reset is handled
replaces the map's entry, and the first connection is destroyed while open.
`AssertsHold` also says that this third case takes exactly that. The liveness properties end
with a reset, where the finding `tcp_reset_leak` begins, and with the server's destruction.

Fairness. A thread that can run does (weak fairness of its steps), a task terminates, and a
call begun goes on. `Timeout` is strongly fair because `wait_for` turns its second into an absolute
deadline once: a spurious wake-up that finds nothing to do waits again for the same deadline
and cannot put it off. No client is
assumed to call anything. In `SPSCQueue` the consumer polls and a producer that has reserved slots
goes on (it is preempted, not stopped): without the latter every later producer spins for ever,
which is a real limit of the algorithm, lock-free only for reservations. In `EventLoop` only what
is ready is counted on: neither I/O nor the ten second timeout of the poll wakes the loop, so the
eventfd protocol must do so by itself. In `TcpServer` each loop is weakly fair, and no client and no user
is assumed to do anything. In `TimerQueue` the loop runs and time passes; a time step waits for a
thread more than `MaxLag` behind, which is the assumption that callbacks return. In `DemoServer` the
loop runs, and the client reads what it is sent (a write takes at least a byte); it need not send,
close or stay. The other parts of `MCUtilities` have no fairness and no liveness property.

What the bounds hide: with finitely many tasks a low-priority task is not starved; with an endless
supply of better ones the code starves it, as a priority queue does.

## 4. The proofs

Every invariant and both refinements that the runs check are proved, for every value of the
constants that the modules' assumptions allow. Eight modules hold the proofs:

| Module | About |
|---|---|
| `ArithmeticLemmas` | remainders, and least elements of sets of numbers |
| `ThreadPoolProofs`, `EventLoopProofs` | the module of that name |
| `ConnectionProofs` | what each method of `Connection` does to a record |
| `TcpServerProofs` | `TcpServer`, from the lemmas of `ConnectionProofs` |
| `SPSCQueueProofs` | the lock-free queue and its refinement of `BoundedFIFO` |
| `DemoServerProofs` | `Buffer`, the parser and `DemoServer` |
| `UtilitiesProofs` | `LogFile`, `MemoryPool`, `LockedQueue`, `TimerQueue`, `TimerList` |

The assumptions: threads, workers, tasks, timers and nodes are finite sets; sizes, delays and bounds
are natural numbers, those the code never allows to be zero at least 1; the null values are none
of the things they stand for; there is a value to put in a queue. The indices of both queues wrap at a
multiple of the capacity (a power of two in the code, and 2^64), those of the lock-free one at no
less than three times the capacity. `CountWidth` exceeds the number of blocks. Nothing is assumed
about the order of steps: each theorem is about all behaviours of the specification its run uses.

**Thread pool.** `TaskNeverStranded`, `PoolSizeBounded` and `PoolFollowsBacklog` come from `OpenInv`.
None of the three is inductive: a task may be stranded unless there is a live thread at all, which
needs the open pool to have its core threads, which needs every member of `workers_` to be live while
the pool is open; and a thread above the core size may leave only when the queue is empty. `OpenInv` is
these facts together. `NoTaskLostOrRunTwice` comes from `TaskInv`: a queued task is pending and held
by no thread, a thread holds a task exactly while it runs it, no two hold the same, and a pending task
is queued or held. `StopIsComplete` and `PoolOutlivesThreads` come from `ShutInv`: at most one stop
call is past the test, every thread that exists is in `workers_` or in that call's list, and
`workers_` stays empty once swapped.

Two theorems are about steps. `TasksTakeTheirCourse`: a promise is set once, its task is then nowhere for
good, and a task that has begun runs to its end on the thread that took it (a discard finds no task
that a thread holds). `StopIsForGood`: after `stop_` is set no task enters the queue and no thread is
started, also by a call that found the pool open.

**Event loop.** `NeverSleepsOnWork` and `FunctorsInOrder`, from `LoopInv`: the queues are quiet before
the loop is created, work queued with the loop on its way to `poll` has been announced by a write to
the eventfd or will be, and likewise a quit.

**Connection and server.** `ConnectionProofs` sorts the records into phases: `New` (constructed), `Up`
(in epoll for exactly the events it asks for, waiting to write as long as there is output), `Down`
(closed, out of epoll), and shows for each method from which phase to which it leads, so that the
proofs about the server never look inside a method. `TcpServerProofs` has two invariants. `Inv` is
about what runs: every connection is in a phase or failed an assert (`Records`), an active channel
belongs to a connection that is up and to the loop that handles it (`Rounds`), and every functor is
queued on the loop it must run on, in an order its connection can take (`Work`). It gives
`EpollAgrees`, `CallbacksInOrder` and `OutputFirst`. `Safe` is about what is kept: who holds a
connection, what the map still has, what is still to be torn down, and that an address is served once
(`Turns`, `Named`, `Addresses`, `Awaited`, `Torn`, `Kept`, `Single`). It needs `Inv`, but not the converse; it gives
`NoAssertFails` and `NothingCalledOnDead`. Without I/O loops what the server posts to its own loop
runs at once, and `Single` says that the queue of the base loop has then nothing but connections to
tear down, none of them one whose event is still to be handled. `StateGoesForward` is about steps:
`state_` never goes back.

All of these are about `Spec`, the run's specification, in which users act in callbacks. With other
threads of the user, `ThreadedSpec`, the run `tcp_send_race` shows that `NothingCalledOnDead` fails, and
with one such thread TLC refutes the run's other invariants (section 5) and `StateGoesForward`. What is
left is proved from a third invariant, `Threaded`, which does without the phases: the poller's record of
a connection is consistent (`Known`), an active channel is of an accepted, registered connection of the
loop that handles it (`Handled`), every functor is queued on the loop of its connection
(`Placed`), and users call only connections they were given (`Callers`). Each method of the
connection is shown to keep it in `ConnectionProofs` (`Registered`, `Follows`), and each action of the
server to be a step that touches one connection and queues at most one functor for it (`Touches`). Three
theorems come out of it. `LoopsKeepApart`: a loop handles the events and functors of its own connections
only, whoever calls from where. `SendAloneMeetsDead`: the bare `this` that `send()` queues is the one way
to a destroyed connection, and what it meets is disconnected; it delimits the finding of
`tcp_send_race`. `DestroyedForGood`: once nobody refers to a connection, nobody does again and nothing is
done to it; it holds of `Spec` too, whose steps are among those of `ThreadedSpec`
(`DestroyedForGoodAlone`). Before the proofs TLC checked `Threaded` and `DestroyedForGood` with two
connections and one thread and with one connection and two threads; that takes too long to be a run.

**SPSC queue.** `Inv` measures every index by its distance from `read_idx_`, so that wrapping goes away:
the slots of two producers past their CAS are apart and between `commit_idx_` and `write_idx_`,
the consumer copies before `commit_idx_`, and a CAS about to succeed has found room, since only the
consumer can have moved while `write_idx_` has not. That last part is what makes the stale load of
`read_idx_` harmless. It gives `IndicesInOrder` and `SlotsExclusive`. In
`QueueImplementsFIFO` the CAS that reserves is the hand-over of the batch it got slots for, the commit
is the put, the store of `read_idx_` a take, and every other step, the fills among them, a stutter. It
rests on `Filled`, the part of `Inv` that says that the slots filled so far hold the items of the batch,
from its first on; nobody else writes them before the commit, the slots of producers being apart.

**Locked queue.** `LockedQueueImplementsFIFO`: `StoredAre` says which slots hold the content, wrapped
indices or not; an enqueue then puts what fits of the batch its call brought and a dequeue takes what it
copied.

**Timers.** `TimersInv` is the type invariant, `OneOwner`, `ArmedInTime` and `NotLate`. The first three are
not inductive: `reset` restarts a timer from the `now` that `handleRead` took, and the timerfd is armed
in time only if no timer is later by then than it can be set for. `NotLate` bounds how late a timer
in each place can be. It gives
`TimerfdArmedInTime` and `TimersHaveOneOwner`.

**Timer list.** The links are reasoned about as a `Chain`: the sequence of nodes they link from both
ends. It is unique (`ChainUnique`), so `Order` finds it, and one lemma per operation says what it
makes of the sequence: `InsertedChain`, `UnlinkedChain` (a node out of the list changes nothing),
`PoppedChain`. `ListInv` adds to the three properties whose a node is, also when a call has raced
(`OwnNodes`), and where it can be: a batch and the list share no node, and one about to be added is
in neither (`Apart`). Order is kept because a node is placed when only its own `expire` can be out of
its place, unless `mixed`. It gives `ListStaysIntact`, `ListStaysInOrder` and `PointersNeverDangle`.

**Log file.** `LogInv` adds to the properties where a call is and what it has found (`CallState`), what
is in the directory, and that the open file is the last by name (`Newest`), which is what makes an
appended line the last of all. It gives `NoLineIsLost`, `NamesGiveTheOrder` and `FailureEndsWithTheDay`.

**Memory pool.** `PoolConservesBlocks`: the free list is a sequence of different blocks that the links
join; only links within it matter, so a user may write into the blocks it holds. The equation about
`used_count` (`Counted`) is kept by every step on its own, with the lemmas on remainders.

**Buffer and demo server.** One lemma per method says what it does to the readable bytes (`Retrieve`,
`EnsureWritable`, `Appends`, `ReadFd`, `WriteFd`), for every size of the vector and of the stack
buffer. `NoByteIsLost` follows from them, `AnswersAreComplete` needs more: the HTTP server keeps all it
has read until a request is complete (`Answered`), a complete request stays complete whatever comes
behind it (`ParseKept`), and a connection that is closing has answered or will not read again (`Ended`).

`LeastNat` stands in for induction: the provers here cannot instantiate an induction theorem, but a
set of numbers that is not empty has a least element, by the library's well-founded minimum. The first
place where two walks along a list differ, the front of a heap, the first line end and the first node
not due are found with it.

Only model-checked: the eleven liveness properties, `EveryTaskSettles`, `StopCallReturns`,
`ShrinksWhenIdle`, `ReservedIsConsumed`, `QueuedIsCalled`, `QuitEndsLoop`, `StartLoopReturns`,
`ClosedIsDestroyed`, `ShutdownReachesSocket`, `AddedLeaves` and `EveryAnswerArrives`, which need
fairness and ENABLED and are out of this prover's reach; and the five findings, which are
counterexamples.

## 5. Findings

Each with its run, and the line of the repository it contradicts in `PROJECT.json`.

- `pool_stop_race`: `stop_immediately` during another thread's `wait_and_stop` discards nothing.
- `event_loop_lost_quit`: `loop()` clears a `quit()` that came before it; it takes an owner that destroys the
  thread object before the loop is entered.
- `event_loop_destroyed`: the poller is gone when `~TimerQueue` needs it, whenever an `EventLoop` is destroyed.
- `tcp_reset_leak`: `handleRead` takes a reset connection with pending output to `kDisconnecting`, and
  `handleWrite` does not close on an error; its loop spins on the descriptor.
- `tcp_send_race`: a bare `this` in the functor of a cross-thread `send`.

Divergences seen while modelling that have no run of their own:

- The test at thread_pool/main.cpp:157-182 calls the order of its tasks strict; it is not when the one
  thread takes the first task before the others are submitted.
- log_file.cpp:85 says that a line without an open file cannot happen; it does, for the rest of the
  day, once a reopening has failed (`DropsEndWithTheDay`).
- pool.c:11 calls `used_count` the number of used blocks; it is that less the reuses so far, modulo its
  width (`BlocksConserved`).
- ~TcpServer relies on its I/O loops to call the `connectDestroyed` it queues, and then makes them quit; what
  a loop has not called by then is dropped, and a connection that was up fails the asserts of its channel
  (`AssertsHold`, its second case).
- A request the HTTP server cannot parse is neither answered nor consumed, and the connection
  stays open (`Answer` is then empty).
- `shutdown()` and `forceClose()` test and set `state_` without being on the loop's thread. Nothing in
  the repository promises that they may be called so, but if they are (`ThreadedSpec`, one such thread
  and the constants of the run `tcp_server`), none of the invariants `AssertsHold`, `NoCallOnDead`,
  `RegistrationAgrees`, `CallbackOrder` and `OutputBeforeShutdown` holds: a `forceClose()` that has found
  the connection up writes `kDisconnecting` after the loop has closed it, `forceCloseInLoop` closes it
  again, and the user sees it go down twice. What holds all the same is proved (`LoopsKeepApart`,
  `SendAloneMeetsDead` and `DestroyedForGood`, section 4).

## 6. Plan

Done: the components in section 2 and the proofs in section 4. What is left, in this order:

1. Action properties of the other components that their invariants imply, as those of `ThreadPool` and
   `TcpServer` in section 4.
2. A `TcpServer` whose loops use `EventLoop` itself instead of what it is shown to promise.

## 7. Not modelled

- Text: log formatting and the truncation of long lines, paths, headers, MIME types and files of the
  HTTP server, and the exception `std::stoi` throws on a malformed version.
- Calls nobody makes: `disableReading`, `findCRLF`, the move operations of `LogFile`, a second
  `Logger::Init` in one process.
- The exception `exists()` may throw during a rotation (log_file.cpp:162).
- The lifetime of the `client_data` that the nodes of the timer list point back to.
- The wall clock is not set back or forward; `Timestamp::now` is the time that passes.
- What waits in a functor when `~TimerQueue` runs is leaked, as in the code; no property counts it.
- The timer list's callbacks may delete another timer of their client; they do not add any.
- `struct.c` (prints layouts), `Socket.cpp` and `InetAddress.cpp` (wrappers of system calls), the
  benchmarks, demonstrations and test drivers, which hold none of the program's logic.
