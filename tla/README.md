# A verification project for brickred

brickred (`src/src/brickred`) is a C++ library for event-driven network servers:
an epoll loop with timers, non-blocking TCP connections on it, queues that carry
messages between threads and into the loop, and utilities. This directory holds
TLA+ modules that model its core, TLC configurations that check them, and proofs
that TLAPS checks. Paths below are relative to `src/src/brickred`.

## 1. Inventory

| Component | State it keeps | Operations | Talks to | What is hard | What makes it correct |
|---|---|---|---|---|---|
| `ConcurrentQueue` (`concurrent_queue.h`, `mutex`, `condition_variable`) | the queue, its limit, a mutex, two condition variables | `push`, `pop` (block), `pushIfNotFull`, `popIfNotEmpty`, `peek` | any threads | threads, lost and spurious wakeups | an atomic bounded FIFO; no thread sleeps beside an item or a slot it could use |
| `MessageQueue`, `SelfPipe` | a ConcurrentQueue and a pipe | `push` by any thread; drain, `pop`, `yield` on the loop | producer threads, `IOService` | two-step push, dropped pipe bytes | every message delivered once, in order; no message without a wakeup |
| `TimerHeap`, `Timestamp` | timers by id, an indexed binary heap | `addTimer`, `removeTimer`, `checkTimeout`, `getNextTimeoutMillisecond` | called by `IOService`; calls clients, which call back | re-entrance, erasure from the middle, rounding, clock set back | due timers fire in order, as often as asked; the loop sleeps exactly as long as it may |
| `IOService`, `IODevice` | the epoll set, the batch of events, `removed_io_devices_`, `quit_` | `loop`, attach, detach, set callbacks, `quit` | kernel, devices' callbacks, `TimerHeap` | devices deleted, and addresses reused, in the middle of a batch | no event reaches a device it was not reported for |
| `TcpService` (`tcp_service.cc`), `TcpSocket` | sockets, connections (status, buffers, callback), two timer maps | `listen`, `connect`, `asyncConnect`, `sendMessage`, `sendMessageThenClose`, `broadcastMessage`, `closeSocket`, the handlers | `IOService`, kernel, peers, four client callbacks | callbacks that close what the handler works on; errors reported later; timeouts racing answers; partial sends; descriptor exhaustion | see section 4 |
| `DynamicBuffer` | an array, two indexes | reserve, write, read, clear | connections, logging, parsers | growth arithmetic, moving the window | a byte queue in bounded memory |
| `LogAsyncSink`, `ObjectPool` | a ConcurrentQueue of buffers, a pool, a thread | `log`, destructor | threads | shutdown against late `log` calls | every logged line written once, buffers owned by one side |
| `Thread` | handle, three flags, a condition | `start`, `join`, `detach`, destructor | pthread | joins and detaches racing | joined or detached exactly once |
| `SignalQueue` | a pipe | `push` from a signal handler, drain | `IOService` | full pipe | no signal forgotten |
| Logging core, file and stderr sinks | sinks and level filters; the open file | `log`, `openFile` | | failed reopen | lines go to the current file |
| `RankSet` | a red-black tree with counts | insert, erase, rank queries | | long operation sequences | balanced, ordered, exact counts |
| HTTP and WebSocket protocols | parser state | `recvMessage`, `retrieve...` | `DynamicBuffer` | input cut anywhere | same messages however the bytes are split |
| `UdpSocket`, `SocketAddress`, codecs, random, strings, command line, system | little or none | | | | |

A loop and everything on it run on one thread; only `ConcurrentQueue`,
`MessageQueue::push`, `LogAsyncSink` and `Thread` are for several. What makes the
single-threaded part hard is re-entrance: every handler calls client code, and
client code may call any operation, deleting what the handler is working on.

## 2. Modules

| Module | What it is |
|---|---|
| `BoundedFifo` | abstract: an atomic queue, whose operations take effect between call and return |
| `ConcurrentQueue` | `concurrent_queue.h` with mutex and condition variables, one action per critical step; implements `BoundedFifo` |
| `ConcurrentQueueMC` | a finite workload for it |
| `ConcurrentQueueProofs` | its theorems |
| `MessageQueue`, `MessageQueueProofs` | `message_queue.h` over the self pipe; the ConcurrentQueue is atomic here, which its refinement justifies |
| `Thread` | `thread.cc`: any threads start, join, detach and destroy Thread objects |
| `LogAsyncSink`, `LogAsyncSinkProofs` | `log_async_sink.cc` and `object_pool.h`, over an atomic bounded queue and the threads of `Thread`; the theorems about both |
| `QueueClientsMC` | both clients of the queue, for model checking |
| `ByteFifo` | abstract: a sequence of bytes |
| `DynamicBuffer` | `dynamic_buffer.cc`; implements `ByteFifo` |
| `SortedSet` | abstract: a set of values, and an iterator at a value or at the end |
| `RankSet` | `rank_set.h`: the nodes, links, colours and counts; implements `SortedSet` |
| `TimerService` | abstract: a set of timers with deadlines, and passes that fire the due ones |
| `TimerHeap` | `timer_heap.cc`; implements `TimerService` |
| `StructuresMC` | the three data structures, for model checking |
| `StructuresProofs` | the theorems about `DynamicBuffer` and `TimerHeap` |
| `RankSetProofs` | the theorems about `RankSet` |
| `IOService`, `IOServiceProofs` | `io_service.cc` with client code that attaches, deletes and changes devices |
| `TcpService` | `tcp_service.cc` composed with the loop of `IOService` (instantiated with the service's handlers as callbacks), a kernel and peers |
| `TcpServiceMC` | address symmetry for its runs without temporal properties: addresses are only compared, so exchanging them changes nothing |
| `TcpServiceData` | lemmas: what each operation on the service's maps does to the sockets |
| `TcpServiceProofs` | its theorems |
| `HttpProtocol` | `http_protocol.cc` and what it uses of `http_message.cc`: handlers as operators on the parser and its input |
| `WebSocketProtocol` | `web_socket_protocol.cc` over `HttpProtocol`: two ends of a connection, and the bytes between them |
| `WebSocketProtocolMC` | the connections it is checked on |

Definitions keep the names of the functions and members they model; `PROJECT.json`
maps each to its lines. Definitions commented `(mutant)` are variants with a
plausible bug (a notify that is missing, a test that is dropped); they are used
nowhere in the specifications, and are put in place of the real definition to see
that each property can fail.

### How state and actions correspond

*ConcurrentQueue.* A thread goes through `Call`, `Lock`, one body action
(`PushBack`, `PopFront`, `PeekFront`, `Refuse`, or a `Wait...`) and `Unlock`.
`ConditionVariable::wait` is two actions: the thread releases the mutex and joins
the wait set, and later, out of the wait set, takes the mutex (`Lock` again) and
tests its condition again. `notifyOne` takes any one waiter out of the set;
`SpuriousWakeup` takes one out unasked.

*MessageQueue.* `push` is `QueuePush`, then `PipeWrite`, and other threads act
between. The loop's side is `PollReturns`, `DrainRead` until `DrainDone`, then the
client's callback: pops until there is nothing, or stops early and must `yield`.

*TimerHeap.* Time is in ticks, several to a millisecond, because the heap compares
times to the microsecond while expiry and the epoll timeout go by milliseconds.
Every clock reading is arbitrary: CLOCK_REALTIME may be set back. `checkTimeout`
is one action per timer fired, and a timer's callback is a state in which clients
start and stop timers. Ids start again at 1 after `MaxId`, and `getTimeout`
narrows to an int modulo `IntMod`. The two loops that move a timer in the heap are
recursive functions, from the number of rounds run to the index and the heap after
them; a round after the one that left the loop changes nothing.

*IOService.* `dev` is the set of attached devices by address; `Wait` picks any
batch of ready devices and non-empty sets of their event bits, up to
`events_.size()`. The loop then visits bit by bit (out, in, err), and each callback
is a state in which any device may be deleted and a new one allocated, at the same
address too. An event carries, besides the pointer, the identity of the device
that it was reported for; the code does not see it, the properties do.

*TcpService.* A handler runs as one action up to the point where it calls client
code. There `pc` becomes `"client"`, `then` records what is left of the handler
and `hid` its socket; client code makes up to `CallBound` calls and returns, and
the handler goes on with what it had in its locals. The kernel side of each
socket, `net`, is an external model: what the peer sent, its FIN or reset, room in
the send buffer, `SO_ERROR`. Peers act between any two steps, so
also between two rounds of a read loop; what arrives between `readableBytes()` and
`recv()` might as well have arrived before the first (if it is then read) or after
the second (if not). Bytes sent are numbered per connection so that
order can be stated; bytes received are counted. `broadcastMessage` sends to one
connection per step, in any order (the map's): `casting` holds what it has still to
send, and until it is through no other call is made. The timers of the service fire in
any later pass of the loop, which is what `TimerService` promises when nothing is
said of durations.

*Thread.* Each critical section of `data_mutex_` is an action; `join` is four: it
begins (and may throw, or find that another join has begun), `pthread_join` returns,
`joined_` is set and all waiters are notified, and a waiter looks again. A handle is
a number that the kernel gives to a new thread again once its owner is reaped, which
is what makes the test for a thread that joins itself more than a formality. Two
kinds of calls are left out, for no program could make them and mean it: `detach()`
before `start()`, which would pass a handle never set to `pthread_detach`, and a
destructor that runs while another call is in the object.

*LogAsyncSink.* The workers of a program are threads of `Thread`, and so is
`log_thread_`. A buffer is a number, and holds the line that was copied into it and
never read; `GetObject` is the part of `log()` up to the push (the buffer is the
thread's own by then), `Push` waits for room. The logging thread pops, writes, returns
the buffer. `main()` starts workers, joins, detaches and destroys them, workers join
each other in one direction (an order of them is a constant), and when none runs the sink is destroyed.

*RankSet.* The nodes are a function from values to records with the fields of
`RBTreeNode`, the header among them (a node's value never changes, so it names the node); the fixups rewrite links one by one in the order
of the code, with `rotateLeft` and `rotateRight` as one operator that takes its side. A loop
that changes the tree is a recursive function from the number of rounds to the tree and the
node reached (`countRounds`, `insertRounds`, `eraseRounds`); a loop that only reads it is a
function from each place to the next, followed to its end (`Walk`). Both run as many rounds
as there are values, and a round after the end changes nothing. The set of the elements
is that of the nodes, so nothing is kept beside the tree that the code does not keep.
A client holds one iterator, which it seeks, advances, retreats and erases at; an
`Iterator` and a `ReverseIterator` are the same place, and `retreat` is `--` of the one and `++`
of the other, so that it also goes from the first element to `rend()`.
Every operation that changes the set is followed by every query, in `QueriesExact`.

*HttpProtocol, WebSocketProtocol.* The byte stream is a sequence of numbers. Bytes of
bodies and frames are themselves; the texts of an HTTP header are pieces above 255
that say what the parser finds in a line (which start line, a `Content-Length` of n,
`chunked`, a chunk size, the headers of a handshake, any other), one place long. A
handler is an operator from the parser and its input to what it returns, leaves and
writes, and `Receive` is one round of the loop of `recvMessage`. The program at an end
does what `ws_echo_server.cc` and `http_server.cc` do with the return codes, and may
also send messages, pings and a close from outside a callback. Payloads are masked and
unmasked, and lengths written and read in their bytes, with the limits 125 and 65535
scaled down to `Len7Max` and `Len16Max`.

*DynamicBuffer.* `buffer` is the array with its real contents, so that moves and
copies show; the client keeps its side of the protocol (it writes at most what it
reserved).

## 3. Runs, bounds, fairness

| Run | Shows | Bounds, and why they are enough |
|---|---|---|
| `ConcurrentQueue` | atomic FIFO, no lost wakeup, no thread stranded beside an item or a slot | 4 threads, up to 3 calls each, 2 slots, 1 spurious wakeup: two consumers and two producers can sleep at once, and pushes outnumber slots. The proofs cover all sizes |
| `QueueClients`, messages | every message once and in order, wakeups survive a full pipe | 3 producers, 2 messages each, 2 slots, a pipe of 2 bytes read 1 at a time: the pipe and the queue both overflow |
| `QueueClients`, log | every line once and in order, no buffer with two owners, nothing left at the end, every call returns; threads reaped once, joins that mean it | 2 workers with 2 lines and 1, a queue of 1 slot: workers and the destructor wait for room, buffers are used again, main() and a worker join the same thread; 3 handles, used again |
| `Structures`, buffer | a byte queue in bounded memory | array of 3 bytes that grows by steps, requests of 1 to 3, up to 5 unread bytes |
| `Structures`, set | a sorted set with exact ranks; balanced; copies equal | 8 values: trees of four levels, and every case of both fixups, on either side |
| `Structures`, timers | implements `TimerService`; epoll timeout exact; passes end; heap order and positions | few: 3 ids that wrap, 2 ticks per ms, clock readings in any order, one client call in the callbacks of a pass. Many: 6 timers, the least number with which an erasure moves a timer up rather than down |
| `IOService` | no stale event | 2 addresses, 3 devices in turn: an address is reused while an event for its old device is in the batch |
| `TcpServiceSend` | order of the bytes sent, write limit, interest in EPOLLOUT, no empty callback called | 2 connections, messages of 1 and 2 bytes, room for 1 in the kernel and 2 in the buffer: partial sends, overflow, reset; clients need not close on error |
| `TcpServiceReceive` | data before close, causes of close, read limit, callbacks only about open connections | a listener and two accepted connections, 3 bytes received on each against a limit of 2: exactly full, and one too many. There is a timer id more than sockets, so that a socket's one timer always finds a fresh id |
| `TcpServiceLive` | timer maps; no failed send without a report to come; failures reported, connects resolved, listeners resumed | 2 sockets, timers of all three kinds |
| `WebSocketProtocol` | what is read is what was said, however it is cut; what must be refused is; pongs mirror pings; the close handshake | two ends from the handshake to the close, two sends of each, with payloads at the limits of each form of length; and one end against every pair of 5 good and 12 bad frame sequences and of 5 good and 6 bad HTTP messages, and messages at each limit. HTTP messages with headers but no size are left to `WebSocketHandshake` |
| `TcpServiceExactFit`, `TcpServiceCloseListener`, `TcpServiceThenClose`, `WebSocketHandshake` | the findings of section 5 | the smallest that show them |

`QueueClients` and `Structures` check several specifications that share nothing; the
variable `subject` says which one a behaviour is about, the others stay as they were.

Deadlock is not checked for `ConcurrentQueue` (a workload may end with threads
waiting for a push that nobody makes, and a finished one stops), for `QueueClients`
(it ends when the messages are sent, or the sink is deleted) and for the WebSocket
runs (a conversation ends).

Fairness. *ConcurrentQueue*: each thread that can go on does (weak fairness per
thread; the mutex is not assumed to be fair). *QueueClients*: the same, for the I/O
thread and each producer, for the logging thread with the destructor, for each worker
that logs, and for each thread in `join()`; nobody has to start, join or detach
anything. *Structures*: a pass of the timers goes on, so callbacks return; nothing
else. *TcpService*: the loop's thread runs (weak), and a timer of the service, once
its time has come, is called in some pass (strong: passes come and go, and
`checkTimeout` calls every due timer). Nothing is assumed of clients beyond that
callbacks return, of peers, or of the order of events. The liveness run leaves out
connections that are aborted before they are accepted: an endless supply of those
would keep the accept loop from ever returning. *WebSocketProtocol* states no
fairness: `CloseCompletes` and `ReadAsSaid` are about the states in which nothing is
on its way any more.

Assumptions on clients, each named by a constant or a definition: with `MustClose`
a client closes a socket whose error or peer-close callback was called, as all
programs under `src/src/test` do (all `TcpService` runs but `TcpServiceSend`); a client does not close the listening socket
from the callback for a connection that it accepted (unless `ClientOps` holds
`"closeListener"`, see section 5); repeating timers have a period of at least a
millisecond (with 0, `checkTimeout` moves the timer to the same deadline and calls
it again for ever); a peer of `HttpProtocol` does not send a chunked body within its
framing of the limit (the limit counts everything buffered, so that such a body may
be refused or not depending on how it is cut), and a program of `WebSocketProtocol`
takes a message before it sends the next (a send while a message waits to be
retrieved is dropped without a word, as any send in another status than CONNECTED).

## 4. What is proved

All theorems are for every value of the constants, under the assumptions on them
stated in the modules (finite sets of threads and of addresses, sizes that are
naturals).

*ConcurrentQueueProofs.* The inductive invariant `IndInv` joins the types, mutual
exclusion, that a thread is in a wait set only when its operation waits there, the
capacity, and the two wakeup conditions: while a thread sleeps for an item, there
are at least as many awake threads in `pop` as items stored, and while one sleeps
for room, at least as many awake in `push` as free slots. The counting is needed:
"a stored item means some popper is awake" is not inductive, since that popper
takes one of two items and leaves another sleeper beside the second. Each step
changes one count by one, and lemmas on the cardinality of the sets of awake
threads carry that. Corollaries: `TypeCorrect`, `Capacity`, `NoDeadlock` (with both
wait sets non-empty a slot or an item exists, so someone is awake), `NoLostWakeups`,
and `Refinement`: each body action is the atomic
operation of `BoundedFifo`, every other step a stutter or a call or return.

*MessageQueueProofs.* `TypeCorrect`, and `NoLostWakeup`: whenever the loop is about
to sleep and messages are queued, the pipe holds a byte or a producer is about to
write one. The invariant is strengthened by the state of the drain. `DeliveryExact`:
what the client has got, followed by what is queued, holds the messages of every
producer in the order of its calls, without a gap and none twice, for any producers,
any capacity, and a client that pops or stops as it likes. The property is stated of
that stream, and not of what was delivered, because only the stream is the same
before and after a pop.

*StructuresProofs, the buffer.* `Safety` (indexes in order and in the array through the
growth arithmetic), `BoundedCapacity` (the array never exceeds the most that was
needed at one time, plus one step), and `Refinement` of `ByteFifo`.

*StructuresProofs, the timers.* For any number of timers, timeouts, clock readings and
calls out of the callbacks. The inductive invariant `TimerInv` joins the types with
`HeapIsSound`: every slot of the heap holds a timer that says it is there, the heap holds
the same timers as the map, and no timer is due before its parent. Most of the argument
is about one shift. While it runs the heap is in order but for one slot, which may be due
before its parent (`OrderedButUp`) or after its children (`OrderedButDown`); for the slot to
be swapped away, its children must also be in order with its parent. A round either
leaves the heap in order or moves that slot one level, and there are at least as many
rounds as levels. Induction on the rounds goes through the set of those after which the
condition holds, for a theorem with an operator as parameter cannot be used here. An erasure
puts the last timer in the place of the erased one: it may have to go up or down, and never both
(`ReplacedIs`). That the root is the earliest of all, `RootIsLeast`, is an induction on the
slot. From it: `TimerTypeCorrect`, `HeapIsAlwaysSound`, `NextTimeoutAlwaysExact` (the time that
epoll is told is that of the earliest deadline, rounded up, and -1 only if there is no timer
at all) and `HeapImplementsTimerService`, the refinement of `TimerService`. Only the last has a
hypothesis, `RequestsFit`: timeouts are not negative and below half of `IntMod`. Without
it the refinement is false, for `getTimeout` narrows a longer one to an int that may be
negative, and a pass then fires a timer early or moves its deadline back.

*IOServiceProofs.* `TypeCorrect`, `BatchStaysFresh` and `DispatchIsSafe`, for any
addresses, any callbacks and any number of devices. The invariant `IOInv` adds to
`EventsFresh` that no event is left outside a batch: without it, clearing
`removed_io_devices_` at the end of an iteration could uncover a stale event.

*RankSetProofs.* For any bound on the values, whose being a natural is the only assumption, and
so for trees of any size and any sequence of calls. The inductive invariant `SetInv` says that
there are a subtree for each node and a black height for each node such that: links and
parents agree, and a subtree holds its root and what hangs from its two sides, the smaller values left and
the greater right (`Shape`); `node_count` is the size of the subtree; the root is black, no red node
has a red child, and the two sides of each node are equally high (`RedBlack`); and the header leads
to the root, the least and the greatest node, and knows how many there are (`Headed`).
Neither subtrees nor heights are variables of the code, so each lemma says which ones the
new tree has. A rotation, the exchange of a node with its successor and the unlinking of a
node are first described field by field (`Rotated`, `Relinked`, `Spliced`), whatever the
order of the assignments, and from then on by what they do to subtrees and heights. Between
the two halves of an operation the invariant is broken in one place, and each loop has an
invariant that says where: counts are wrong at most on the path above the current node
(`CountAfter`); a red node may have a red parent only at `x` (`RedAt`, `Rising`); paths through
`x` have one black node less than they should (`Lowered`, `Sinking`), until one round evens them out (`Evened`). The loops end
because a round that is not the last goes up, so that the subtree of its node is
larger; the walks end because it is smaller.

From it: `SetAlwaysSound` (the invariant, and that the client's iterator is at an element or at the
end), `AlwaysBalanced`, `QueriesAlwaysExact` (rank, select, find, both bounds, the ends and the size say
what they would of the sorted sequence, and `increment` and `decrement` go to the neighbours in it), `CopyAlwaysEqual` (the copy constructor
rebuilds every link), and `SetImplementsSortedSet`, the refinement of `SortedSet`: erasing another
element leaves an iterator where it is, and `erase(it)` goes on to the next. That climbing
past the header stops as it should is a part of `QueriesAlwaysExact`, about the least and the
greatest element. Inductions on
rounds, on levels and on the sizes of subtrees take the least counterexample
(`LeastElement`), because the induction theorem that takes an operator cannot be used.

*LogAsyncSinkProofs, the threads.* For any threads and handles: `TypeCorrect`, `HandleReapedOnce`,
`JoinWaits`, `NoForgottenWaiter`. The invariant `ThreadInv` gives each object one of
three phases: nobody has begun to join or detach it, a join is in progress, or it is
over, by one `pthread_join` or one `pthread_detach`. In progress means that exactly one
caller is between the two critical sections of `join()`, who alone will set `joined_`;
sleepers only while there is such a caller. None of the three properties is inductive
without it: that nobody joins a second time rests on `join_started_`, which the
properties do not mention.

*TcpServiceData, TcpServiceProofs.* For any addresses, ids, timers, limits, sizes of
messages and of batches, any client operations and any peers, every safety property
that a passing run of `TcpService` checks. Four assumptions on constants, stated in
`TcpService`: the bounds are naturals, there are finitely many addresses, an empty
callback is none of the handlers, and there are more timer ids than addresses (an id
is 64 bits wide, and a socket has at most one timer: without it, `FreshTimer` would
have nothing to choose).

The argument has two halves. `TcpServiceData` is about the data. What the five maps and
the devices say of one socket is gathered in a record, its *view*; `Struct` says that
the maps fit each other, and `Good` what the fields of a view have to do with each
other: callbacks and timer that go with the status, interest in EPOLLOUT exactly with
bytes buffered, the numbered bytes on the wire continued by those in the buffer, limits
kept. Each operation (`closeSocket`, `sendMessage`, `addSocketTimer`, ...) has a lemma:
it changes one view in a way that is spelt out, or closes or opens one, and keeps the
others and `Struct`. `TcpServiceProofs` is about control. `TcpInv` adds to the good views
that the loop, the handlers and the client take turns (`TurnsFit`); that each event
left in the batch is for the socket at its address or for an address remembered as
removed, and that its bits are for callbacks that are set (`EventsFit`); that the bit
being dispatched comes no more in the batch (`CallFits`); and what a handler that
called the client still works on, if it is open (`HandlerFits`). None of the properties is
inductive without most of it. `NoNullCall`, for instance, rests on the callback of
an event bit being cleared only by the dispatch of that very bit, by a close, which
records the address, or by the end of an asynchronous connect, whose socket has no
further bit in the batch; that in turn needs the order out, in, err of the dispatch and
the callbacks that go with each status.

`TypeCorrect`, `TimersAgree`, `WritesWhileBuffered`, `SentInOrder`, `WriteLimitHolds`,
`ReadLimitHolds`, `CalledIsSet`, `CalledBackWhileOpen` and `ClosedForCause` hold for all
clients. `TimersStayInStep` and `DataComesFirst` assume `MustClose`: a client that leaves
a failed connection open may have its error reported once and never again, and be told
of the peer's close with data of an earlier failure not handed over. `ListenerStaysOpen` assumes that
the client does not close the listening socket in the callback for a connection it
accepted, and needs an invariant of its own, `ListenerHeld`; the run
`TcpServiceCloseListener` shows that it is false without that assumption.

*LogAsyncSinkProofs, the sink.* For any workers, numbers of lines, capacity of the queue and
order of joins. `SinkUsesThreads` shows that the program refines `Thread`: each of its steps
is one of that module or leaves the threads alone. So `SinkThreadsJoin` has the theorems
about threads hold of it, and the proofs below use them. `SinkInvariant` is the
inductive invariant `LogInv`: the pool, the queue and the hands of the threads share
out the buffers created, each once (`Shared`); what a thread is doing goes with what it
holds, and a buffer of the pool is empty (`HandsFit`); the null of the destructor comes behind all
lines and the logging thread has ended when it has taken it (`EndFits`); main() gets past
its join only after that (`JoinFits`); and the stream of lines, those written, then the
one in the hand of the logging thread, then those in the queued buffers, holds the lines of
each worker in order without a gap. The stream is needed because a line is copied into
a buffer, queued, popped and written in four steps, and `LinesInOrder` speaks of the last
only. From it: `LinesAreInOrder`, `BuffersHaveOneOwner`, `AllWrittenAtTheEnd`.

Only model-checked: liveness, which is out of the proof system's reach (every property
with `~>` or fairness, `PassEnds` of `TimerHeap` and `StrandedOnlyInVain` of
`ConcurrentQueue` among them); the four properties of `WebSocketProtocol`, `HttpProtocol`
under it included, whose module uses Bitwise for masks and flags, out of the provers'
reach, and which are inductions over the bytes read; and the four properties of the runs that expect a violation, which do not hold.

## 5. What the model shows about the code

1. `tcp_service.cc:558-566`. The overflow test counts at least one byte still to
   come, so a read buffer filled to exactly its limit makes the next round of the
   loop set `peer_close`: the client is told that a peer has closed which has not,
   and which has sent no byte too many (`TcpServiceExactFit`). What holds is
   `PeerCloseHasCause`.
2. `tcp_service.cc:410-453`. The accept loop uses `listen_socket` after
   `new_conn_cb_`. If that callback closes the listening socket, the loop goes on
   with a deleted object (`TcpServiceCloseListener`).
3. `tcp_service.cc:853, 878`. A connection has one send-complete callback. A message
   sent or broadcast after `sendMessageThenClose` while its bytes are still buffered
   replaces the callback, and the connection is never closed
   (`TcpServiceThenClose`).
4. `protocol/http_protocol.cc:361`. The parser takes a message with headers only if it
   announces a body; the handshake requests and responses of `WebSocketProtocol`
   announce none. A client of the library and a server of the library refuse each
   other (`WebSocketHandshake`), unless both programs add `Content-Length: 0` with
   `setHandshakeHeader()`, which is what the other run does. Compiled and run, the code
   behaves like that.

   It is not only about handshakes: `test/http_client.cc:57-82` sends such a
   request (Host and Connection, no length) for `test/http_server.cc` to answer, and is
   refused too. The passing run `WebSocketProtocol` therefore counts a
   message with headers and no size neither among those that must be read nor among those
   that must be refused.

Read but not stated as a finding: `--` of a `ReverseIterator` at `rend()` is
`increment(header)` (`rank_set.h:1004-1008`), which goes to the least node in the subtree of
the greatest element, not to the first element (and does not return if the set is empty, which
the comment at `rank_set.h:24` says); `++` from the first element does reach `rend()`; a refused asynchronous connect that the client
does not close is reported as connected at the next EPOLLOUT (its `SO_ERROR` has
been cleared); data read just before a reset is left in the buffer when the error
is reported; `quit()` before `loop()` is forgotten; a thread whose handle was reaped and
given to the caller makes `join()` throw "thread try to join itself" (`thread.cc:80`)
instead of returning at once; two threads that join each other get an error from
`pthread_join`, which the code ignores.

## 6. Not modelled, and the plan

Not modelled at all: the logging core and its sinks (filters and formatting on one
thread, and a file reopened by name; `log_file_sink.cc:51` records the new path before
`fopen`, so that after a failure the file is taken for open), `SignalQueue` (its drain
has the shape of `MessageQueue`'s, and signals that find the pipe full are dropped by
design); UDP, addresses, codecs, random numbers, strings and the command line
(wrappers or pure functions that tests cover). Of what is modelled, left out:
`TcpService` contexts, its destructor, `listen` or `connect` that fails to attach,
send-complete callbacks of the client; failing `epoll_ctl` calls;
`DynamicBuffer::swap` and little-endian integers; the const iterators of `RankSet`, which
repeat the others, and `--` of a reverse iterator at `rend()` (section 5); dates, methods, versions and status codes of
HTTP other than 101.

Order of work:

1. done: `ConcurrentQueue`, `MessageQueue`, `TimerHeap`, `IOService`, `TcpService`,
   `DynamicBuffer`, with their proofs.
2. done: `Thread` with its proofs, `LogAsyncSink` with `ObjectPool`, `RankSet`, the HTTP
   and WebSocket protocols.
3. done: proofs of every safety property checked about `TcpService`, `MessageQueue`,
   `LogAsyncSink`, `TimerHeap` and `RankSet`, with the refinements of `TimerService` and
   `SortedSet`.
4. proofs to come: `WebSocketProtocol`, first of all that pongs mirror pings and that nothing
   follows a close frame, which needs its masks and lengths without Bitwise; sequence
   lemmas in common to the proof modules, gathered in one place.
5. models to come: client send-complete callbacks, contexts and the destructor in
   `TcpService`; `SignalQueue`; `LogFileSink`.
