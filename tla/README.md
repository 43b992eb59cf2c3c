# TLA+ verification of liteExchange

liteExchange is a small stock exchange in C++11: clients send limit orders and
cancels over FIX, an order book per symbol matches them, and execution reports
go back. This directory holds TLA+ models of its core, TLC configurations that
check them on small instances, and TLAPS proofs of the main safety results for
every instance. Paths below are relative to `src/source/` unless they start
with `src/`.

## 1. Inventory

### Threads

| Thread | Code | Does |
| --- | --- | --- |
| main | `main.cpp`, `server/server_fix.cpp` `run` | start-up, waits for quit, shutdown |
| TCP reactor | `core/network/tcp_server_reactor.cpp`, `fix/fix_server_reactor.cpp` | accepts, reads, validates and dispatches FIX messages; numbers orders, pushes ACCEPTED, submits tasks |
| worker, one per symbol | `core/concurrency/thread_pool.cpp`, `order_matcher/central_order_book.cpp` | inserts, matches, cancels in its book, pushes reports |
| outgoing message processor | `server/server_outgoing_message_processor.cpp` | polls all queues of reports, sends each to its session |
| logger | `core/logger/logger.cpp` | flushes the log queue to a memory mapped file |
| command line | `server/command_line_interface.h` | displays the books, quit |

### Components, their state and operations

* **Order, OrderBook** (`order_matcher/order*.cpp`): two multimaps, bids by
  falling and asks by rising price; `insert`, `find`, `erase`,
  `processMatching` (a loop of `matchTwoOrders` over the best bid and ask).
  Correct if it never stays crossed, trades in price-time order, at most the
  order's quantity, at its limit or better, and conserves shares.
* **CentralOrderBook** (`central_order_book.cpp`): the order number, the books,
  the thread pool, one outgoing queue per symbol; `addOrder`, `cancelOrder`,
  `taskNewOrder`, `taskCancelOrder`, `rejectOrder`. Correct if the reports of
  an order form a sensible life history and in the end agree with the book.
* **RingBufferSPSCLockFree** (`core/concurrency/ring_buffer_spsc_lockfree.hpp`):
  two atomic int counters and an array; `tryPush`, `push` (spins), `tryPop`.
  Used for the work queues (reactor to worker) and for the outgoing queues
  (reactor *and* worker to processor). Correct if it is a bounded FIFO queue.
* **ThreadPool, Task** (`core/concurrency/`): `submitTask`, the worker loop,
  `shutdown`; a task keeps the exception of its thread.
* **Actors and the server object** (`core/concurrency/actor.h`,
  `server/server_base.h`, `server_fix.cpp`, `server_offline.h`): flags that tell
  threads to end, joins in destructors. Correct if main comes to its end and no
  object is destroyed under a thread that uses it.
* **OutgoingMessageProcessor**: takes reports round robin, looks the session
  up, locks it, sends; also sends business rejects for the reactor thread.
* **FIX sessions** (`fix/`): a table of session slots with flags, sequence
  numbers per session, saved to a file on disconnect and loaded on logon;
  logon, logoff, admin messages, validation, disconnection. Correct if a slot
  is used by one client at a time, sequence numbers have no gap or repetition,
  and no report reaches another client.
* **TCP reactor** (`core/network/`): a table of peer sockets that has to stay
  aligned with the session table.
* **Receive cache and parser** (`fix/fix_receive_cache.cpp`, `fix_parser.h`,
  `FixSession::receive`): framing of messages across partial reads. Correct if
  the messages of the client come out, whole and in order, however TCP cuts
  the stream.
* **Logger, QueueMPSC** (`core/logger/`, `core/concurrency/queue_mpsc.hpp`): a
  list behind a spin lock that many threads push to and the logger thread cuts
  off; a memory mapped file that is rotated. Correct if no entry is lost,
  repeated or reordered and no line leaves its file.
* **Spin lock, singletons, SecurityManager, configuration, sockets, memory
  utilities**: tables read after start-up, or plain I/O.

### What is hard here

Threads interleave at every queue; two of them share a queue that is meant for
one; push spins, so threads wait for each other; the reactor removes sessions
while the processor uses them; sequence numbers live in files that a crash can
leave stale; shutdown joins threads in an order in which one may still wait for
another; TCP cuts messages anywhere. The full list, each entry at its line, is
under `hazards` in `PROJECT.json`.

## 2. Modules

| Module | Models | Role |
| --- | --- | --- |
| `MatchingEngine` | reactor, workers, books, queues, taking of reports | the core |
| `OrderLifeCycle` | what a client is told about an order | abstract specification |
| `MCMatchingEngine` | symmetry | model checking |
| `MatchingEngineProofs` | | theorems about the books of `MatchingEngine` |
| `MatchingReportsProofs` | | theorems about what `MatchingEngine` tells the clients, the refinement of `OrderLifeCycle`, conservation of shares |
| `RingBuffer` | `RingBufferSPSCLockFree`, load by load and store by store | component |
| `BoundedQueue` | a bounded FIFO queue | abstract specification |
| `RingBufferProofs` | | theorems about `RingBuffer` |
| `FixSessions` | peer and session tables, sequence numbers and their files, the two sending threads, stop, crash and restart | component |
| `MCFixSessions` | symmetry of clients | model checking |
| `FixSessionsProofs` | | theorems about the tables and the locks of `FixSessions` |
| `FixNumbersProofs` | | theorems about the sequence numbers of `FixSessions` |
| `FixReceive` | receive cache, parser, `FixSession::receive` | component |
| `MCFixReceive` | lengths of messages | model checking |
| `FixReceiveProofs` | | theorems about `FixReceive` |
| `ServerLifecycle` | all threads of the server from `run` to the exit of main | composition: gateway, queues, workers, processor, command line, main |
| `ServerLifecycleProofs` | | theorems about `ServerLifecycle` |
| `Logger` | `QueueMPSC` store by store, logger thread, rotation | component |
| `LoggerProofs` | | theorems about `Logger` |

### MatchingEngine

State and code: `orderNumber` is `m_orderNumber`; `reactor` is the local state
of the reactor thread between two pushes (`addOrder` pushes ACCEPTED, *then*
submits the task; each push can wait); `work[s]` is a queue of
`ThreadPool::m_threadQueues`; `bids[s]` and `asks[s]` are the two multimaps of
the book of `s`, as sets of orders that carry the number of their insertion
(a multimap keeps equal keys in insertion order); `workerPc[s]` and
`pending[s]` are where the worker is and the `processedOrders` it has not yet
pushed; `out[s]` is a queue of `m_outgoingMessages`, and `pushing[s]` the threads
that are inside `tryPush` on it. `view`, `answered`, `left` and `raced` are
history variables for the properties: what the client was last told of each
order, whom anything was told, the orders that left each book, and the queues to
which two pushes have overlapped.

Actions, one per step between two shared accesses: `ReceiveNewOrder`,
`PushAccepted`, `ReceiveCancel`, `SubmitTask` (reactor); `StartNewOrder`
(`tryPop` and `insert`), `MatchBestOrders` and `FinishMatching` (rounds of
`processMatching`), `PushReport`, `FinishTask`, `StartCancel`, `PushCanceled`
(worker); `LoadTail` and `TryPushFails` (both, on an outgoing queue);
`ProcessOutgoing` (processor). A book is touched by its own worker only, so that
finer steps of the worker would change nothing.

The two kinds of queue are not the same case. A work queue has one producer and
one consumer: a push to it is one step, which is what `BoundedQueue` promises and
`RingBuffer` shows. An outgoing queue has two producers, the reactor and the
worker, and is not made for that. A push to it is two steps, the load of
`m_write` (`LoadTail`) and the rest of `tryPush` (`Push` or `TryPushFails`). While
no other thread is between the two, that is a push to a FIFO queue. If a thread
loads `m_write` while the other is between them, messages may be lost or given
out twice and `m_write` may fall behind `m_read` (the run `ring_producers`). From
then on (`raced[s]`) the model says nothing about the queue of `s`: it is shown
as empty, no report is observed, and a push may return or spin for ever. The
books are still followed.

Abstractions: a symbol stands for its security id and queue; the average price
and time stamps are left out. The price is converted as the code converts it:
`ParsePrice` drops the decimals, like `std::stol`. The side of a cancel is any
side, because the code never sets it; the side of a new order may be
unsupported, in which case `insert` puts it among the asks and `erase` does not
find it again; what its client is told is not recorded in `view`. The model
assumes positive quantities. Messages that `ServerFix::onNewOrder` rejects never reach `addOrder` and are not in this
module. In single threaded mode the reactor runs the tasks itself; its
behaviours are the ones of this module in which the worker starts at once and
the reactor waits for it, so the safety results apply to it too.

### RingBuffer

`m_write`, `m_read` and the array, and each thread's position in `tryPush` or
`tryPop` with the counter it loaded. Counters are ints of a parametrised width
that wrap around (signed overflow is undefined in C++; the supported builds
wrap) and are converted to `size_t` before they are compared and reduced to an
index. Each load and store is a step. With one producer each counter has one
writer, and the acquire and release accesses make interleaving semantics exact.

### FixSessions

State and code: `peers` and `peerFlags` are `m_peerSockets` and
`m_peerSocketsConnectionFlags` of `TCPServer`; `sessions` and `sessionFlags`
are the two vectors of `FixServerReactor`. A `FixSession` and a `TCPConnection`
are created for each accepted connection and are named by its number, so that
`session[k]` holds the numbers, comp id, connection and two locks of session
`k` for its whole life. A session lives while the table refers to it
(`Alive`): `addSession` deletes the old one when a slot is used again. `store`
is the directory of sequence number files; a missing file is what
`loadFromSequenceStore` makes of it (next outgoing 1, last incoming 0).
`thread` is the position of the reactor and of the processor with their local
variables. `orders`, `reports` and `fills` stand for the matching layer: an
order remembers the slot of its session and, for the property only, its owner.

Actions. Both threads: `Transmit` and `Increment` (`FixSession::send`, cut at
`m_outgoingSequenceNumber++`, which is not atomic against the restoration at
LOGON), `Lock`, `Unlock`. Reactor: `Accept` and `Initialise` (two steps: between
them the session is in the table without a connection), `HandleClient` (one
read, one or several messages), `HangUp`, `RejectMalformed`, `HandleLogon`,
`RefuseTarget`, `RefuseNumber`, `AcceptMessage` (`processMessage`, in the order
of its tests), `DisconnectSave` and `DisconnectRemove` (`onClientDisconnected`),
`Stop` and `StopSave`. Processor: `TakeReport`. Matching layer: `Fill`.
Clients: `ClientSends`, `ClientLeaves`. `Restart` is the end of the process,
after a stop or by a crash at any point, and its next start: tables, sessions,
orders and reports are gone, the files stay. The save deletes a file before it
writes it, so a crash inside `DisconnectSave` or `StopSave` (`BeingSaved`) may
leave the old file, the new one or none.

The promises about sequence numbers are made to *clean* clients: those that
logged off, and whose numbers were saved before the process ended. `stop` saves
every session of the table that was ever connected, removed ones included, in
the order of the slots: when a client has a removed session in a higher slot
than its present one, the older numbers overwrite the newer ones. `StopSave`
does what the code does and marks such a client as not clean.

Undefined operations are actions, not assumptions. `UseUndefined` (a session
deleted under the thread that uses it, or one without locks yet) and
`DisconnectNothing` (`getSession` returned `nullptr`, which
`onClientDisconnected` uses unchecked) and `AcceptDuringLookup` (`addSession`
appends to the two static vectors of the table while the processor reads them in
`getSession`, without a lock) lead to the pc `"failed"`, where the model says
nothing more. All three are reached in the runs, and no property or theorem
claims that they do not happen: invariants hold up to that point.

Abstractions: message texts become kinds (`Kinds`). A send may lose its
message: the code ignores its result. Descriptors are reused lowest first, as
slots are, so no variable is kept for them. A close that sets none of the errno
values `handleClient` tests for is only logged, so `HangUp` need not happen.
Clients LOGON first and once and LOGOFF last, as the test harness does;
anything else may be lost, malformed or cut off at any time. Two workload
parameters restrict a run: `BatchSize` is 1 when the receive cache is off, and
`QuietReconnects` says that no slot is reused while an order or a report of its
last client is alive. `MaxConnections`, `MaxSent`, `MaxUnread`, `MaxFills` and
`MaxRestarts` are bounds.

### FixReceive

One connection. `arrived` is what the socket has got, `read` what `recv` has
handed out, `buffer` the contents of the cache, `delivered` the messages given to
`processMessage`. Messages have any lengths: `EndOf[k]` is where the k-th ends. A
byte is its place in the stream; the parser looks for the
start `8=` (also the end of `38=`, `98=` and `108=`, hence the constant `Eights`)
and for the delimiter after the checksum, and these are all a byte keeps.
`ReceiveWithCaching` is `handleClient` with the cache: `recv` into the rest of
the buffer, `parseMultipleMessagesFromBuffer` from its first byte, and the move of
what remains to the front. `Parsed` is the loop of the parser, byte by byte. The
move is a `memcpy`: when more remains than lies before it, source and destination
overlap (`Overlaps`) and the copy may come out wrong.
`ReceiveHeader` and `ReceiveBody` are the two `recv` calls of
`FixSession::receive`, which is out of step once it has read less than a message.
A first read that ends with the `3` of `35=` compares a byte that was not received
with `5`, and may go either way. After a bad copy or a short read (`garbled`) the
model says no more. `OtherCallFails` is errno, which
`checkErrors` asks although a successful `recv` does not set it.

### ServerLifecycle

The six threads and what they wait for: `gateway` is the caller of
`CentralOrderBook` (the reactor thread in FIX mode, main in OFFLINE mode), with
`Receive`, `ReceiveUnsupportedSymbol`, `PushAccepted`, `SubmitTask`,
`ReactorEnds`, `LastOrderSubmitted`; the workers `WorkerLoop`, `WorkerPop`,
`WorkerPush`, `WorkerDone`; both of these, on an outgoing queue, `LoadTail` and
`TryPushFails`, with `pushing` and `raced` as in `MatchingEngine`; the processor
`ProcessorCheck` and `ProcessorVisit`, which asks for
its flag once per round; the command line `Display`, `DisplayDone`, `Quit`,
`CliEnds`; main `MainLoop`, `StopReactor`, `JoinReactor`, then the destructors
`DestroyCli`, `JoinCli`, `DestroyProcessor`, `ShutdownPool`, `JoinWorkers`.
Orders and reports are counted only: what they say is in `MatchingEngine`.
`flag` holds the atomic flags, `destroyed` the objects that are gone.

main owns the server through `unique_ptr<ServerBase>` and `ServerBase` has no
virtual destructor: only the three members of `ServerBase` are destroyed, in
reverse order, and `~ServerFix` never runs. `~Actor` joins only an actor that was
not told to end before. So after `quit` the command line thread is not joined,
and the message buffer of the processor is freed before its thread is joined;
the model has both windows (`destroyed`) and no property denies them.

### Logger

`next` and `tail` are the list, `lock` the spin lock, `producer` the position of
each thread in `push`, `current` the node the logger thread walks to, `file` and
`written` the mapped file. `push`, `isEmpty` and `flush` are modelled store by
store. `linked` and `log` are history variables: the entries in the order in which
they were linked, and as they were written. Start-up and the copy to the terminal
are left out; lines are assumed to be no longer than a file, which the code does
not check.

## 3. Runs

| Run | Instance | Shows |
| --- | --- | --- |
| `book` | 1 symbol, 1 client id, 3 orders of all three sides, 1 cancel, prices 1.5 and 2, quantities 1 and 2, queues of 1 | `TypeOK`, `BookUncrossed`, `PriceTimePriority`, `NoOverfill`, `FillsNearClientLimit`, `SharesConserved`, `ClientsKnowTheBook`, `ImplementsLifeCycle` |
| `progress` | 2 symbols, 2 orders of all three sides, 1 cancel, queues of 1 | `EveryOrderAnswered`, no deadlock |
| `cancel` | 1 order, 1 cancel | violation of `CancelOfRestingOrderSucceeds` |
| `ring_spsc` | 1 producer, capacity 2, 12 messages, 3 bit int | `TypeOK`, `NoSlotRace`, `ImplementsQueue`, `EverythingDelivered` |
| `ring_producers` | 2 producers, 2 messages each, no wrap-around | violation of `NothingLost` |
| `session_numbers` | 1 client, 2 connections, 4 messages (LOGON, LOGOFF, HEARTBEAT, ORDER, one that is rejected), batches of 2, any reuse of slots, 1 restart | `TypeOK`, `NumbersNeverRepeat`, `CleanClientsNotRefused`, `SlotsAgree`, `ThreadsReturn` |
| `session_quiet` | 2 clients, 2 connections, 2 messages each (also malformed ones and ones for another target), 1 fill, quiet reconnects | `ReportsReachTheirClient` |
| `session_reuse` | as `session_quiet`, LOGON and ORDER only, any reconnects | violation of `ReportsReachTheirClient` |
| `server` | both modes, 2 symbols, 2 messages, 1 match each, queues of 1 | `TypeOK`, `BookOutlivesItsUsers`, `ServerEnds`, `QueuesDrain` |
| `logger` | 2 threads, 2 entries each, lines of 1 and 3, files of 5 | `TypeOK`, `LogInOrder`, `LinesFit`, `EntriesWritten`, `ShutdownReturns` |
| `receive` | both ways of receiving, 4 messages of 5, 4, 7 and 4 bytes, two of them with a second `8=`, cache of 11 | `TypeOK`, `DamageIsConfined`, `MessagesGetThrough` |
| `receive_split` | the cache only | violation of `MessagesArriveWhole` |

Why the bounds are enough. Three orders give a partial fill followed by a
second fill and an order that waits behind another; two prices give better,
equal and worse, one of them with decimals; two quantities give larger, equal
and smaller. All orders have one client id, so that a cancel finds several, on
one side or on both; that ids may also differ is covered by the proofs. Queues of
one place make every push wait, and are the hardest case for back pressure. In
these runs pushes of reactor and worker overlap in some behaviours and not in
others. Twelve messages take 3 bit counters through a complete wrap-around. What larger instances would add to these runs is covered by the
proofs.

For the sessions, two connections of one client give save, restoration and use
of the restored numbers, before or after a restart, with reports still coming
for the first connection. Sequence numbers belong to one comp id, so a second
client adds nothing there. Batches of two reach the undefined operations (a
batch that goes on after its session was removed): numbers and tables are right
up to that point. Two clients and two connections give the reuse of a slot by
another client. Lock contention needs one session only: the reactor
takes the session lock and then the send lock for a business reject, the
send lock alone for a LOGON, a heartbeat or a LOGOFF, and the session lock for a
disconnection, each against a report for which the processor takes both.
A client that sends a malformed message or one for another target is not clean, so
that such messages are left to `session_quiet`.

In `server` two messages are enough for the waits: the gateway for the work queue
of a symbol, gateway and worker for its outgoing queue, at the same time or while
the other symbol is served; two workers show that all of the pool is joined. Pushes
of gateway and worker overlap in it too. In `logger` two entries per thread give a list of
two, a push during the walk and a flush after one; lines of 1 and 3 in files of 5
end before, at and beyond the end. In `receive` four messages give a cache
that is full in the middle of a message and a message after a damaged one; a
longer message after a short one makes the move to the front overlap; reads of
every length at every point are included.

These runs, except those of the matching engine and the ring buffer, say
`CHECK_DEADLOCK FALSE` because clients may stop sending for good and the server,
or the logger, comes to its end; that the threads do not wait on each other is
`ThreadsReturn`, `ServerEnds`, `QueuesDrain` and `ShutdownReturns`.

### What the properties leave out

* Reports: `ClientsKnowTheBook`, `ImplementsLifeCycle` and `EveryOrderAnswered`
  hold as long as no two pushes to the outgoing queue overlap, and the first two
  are about orders of a side the book knows. `NoOverfill` and
  `FillsNearClientLimit` look at the reports in a queue up to the same point, and
  `NoOverfill` at the books always. The code does not prevent the overlap; the
  properties say that nothing else goes wrong with reports.
* `FillsNearClientLimit`: a price tag is read with `std::stol`. A buy order is
  never filled above its limit; a sell order at 1.5 rests at 1 and may be filled
  there, less than one unit below its limit, never more.
* `NumbersNeverRepeat`, `CleanClientsNotRefused`: about clean clients only, see
  FixSessions above. For a client that is still logged on when the process ends,
  or that `stop` gave older numbers, the code makes no promise.
* `ServerEnds` has three exceptions, all reached by the model: a worker that still
  has a report for a full queue when the processor has already ended spins for
  ever, and main joins it (`Stuck`); and when the reactor thread fails, on an
  order for a symbol that is not configured, main waits in `~Actor` until the
  operator types `quit`; and a queue to which pushes have overlapped may keep
  gateway or worker in `push` for ever. `QueuesDrain` excepts the same queues, but
  not the other ones.
* `ThreadsReturn` ends with an undefined operation (`"failed"`).
* `EntriesWritten` excepts a logger that is being shut down: `isFinishing` is
  asked after the walk, and entries pushed since the flush are dropped.
* `DamageIsConfined`, `MessagesGetThrough`: except for a message whose first byte
  the cache dropped, for `receive()` out of step, for a cache whose copy overlapped
  and came out wrong, and for a connection that `checkErrors` closed because of an
  errno left by another.

### The four violations

* `cancel`: `convertCancelOrder` never reads the side and `Order::Order()`
  leaves it uninitialised; `find` searches the side that happens to be in
  memory, and the cancel of a resting order is answered "could not be found".
* `ring_producers`: the queue of outgoing messages has two producers. They can
  load the same `m_write` and overwrite each other's message. `MatchingEngine`
  and `ServerLifecycle` have the overlap (`raced`) and claim nothing about a queue
  after it.
* `session_reuse`: an order remembers the slot of its session and outlives it
  (cancel on disconnect is "Always off"). The next client in that slot receives
  the reports. `session_quiet` shows that reuse is the only way to get there.
* `receive_split`: after the last complete message of the cache exactly one byte
  remains. `FixReceiveCache::parse` compares the index of the last remaining byte
  with that of the first and keeps the rest only if it is greater; they are
  equal, and the byte is dropped. It is the `8` of the next message, which is
  lost, or starts at a later `8=`.

### Fairness

`MatchingEngine` assumes weak fairness of the reactor once it has received a
request, of each worker and of the processor on each queue: each is a thread
that runs a loop without blocking calls other than the spinning pushes, and the
processor visits every queue in every round. Nothing is assumed about clients,
and nothing about reactor and workers once two pushes to an outgoing queue have
overlapped.
`RingBuffer` assumes weak fairness of each producer and of the consumer, which
spin. `ServerLifecycle` assumes weak fairness of every thread; messages and
commands may or may not come, and the operator may never type `quit`. After an
overlap `TryPushFails` stays possible on the damaged queue, so that a push to it
may go on for ever in spite of fairness.
`FixReceive` assumes weak fairness of `HandleClient`: epoll reports a readable
socket again and again.
`FixSessions` assumes weak fairness of the reactor inside a handler and of the
processor, whose next step may be an undefined one. Nothing is assumed about clients, about new connections or about
readiness of sockets. The locks are spin locks without queueing, so a thread
could lose every race for one against unbounded traffic; the result is for
bounded traffic, where it shows that no lock is kept and no cycle of waits
exists.
`Logger` assumes weak fairness of the logger thread and strong fairness of `push`
in each thread: a thread that spins for the lock finds it free again and again,
because the logger thread sleeps between two flushes without holding it. This is
the only strong fairness in the project.

## 4. Proofs

TLAPS checks every theorem below. A theorem is about `Spec` with all constants
left open, under the `ConstantsAssumption` of its module; the hypotheses some
theorems add are named. Each inductive invariant was first checked by TLC on
small instances, as an invariant of the same specification.

**MatchingEngineProofs**, from `ConstantsAssumption` only (capacities at least
one, positive quantities, natural prices), for any sets of symbols, sessions and
client ids, any bounds on orders and cancels and any capacities:

* `TypeCorrect`: `Spec => []TypeOK`. `CancelInv` is needed: a worker that
  cancels has its report in `pending`.
* `NeverCrossed`: `Spec => []BookUncrossed`.
* `PriorityRespected`: `Spec => []PriceTimePriority`.
* `NeverOverfilled`: `Spec => []NoOverfill`.

They hold with or without overlapping pushes. The last three share the inductive invariant `IInv`. `BookUncrossed` follows
from types alone: only the returning round of the loop leaves the matching
state, and it has compared the first orders of the two sides. Price-time
priority is stated in the order of *acceptance* by the reactor, while a
multimap knows only the order of *insertion* by the worker. `IdInv` closes the
gap (ids rise along reactor, work queue and book: the work queue is FIFO and
ids are drawn by one thread) and gives `ArrivalInv` (insertion order is id
order within a side). Then the order that trades was accepted before every
order of its side with as good a price (`FirstIsOldest`). `NoOverfill` needs
`QuantityInv`, which follows each order through reactor, work queue, book,
`pending` and `out`, and `SideInv`, because the limit test depends on the side.

**MatchingReportsProofs**, about what the processor takes from the queues:

* `ReportsAgree`: `Spec => []ClientsKnowTheBook`.
* `ReportsFollowLifeCycle`: `Spec => ImplementsLifeCycle`, the refinement of
  `OrderLifeCycle`, step by step.
* `FillsStayNearLimit`: `Spec => []FillsNearClientLimit`.
* `SharesNeverLost`: `Spec => []SharesConserved`.

None of them has a hypothesis; what they leave out is in the properties. The first
two speak of symbols to whose outgoing queue no two pushes have overlapped
(`raced`) and of orders that are a buy or a sell: `order_book.cpp:81` puts any
other side among the asks, where a cancel does not find it again.
A report, the standing of an order and the view of a client are reduced to the
same four fields (id, status, quantity, executed). For each symbol, `T` is what
its orders have come to (in the work queue, in the book, gone) and `A` what the
reports on their way say. `Coherent(A, T, v)` relates both to the view `v`: one
standing per order (`Unique`), no report says more than the order has come to
(`Bounded`), what it has come to is said or on its way (`Told`), no report is
behind what was said (`Ahead`), ACCEPTED is said first (`AcceptedFirst`), and a
CANCELED report repeats the quantity of the report before it
(`CanceledAsSaid`). The first four give the agreement when the queues are empty,
the last two the steps of the life cycle. The lemmas on `Coherent` argue about
these sets alone; the steps of the model are then shown to be moves between
them. `PriceInv` does the same for the prices: an order never has a price worse
than the decimals that reading it as an integer drops.

Conservation needs that a book holds an order once and none that has left it
(`OnceInv`) and that the orders it knows are finitely many (`FiniteInv`): a trade
then replaces one buyer and one seller by the same orders with the same quantity
more, an insertion adds an order that has not traded, and a cancel only moves one
(`KnownNext`). The sum is a fold over a set. The induction theorems of the library
cannot be used for it, so that it exists (`AddsExists`), does not depend on the set
around it (`AddsAgree`) and may start with any element (`SharesRemove`) is proved by
a least counterexample, the smallest cardinality for which it fails.

**RingBufferProofs**, for one producer and for a capacity that divides the
range of int and of `size_t` (`RoundRobin`), for any number of messages, also
after wrap-around: `SpscNoSlotRace` and `SpscImplementsQueue` (the refinement of
`BoundedQueue`). The inductive invariant `SpscInv` relates the counters, modulo
their range, to the number of messages sent and received. `RoundRobin` is
needed: with a capacity that does not divide 2^32 the slot index jumps when an
int counter wraps around, after 2^31 messages. The default of 1024 in
`src/bin/liteExchange.ini` satisfies it; the class accepts any capacity.

`TypeCorrect` (`Spec => []TypeOK`) holds for any number of producers and any
capacity: also with several producers, where messages are lost, the index stays
inside the array. `CountInv` bounds what a producer may still send.

**ServerLifecycleProofs**, for any number of symbols, any capacities and any
number of messages and matches: `TypeCorrect` (`Spec => []TypeOK`, which bounds
both kinds of queue) and `BookDestroyedLast` (`Spec => []BookOutlivesItsUsers`).
The latter needs to know what main has waited for at each place: `GatewayInv`
(the gateway has ended before main comes to the destructors, be it by the join,
by its failure, or because main is the gateway), `CliInv` (the command line may be
left unjoined only when it is already past its last use of the book, because its
flag is raised by `quit` or by the main thread that then joins it), `ThreadsInv`
(processor and workers) and `BookInv` (the book goes with the last step of main).

**LoggerProofs**, for any set of producers, any number of entries, any
lengths of lines and files that the assumption admits: `TypeCorrect`,
`WrittenInOrder` (`LogInOrder`) and `LinesStayApart` (`LinesFit`). `LockInv` is mutual
exclusion by the spin lock, and `LinkedInv` ties what is linked to the counters
of the producers. The list itself is described by the number `f` of entries
that flush has taken: `Chain(f)` says that `m_head` leads to the other entries
and each node to the next one up to the end of its part, `TailInv(f)` where
`m_tail` is, also between the two stores of a push and of a flush, and
`WalkInv(f)` where the logger thread is in what it took. `FileInv` says that the
lines of the current file end before the next one begins.

**FixSessionsProofs**, for any number of clients, connections, messages, batch
sizes, reports and restarts:

* `TypeCorrect`: `Spec => []TypeOK`.
* `TablesAgree`: `Spec => []SlotsAgree`.
* `OneThreadAtATime`: `Spec => []SessionsExclusive`. Reactor and processor never
  hold the lock of one session together, nor are both between transmission and
  increment.
* `ReportsStayPrivate`: `Spec => []ReportsReachTheirClient`, if
  `QuietReconnects`. Without it the run `session_reuse` shows the violation.

The first three share the inductive invariant `IInv`: the tables are equal and no
connection has two slots (`TableInv`), a connection not yet accepted is
untouched (`FreshInv`), a session has the socket of its own connection except
between addSession and the end of onClientConnected (`TcpInv`), each thread
keeps to one session from lookup to unlock (`ReactorInv`, `ProcessorInv`), the
orders remember slots of the table (`OriginInv`), and who holds which lock
(`LockInv`). That both classes pick the same slot is proved from the fact that a
set of free slots has a least element. `OwnerInv` adds that the slot an order
remembers still belongs to its client. All of them hold up to an undefined
operation, after which the state does not change.

**FixNumbersProofs**, on top of `IInv`, without `QuietReconnects` and for any
`BatchSize`; what a clean client is, is part of `FixSessions`:

* `NumbersIncrease`: `Spec => []NumbersNeverRepeat`.
* `CleanClientsServed`: `Spec => []CleanClientsNotRefused`.

Both are ends of one inductive invariant, `NumbersInv`, because neither stands
alone: a client is not refused because its file counts what it has sent, its file
does so because its session was saved after the last of its messages, and that is
so because the server has refused none of them. `CleanInv(c)` follows one clean
client. `Unread(k)` is what the server has not counted yet, partly in the socket
and partly in the batch of the reactor. The parts:

* `ConnectionInv`: the server closes a connection of `c` only after its LOGOFF.
* `QueueInv`: the unread messages start with LOGON if none was processed, end with
  LOGOFF if at all, and have consecutive numbers from the one after the last
  counted to the last sent. So the message at hand always passes validation.
* `AnswerInv`: the reactor is at the session of `c` for the reason it should be;
  when it disconnects, nothing of `c` is unread.
* `QuietInv`: before LOGON nobody else sends over the new session. This is where
  the slot free of older orders is needed: a late report would be numbered from 1.
* `SeenInv`: what was seen is below what comes next, which is the number in the
  session or, between connections, in the file; between `Transmit` and `Increment`
  it may be equal, which the send lock makes safe.
* `Ahead`: a session is ahead of the file by the answers to LOGON and to LOGOFF, so
  that saving never sets the file back.
* `OverInv`: at most one session of an earlier connection has the numbers of the
  file (`Latest`), the others are behind (`Stale`). It is needed for `stop`, which
  saves sessions that are long over; the report that the processor may still number
  in such a session (`Coming`) is why the bounds are not equalities.

The rest of `NumbersInv` is about all clients: comp ids (`CompInv`), links
(`LinkInv`), batches (`IdleInv`), empty inboxes of connections to come (`BoxInv`)
and failure of both threads together (`FailedInv`).

**FixReceiveProofs**, from `ConstantsAssumption` (a cache that takes every message,
a header shorter than a message, a first byte that is an `8=` and a last one that
is not), for messages of any lengths, any places of `8=` in them and any cuts that
TCP makes in the stream:

* `TypeCorrect`: `Spec => []TypeOK`.
* `DamageConfined`: `Spec => []DamageIsConfined`.

The inductive invariant `IInv` says where in the stream the session is. `Start` is
the first byte that is neither delivered nor dropped. The cache holds the bytes
from `Start` to the last one read (`BufferInv`); `Start` is the first byte of a
message or lies in a message known to be decapitated (`StartInv`); what is
delivered are ends of messages before `Start`, whole unless decapitated
(`PiecesInv`), in order (`OrderInv`). `CutFacts` is the heart: a message that is
complete in the cache begins at its own first `8=` if that is there, and never in
the message before. What the parser's loop computes is proved by a least
counterexample (`LoopExists`, `ParserFinds`), which takes the place of induction;
`AfterParse` says what the move to the front keeps.

Only model-checked: the liveness properties `EveryOrderAnswered`,
`EverythingDelivered`, `ThreadsReturn`, `ServerEnds`, `QueuesDrain`,
`EntriesWritten`, `ShutdownReturns` and `MessagesGetThrough` (liveness under
fairness and `ENABLED` are beyond the prover).

## 5. Plan

Done: the matching engine, the ring buffer, the sessions with crash and restart,
receiving, the logger, the life cycle of the server. Left:

* A second LOGON on a connection in `FixSessions`, which reloads the numbers of
  the last disconnection.

## 6. Not modelled

* Sockets and the epoll and select listeners: wrappers of system calls. What
  `recv`, readiness and errno give the callers is in `FixReceive` and
  `FixSessions`.
* Singletons: created by main before there are other threads.
* Start-up: creation, naming and pinning of threads, filling of the table of
  securities, reading of the configuration; all happen before a thread that
  could interfere exists.
* Loading of orders from and writing of results to files in OFFLINE mode, the
  display of books, and the text of FIX messages, reports and log lines: no
  property is about them.
* Memory pools, string, file and platform utilities: no protocol state.
* Single threaded mode: see `MatchingEngine`.
* The thread-per-client server: not used by the exchange.
* The unit tests, the test harness and the vendored Google Test.

The map of definitions to lines covers the control of the modelled components.
It is a small share of the repository, because about 27,000 of its 37,000 lines
are Google Test and most of the remaining 10,000 are platform code, wrappers of
system calls, tests and text.
