# A verification of cpp-webserver-eventdriven

These modules model the event-driven web server of this repository in TLA+.
TLC checks them on small instances, and TLAPS proves their safety properties for
every instance. `PROJECT.json` lists the components, the runs,
what each definition stands for in the source, the hazards and the theorems.

    tlc -workers 2 -config WebServerTLS.cfg MCWebServer     # one run
    tlapm ServerProofs.tla                                  # one module of proofs

## 1. The system

A process runs one `HttpServer`. `HttpServer::Boot` creates a `Server`, which
owns the listening socket, a channel (`NormalChannel` for TCP, `SecureChannel`
for TLS) and a `MemoryPool` of `SocketContext`s, and never returns from
`Server::HandleConnections`: one thread waits in `kevent`, takes a batch of at
most 32 notifications and handles them one by one. A notification of the
listening socket is a new connection; one of a connection is a read, which ends
in a call back into `HttpServer::OnClientMessage`.

| component | state | operations | what makes it correct |
|---|---|---|---|
| `MemoryPool` | `_blocks` (free blocks), `_allocated`, a mutex | constructor, `GetMemory`, `Release`, `Clear` | a block has one user; a limited pool neither exceeds its limit nor refuses below it; blocks are retained |
| `ConcurrentHashMap` | 1031 buckets, each a list under a shared mutex | `Find`, `Insert`, `Erase`, `Clear` | each call takes effect at once, for readers and writers of the same and of other keys |
| `ThreadPool` | `tasks`, `stop`, the workers, a mutex and a condition variable | `enqueue`, the worker's loop, the destructor | every task accepted is run once, before the destructor returns; no lost wake-up |
| `EventEngine` | registrations in the kernel | `RegisterEvent`, `GetFiredNotifications`, `DigestEvent` | a notification names a context that is still in use when it is handled |
| `Server` | the socket, `running`, the pool of contexts | `Setup`, `Boot`, `Terminate`, `HandleConnections` and the handlers | the tables that name a connection agree; nothing leaks; clients are served; it listens as configured and closes only what is its own |
| channels | a pool of read buffers, the TLS objects | `AcceptConnection`, `Read`, `Write`, `DisposeConnection`, `Terminate` | a `Read` returns what was sent, in order, and returns; a `Write` sends the whole response |
| `HttpServer` | `_connections`, `_lastConnection` | `Boot`, `Terminate`, the three callbacks | each request gets one response; `Connection: close` closes; `Terminate` disposes of each connection once |
| `HttpRouter` | `_routes` | `AddRoute`, `GetHandler` | a request is given a handler that was added for its path, and one whose route is undisputed is found |
| `HttpParser` | none | `RequestFromBuffer`, `BufferFromResponse` | what a client sent is what the handler sees, but for what the parser cuts off a header |
| `SocketOptionBuilder` | a `ServerConfiguration` | the `With` methods, `Build` | the server that boots is the one configured |
| `NetUtils` | none | conversions | - |
| `TlsDecorator` (client) | a mutex, two buffers | `Connect`, `SendData`, `ReceiveData` | unfinished, nothing calls it |
| `Timer`, `DynamicLibrary`, `File`, `Logger`, `Format` | - | I/O | - |

How they interact: `HttpServer` registers callbacks with `Server`; `Server`
calls the channel, the pool, `EventManager` and the callbacks; a
`SocketContext*` travels through the kernel as the `udata` of a registration
and comes back in a notification.

What is hard about it: a batch is collected before the handlers of its first
events change the tables its last events refer to; four tables (descriptors,
registrations, `_connections`, the pool) are changed one after another;
descriptors and contexts are reused at once; readiness is level-triggered
(registrations have no `EV_CLEAR`, whatever `src/README.md:59` says of
"Edge-triggered readiness notifications"), so what is not handled comes back; every failure of a call (accept, allocation,
parsing, a missing header) takes its own way through the handlers; one thread
serves everybody, so that a read that does not return stops everything; a
`Terminate`, of which there are two, runs in the middle of a batch or beside it;
a descriptor is a number that belongs to somebody else as soon as it is closed;
reads and writes have fixed buffers, that are treated as C strings; and the
allocators, the map and the thread pool are shared between threads.

## 2. The modules

| module | models | builds on |
|---|---|---|
| `BlockPool` | what the users of a memory pool may rely on (abstract) | |
| `MemoryPool` | `MemoryPool.cpp` on a heap that may fail | implements `BlockPool` |
| `EventEngine` | kqueue's registrations, `EventManager`, `EventHandler` | |
| `WebServer` | `Server`, both channels, `HttpServer`'s callbacks, clients and network | extends `EventEngine`, uses `MemoryPool` for its contexts |
| `Shutdown` | `HttpServer::Terminate`, called by a handler or after the loop has died | extends `WebServer` |
| `Lifecycle` | `SocketOptionBuilder`, `Server::Setup`, `Boot`, `Terminate`, `SecureChannel`'s constructor and `Terminate`, on two threads of a process with others | |
| `Channels` | `Read` and `Write` of both channels and `BufferFromResponse`, by bytes | justifies the segments of `WebServer` |
| `HttpService` | `HttpParser`, `HttpRouter`, and what `HttpServer` does with a handler | |
| `Executor` | what the users of a thread pool may rely on (abstract) | |
| `ThreadPool` | `ThreadPool.hpp` | implements `Executor` |
| `AtomicMap` | a map whose operations are atomic (abstract) | |
| `ConcurrentHashMap` | `ConcurrentHashMap.hpp` on linked nodes | implements `AtomicMap` |
| `MCWebServer`, `MCShutdown`, `MCConcurrentHashMap`, `MCHttpService` | symmetry sets, a client that stands for all, and a hash function for TLC | |
| `MemoryPoolProofs`, `ThreadPoolProofs`, `LifecycleProofs`, `ConcurrentHashMapProofs`, `HttpServiceProofs`, `ChannelsProofs` | the proofs about the module each is named after | |
| `ServerProofs` | the proofs about `WebServer` and `Shutdown` | uses those of `MemoryPool` for the contexts |
| `SequenceLemmas` | what the proofs need about sequences, and least and greatest numbers | |

A definition commented `mutant` is not part of a specification: it is the
definition after it with a plausible bug, and shows that a property notices the
bug.

### MemoryPool

Every call holds the mutex, so a call is an action. `blocks` is the vector,
last element first out; `held` is what callers have, which the pool itself does
not know. `GetMemory` reuses or allocates; `GetMemoryBadAlloc` is the call whose
`new` throws after `_allocated` was incremented; `Release` pushes, or, when
`push_back` throws beyond the vector's reserve, deletes. `new` may return any
address that is not in use, one that was deleted before included. The
constructor's assertion is part of `PoolAssumption`; `Init` is a constructor that
succeeded, since of one that throws there is no pool. Callers release only what
they hold: the pool does not check it, and `WebServer` has to show that it is so
(`PoolDiscipline`). `Allocated` and `Available` read without the mutex and are
used by no code; `Clear` runs only in the constructor and the destructor.

### EventEngine and WebServer

One thread runs the server, so everything between two system calls that a
client can notice is one action:

| action | code |
|---|---|
| `GetFiredNotifications` | one return of `kevent`: a batch of ready sockets in any order, cut at `MaxEvents` |
| `HandleServerEvent` | `DigestEvent`, `HandleNewConnectionEvent`: allocate a context, accept, tell HttpServer, register |
| `HandleConnectionEvent` | `DigestEvent` and the switch of `HandleConnections` |
| `Read` | one pass of the loop in the channel's `Read`, one `recv` or `tls_read` |
| `HandleMessageEvent` | from the end of `Read`: parse, respond, look at `Connection` |
| `CloseOnRequest` | `HandleDisconnectionEvent` at the end of `OnClientMessage` |
| `Connect`, `Send`, `Finish` | the clients |

State: `peer` (the descriptors of the process), `knote` (the kernel's
registrations), `connections` (`_connections`), the pool's variables and `ctx`
(the memory of the contexts) are the tables that name a connection. `inbox` is
what a client sent and the server has not read; `events`, `current`, `message`
are the locals of the loop. A context keeps its contents when it is released,
as memory does, so that a stale pointer would read old or new contents and not
an error.

What a client sends is a sequence of segments of a few kinds (see the module's
header); a read returns one of them. Modelled as they are: `accept` gives the
lowest free descriptor; a failed `accept` goes on with -1 and leaves a context
and an entry under -1 behind (`Phantoms`); `EV_EOF` is overwritten by the
filter; over TCP a read goes on until `recv` returns -1, so that segments which
arrived together are parsed as one request and an ended stream is read for
ever; over TLS it repeats `tls_read` until there is a record or the end; the
buffer is appended as a C string before anything was ever written to it, so
that the first read of all may return bytes nobody sent (`Residue`); exceptions
after the response do not take it back; a failure to allocate a context leaves
`HandleConnections`.

`DeleteEvent` is the overload of `RegisterEvent` for a descriptor without a context.
On Linux it gives `kevent` room for one event and no timeout
(`EventManager.cpp:31`; the macOS file passes 0), so the call that deletes a
registration also waits, and returns only when some other socket is ready, whose
event it drops. That event is not lost, being level-triggered. A server that
closes a connection therefore stands still until another client sends or
connects, and for ever if none does. The event goes to a null event list, which
libkqueue, whose submodule is empty here, is taken to put up with: a failure would
only be traced. A deletion that fails, of a connection with the descriptor -1,
returns at once.

`DigestEvent` for a write or for a "Weird" event is in the model but cannot
happen: the server registers reads only.

### Shutdown

`HttpServer::Terminate` walks from the descriptor of the connection accepted last
down to the server's own and disposes of what `_connections` has under each
number. It runs on the loop's thread, inside `OnClientMessage`, when a handler
calls it, and on the thread that called `Boot` when an exception has ended the
loop; `MayTerminate` has these two. `TerminateNext` is one turn of its loop
(`HandleDisconnectionEvent` is `WebServer`'s, with its wait for another socket, in
which `Terminate` may stay for ever), so that clients may act between two of them. `walk` is its index, a U32: the entry a failed `accept` left under
-1 is under the largest number of all (`Top`), from which the walk comes down
when the last connection was such a one.

What makes it hard is what comes after. The rest of the batch names connections
that are closed, through contexts that were released. Over TCP the descriptor in
such a context is closed, and the read fails (`ReadClosed`), or an accept of the
same batch was given it, and the read takes what the new client sent. Over TLS
`tls_read` is given a null pointer (`TLSGone`, `outcome = "crashed"`). The handler
that called `Terminate` still has a request to answer (`RespondAfterTerminate`). A
response for a context that was released (`RespondReleased`) goes nowhere, or to
whoever has the descriptor now, and over TLS through a null pointer;
`Connection: close` (`CloseAsked`) disposes of the context a second time
(`DisposeTwice`) and closes the descriptor under whoever has it, after which the pool would give one
context to two connections (`outcome = "spoilt"`, where the model stops). `Terminate` neither stops the loop nor closes the listening
socket, so clients come back (`Reconnect`), are accepted in the order of the
backlog and served.

### Lifecycle

The thread that builds, sets up and boots the server is `pc`; `Terminate` is
`term`, on another thread, or, when a delegate of the loop called it, on the
same one (`byLoop`, which keeps `Main` still until it returns). Each of its four
statements is an action, and so is every system call of `Setup` and `Boot`.
`file` is the descriptor table of the process, in which other threads open
files and sockets and close them: a number the server has closed is the next
that `open` gives out, and a second `close` of it closes another thread's file
(`foreign`). `sock` is the socket behind the server's number, whoever made it.

As in the code: a refused option closes the socket and is reported as a success
(`SetSocketOption` returns `optval`, which is 1), so that `Setup` and `Boot` go on
with a number that is not theirs any more; that `socket` failed is not noticed
until `bind` fails; a `bind` or `listen` that fails closes the socket and throws,
after which `Terminate` closes the number again; a `Terminate` that comes before
`running` is set is overwritten by `Boot`; `accept` after `Terminate` has freed the
TLS object is given a null pointer (`crashed`).

`Boot` registers the listening socket with the overload that waits, so it does not
start the loop before the first client is there (`RegisterReturns`), and
`Terminate`, which deletes that registration, waits for a connection with
something to read (`UnregisterReturns`).

Of the loop there is only what `Terminate` meets: it collects and handles
notifications, accepts, and reads.

### Channels

The bytes a client sends are numbered, so that a message shows which of them it
holds and in which order; some are NUL, and `Junk` is memory that nobody has
written. A pass of `Read` puts at most a block of bytes at the beginning of the
channel's buffer, appends the buffer as a C string, and clears it. `NormalRead`
does so until the socket is empty, `SecureRead` once: what is left of the record
stays in `pending`, inside the TLS object, and is read when kqueue reports the
connection again, which it does for the socket only. `Write` gives the
response, its size cut to sixteen bits, to the socket or the TLS object and looks
at nothing it returns.

`delivered`, `cut`, `filled`, `torn` and `oversize` are history variables; the last
three say when a property's excuse applies.

### HttpService

`RequestFromBuffer` works on the lines of a request, `split` having dropped the
empty ones. The blank line after the headers is dropped too, so the parser
tells a body from a header by the method. `get_right_of_delim` drops the colon of a
header and one character more, whatever it is: `gap` is what the client wrote between
the colon and the value, and `left` what becomes of the value, `"whole"` after one
space, without its first character (`"cut"`) when there is none, so that `Connection:close`
reads `lose`, and with a space before it (`"spaced"`) after more. An empty value without
a space makes the parser throw. `_routes` is a map of maps, and
looking something up inserts it. `Conventional` requests are those with the body
their method makes the parser expect, and a line of a body that is empty would
be dropped. A handler may add routes, return with any
status, or throw; the four ways give the three statuses `GetReadableStatusCode`
can write, or no response. `log` and `sent` are history variables for the
properties; `request` and `sent` end with the call.

The repository does not say with one voice what a route is. The router serves a
route without a method for GET, POST, PUT and DELETE, where `src/README.md:117` says
that it "defaults to GET"; a second route for a path replaces all of the first if it
has a method and is ignored if it has none, where the TODO at `HttpRouter.cpp:22-25`
wants the method added, or denied if it is there; a lookup inserts the path, after
which a route without a method is ignored, of which nothing speaks. `RightHandler`
takes none of these for the specification. It asks that a handler was added for the
path of the request, and for its method or without one, and that a handler is found
where router, comment and README agree that it should be (`Undisputed`).

A request whose parsing is undefined behaviour ends the model
(`phase = "undefined"`), so it is checked without deadlock detection.

### ThreadPool

A critical section is an action. `condition_variable::wait` unlocks and sleeps
in one; `notify_one` and `notify_all` are called after the mutex is released and
are actions of their own, so a worker may look at the queue, or another thread
enqueue, in between. `SpuriousWakeup` wakes a worker for no reason. A worker
that runs a task may enqueue. The model assumes of the callers what C++ does:
nobody calls the pool during or after its destructor except its own tasks, and
no task destroys its pool.

### ConcurrentHashMap

A call is made, takes the mutex of its bucket (`Find` shared), walks one node
at a time, and has its effect as it unlocks. Nodes are at addresses of a heap
and are reused after `delete`, so that a pointer to a deleted node would point
to another node or to nothing. `InsertThrows` is an `Insert` without the memory for
its node: nothing is linked, and the mutex is released. `Clear` takes the buckets one after the other;
inside a bucket it is one action, since nobody else can see the list then.
`TheMap` maps this to `AtomicMap`: the contents are the live nodes, and what a
thread in `Clear` has still to remove are the keys of the buckets to come.

## 3. What is checked

| run | instance | question |
|---|---|---|
| `pool` | 5 addresses, limit 4, reserve 2, heap may fail | `TypeOK`; `NoBlockShared`; `LimitRespected`; `AllBlocksRetained`; `ImplementsPool` |
| `pool_count` | the same with a limit of 2 | is `Allocated()` exact? No |
| `web_tls` | TLS, 3 clients on 2 descriptors and 3 contexts, whole and partial records, half-close, batches of 2, a failing accept | `TypeOK`; `RegistryMatchesKernel`; `NoStaleEvent`; `NoContextLeak`; `DiesOnlyAtLimit`; `PoolDiscipline` |
| `web_tls_serves` | TLS, fair, 2 clients, whole records with and without `Connection: close` and some that do not parse, half-close | `EveryConnectionAccepted`; `EveryRequestAnswered`; `CloseHonoured` |
| `web_tcp` | `Shutdown` over TCP, fair, 3 clients that come back, 2 descriptors above the server's own, a pool of 2, one request at a time, a failing accept | `TablesAgree`; `TerminateClosesUpToLast`; `ReleasedOnce`; `ServedAfterTerminate` |
| `web_finish` | TLS, fair, one client | is a finished connection closed? No |
| `web_partial` | TLS, fair, two clients, partial records | is a client served while another has sent half a record? No |
| `http` | 2 paths, 2 handlers, 5 methods and an unknown one, 4 routes or requests, headers with no, one and more spaces | `HandlerSeesRequest`; `RightHandler` |
| `threads` | 3 workers, 2 other threads, 4 tasks, fair | `TypeOK`; `NoLostWakeup`; `NobodySleepsThroughStop`; `DestructorDrains`; `ImplementsExecutor` |
| `lifecycle` | 2 clients, 3 descriptors, an option set twice, 2 descriptors of other threads, 2 ports, with and without SSL, fair | `TypeOK`; `ListensAsConfigured`; `ClosesOnlyItsOwn`; `FailedBootReleases`; `CollectedWhileOpen`; `LoopStops` |
| `channels` | both channels, a block of 2 bytes, segments up to 3, 4 bytes in all, one of them NUL, responses of 1 to 4 with sizes modulo 4, fair | `InOrderOnce`; `LostOnlyBehindNul`; `JunkOnlyWhenFull`; `OneAnswerEach`; `AnswersWhole`; `EverythingRead` |
| `map` | 2 threads, 3 keys (two in one bucket), 2 values, 3 nodes | `NoDanglingPointer`; `BucketsWellFormed`; `ImplementsAtomicMap` |

The type invariants of `HttpService`, `ConcurrentHashMap`, `Channels` and `Shutdown`
are part of `HandlerSeesRequest`, `BucketsWellFormed`, `InOrderOnce` and `TablesAgree`.

The three runs that answer "no" are the findings in `PROJECT.json`, each with the
line of the code and the sentence of the repository it contradicts:

- `MemoryPool::GetMemory` counts a block before it has it.
- `EventHandler::DigestEvent` overwrites the `Disconnect` of `EV_EOF` with
  `Read`. The connection is never disposed of; it stays ready, and each batch
  reads nothing from it again.
- `SecureChannel::Read` repeats `tls_read` without going back to the event loop
  while a record is incomplete.

What the passing runs show of `Terminate` and of the buffers is often a
property with an exception, and the exception is the code's own:

- `TerminateClosesUpToLast`: connections whose descriptor is above that of the
  last accepted stay open, and so do those below the server's.
- `ReleasedOnce`: but for a request with `Connection: close` for which the loop has
  a context that `Terminate` gave back: its handler called `Terminate` on its own
  connection, or the rest of the batch still named the context and an accept of
  that batch was given its descriptor.
- `ClosesOnlyItsOwn`: but for a refused option and for a `Terminate` when the loop
  does not run; `ListensAsConfigured` has the same two.
- `FailedBootReleases` is about `Boot`; a `Setup` that throws leaves its socket
  open, and has no channel for `Terminate`.
- `CloseHonoured` and `ServedAfterTerminate`: a client that asks for it is let go
  unless the server waits for ever in the `kevent` that deletes its registration,
  with no other client connecting, sending or half-closed. A client alone with the
  server is answered, but its `Connection: close` is never honoured.
- `LoopStops`: if a connection has something to read. With every connection
  silent the loop stays in `kevent`, since `Terminate` has deleted the registration
  of the listening socket, or `Terminate` does, if a delegate of the loop called it.
- `HandlerSeesRequest`: of the values of headers only those written after exactly
  one space, for requests with the body their method makes the parser expect.
- `RightHandler`: nothing of a second route for a method, of other methods on a path
  with a route without one, of the routes a new route for a method takes with it,
  and of a route without a method that comes after a request for its path.
- `OneAnswerEach`: for clients that wait for each answer and whose requests
  arrive in one piece, without NULs. `AnswersWhole`: for clients that wait, too,
  and responses no longer than a `Buffer`, a TLS record and the socket's buffer
  allow.
- `EverythingRead`: but for the rest of a TLS record longer than the block.

### Bounds

- `pool`: a limit beyond the reserve, so that `Release` can fail, and one more
  address than the limit, so that the limit and not the supply of addresses
  stops the pool. `AllBlocksRetained` speaks of pools up to the reserve and is
  checked in the same states.
- `web_*`: two clients are the fewest with which a handler can change what
  another event of the batch refers to; three on two descriptors the fewest
  with which a descriptor is reused by a third while two are in a batch, and
  with which `accept` runs out of descriptors. Two segments for a client are
  the fewest to be pipelined. Each run has the kinds of segments its question
  tells apart: a whole and a broken record, a request that ends its connection,
  one that does not, one that throws. `MaxEvents = 2` cuts batches short
  (the code's 32 never would with so few sockets). `MaxAcceptFailures` bounds
  failures of `accept` other than running out of descriptors. `answered` needs
  no bound: it cannot exceed what was sent, and one more.
- `web_tcp`: two descriptors above the server's own, so that a connection is out
  of `Terminate`'s reach when the lower one was accepted last, and a third client
  that waits in the backlog, so that an accept is given a descriptor the rest of
  its batch still names; two connections exhaust the pool, so that the loop dies
  and `Terminate` is called after it. Clients come back without bound; none half-
  closes, which over TCP would only stop the server. `ServedAfterTerminate` is
  checked for one client: nothing tells them apart. Connections below the server's own
  descriptor, which `Terminate` leaves alone, and TLS are covered by the proofs.
- `lifecycle`: other threads have up to two of three descriptors open at once
  (`MaxForeign`), so that one can hold a number the server has closed while another
  takes the next, and open and close them at any time. Three are enough for the server's socket and both clients, or for less of these and
  files of others. The configuration may set its option twice (`MaxOptions`), so that
  one is set after another was refused.
- `channels`: the block is shorter than the longest record and longer than the
  shortest, so that records fit, fill it, and are left over; four bytes make two
  requests of two passes each, or one record of each kind. `SizeWrap = 4`
  stands for 65536 and the responses reach it; the socket holds less than the
  longest response.
- `http`: four entries of `log` are enough for two registrations of a path, a
  request before or between them, and the request that is checked, in every order.
  A request has at most one header and two lines of body, one more than any method
  expects.
- `threads`: three workers and four tasks, so that tasks wait while one worker
  sleeps, one is about to, and one is notified. Each task is enqueued once.
- `map`: the longest list has two nodes, so that a node before and
  after another is erased; the heap has one node for each key, the most there
  can be; with a smaller one `Insert` could only throw.

`web_tls`, `http` and `map` use symmetry, in safety properties
only: no definition orders or names the members of the sets permuted
(`Handle`, which `accept` orders, and `Key`, which has a hash, are not).

Deadlock is checked for `pool` and `map`. The others may stop: a server whose
clients are done waits in `kevent`, a thread pool without tasks waits, and its
destructor returns.

### Fairness

- `WebServer`: weak fairness of `HandleConnections` as a whole, that is, the
  operating system runs the one thread. It is not assumed of its actions one
  by one, nor of any client or of the order in which events are in a batch.
- `Shutdown`: the same, of the loop and of a `Terminate` that has been called,
  which is on the same thread. Clients do nothing they need not.
- `Lifecycle`: weak fairness of the thread of `Boot` and of the one in `Terminate`.
  Nobody has to call `Terminate`, connect or send.
- `Channels`: weak fairness of the loop; the client need neither send nor read.
- `ThreadPool`: weak fairness of each worker's step, of each thread that is
  about to notify, and of the destructor once called. Nobody has to enqueue or
  destroy; a spurious wake-up need not happen. That every started task returns
  is an assumption on the callers' code.
- `ConcurrentHashMap`: none; only safety is claimed. `shared_timed_mutex` does
  not promise a writer its turn.

## 4. What is proved

Every safety property the passing runs check is also a theorem, for every value
of the constants that satisfies the assumptions stated next to them: any number
of clients, descriptors, contexts, threads, keys and bytes, any size of a pool, a
block or a table, TCP and TLS. The assumptions say that sizes are numbers, that
sets of descriptors and contexts are finite, and that names which must differ
(`NoContext`, `NULL`) do. Each proof module has an inductive invariant, a lemma for
each action, and theorems that follow from it. The invariants were checked by
TLC before they were proved.

`MemoryPoolProofs`. `PoolInv` is `TypeOK`, `NoBlockShared` and `Counted` (the
vector and the held blocks are no more than `_allocated`). `NoBlockShared`
alone says nothing of sizes; `LimitRespected` speaks of the set of all blocks,
whose size is the sum of the two parts only because of `NoBlockShared`.
`BlocksRetained` is an action property: a push that fails means that the vector
is as long as its reserve while a caller still holds a block, so that the pool
owns more than `BLOCK_RESERVE` blocks or more than its limit. `RefinesBlockPool`
maps `GetMemory` to `Take`, `Release` to `Give`, and failures to stutters.
`ExactUnlessHeapFails` is the other side of the finding of `pool_count`: without
failures of the heap `Allocated()` is exact.

`ServerProofs`, about `WebServer`. `ServerInv` adds to the properties that open
connections, registrations, registry and the pool agree (`Connections`), and that
the loop's locals are fresh. The central point is that no event of the rest of a
batch refers to what the handler of its first event disposed of: sockets occur
once in a batch, handlers dispose of no connection but their own, and a new
connection gets a descriptor that was free when the batch was collected or has
no event left. `PoolDisciplineKept` shows that each step is a call of the pool,
or none, which allows the invariant of `MemoryPool` to be used as a lemma.
`LimitInv` adds what `DiesOnlyAtLimit` counts with: an open client is the peer of
one descriptor (`OpenMatches`), `_allocated` is exact, and a loop that was left has
every context out (`AllOut`). The contexts held are then as many as the open
connections and the failed accepts, by a bijection.

`ServerProofs`, about `Shutdown`. Once `Terminate` has run, events name contexts that
were released, so `NoStaleEvent`, on which `ServerInv` rests, is false. What remains is
`ServerCore`: the registry and the kernel agree always; the pool, the contexts and
the TLS objects do (`Fine`) until a context was released twice, `PhantomEntry` being
what a failed accept left behind; an event of a connection names some context
(`EventsNamed`), and by the time a message was read that context has a descriptor
(`MessageFromOpen`). From this each action shows that what it releases is held, but
for the exception `ReleasedOnce` states. `Walking` follows the index: no connection
is open between it and where it started. `InBacklog` says that the backlog lists the
clients that are queued, each once. `CloseIsAsked`, that the loop is about to close
a connection only for a message that says so, gives `ReleasedOnce` its exception:
between the response and the second disposal the server may have waited.

`LifecycleProofs`. The properties speak of single moments of two threads; what
carries them is which number is whose. `LifecycleInv` adds to `ClosesOnlyItsOwn`
and `FailedBootReleases`: `KeepsItsSocket`, that the server's number holds the
server's socket, and no other number does, as long as no option was refused and
`Terminate` has not closed it (no other thread can close it, none is given its
number); `InOrder`, which stages of `Boot` and `Terminate` go together, so that a
`Terminate` that is not early finds `Boot` behind it; and `ConfiguredSoFar`, that the
options set and those still to be set are the configuration's. Both `Boot` and
`Terminate` have stages of their own for the wait after a registration was changed
(`"registering"`, `"unregistering"`), in which the other thread goes on: `InOrder` places
them, too. `AlwaysListens`
follows from the last two. `CollectedOnlyWhileOpen` needs one more invariant, that
after `Unregister` there is no registration unless `Terminate` was early. `TypeOK` says,
beside the types, which clients have a descriptor and wait on a socket; `Attached`
is what `close`, whoever calls it, keeps of that.

`ThreadPoolProofs`. `NoLostWakeup` counts: with a worker asleep, the queue is no
longer than the workers about to look at it plus the threads about to notify.
`Accounted` says that a pending future is that of one task in the queue or with
one worker, `Drained` that a worker that has returned found `stop` and an empty
queue, which stays empty because `enqueue` throws after `stop`.
From them follow `DestructorAlwaysDrains` and the refinement of `Executor` up to
fairness.

`ConcurrentHashMapProofs`. What can be reached from a node is the smallest set that
holds it and is closed under `next` (`Reach`), so that facts about lists of any
length need no induction: to show that a node is reached one shows that it is in
every such set, and what a change of a link does to a list is a lemma about two
heaps. `HashMapInv` says that each list holds the nodes of its bucket (`Owned`),
comes to an end, has no key twice, and has one pointer to each node
(`OnePointer`, without which `Erase` would leave a pointer to what it deletes); that who
walks beside another is reading (`Exclusive`); and that a walk has not passed the
key it looks for (`Walking`). `MapIsAtomic` shows each step to be one of `AtomicMap` or a
stutter: a call has its effect when it lets go of the mutex. An `Insert` that throws
is one of `AtomicMap`'s, too: it changes nothing, and its key was absent.

`HttpServiceProofs`. `RightHandler` is about the whole history of a path, the code
only has the routes; `RoutesFollowLog` says for every path and method what the code
makes of each history, disputed or not (`Registered`), and each kind of entry is shown
to change both alike. That this route is one that was added (`RightIsAdded`) and, where
nobody disputes it, the one asked for (`RightIsUndisputed`) are lemmas about histories
alone. `Answering` keeps the handler that was chosen right while it adds routes. For
`SeesRequest`, `Parsed` says that the request is what the parser makes of what was
sent, and the lemmas about `Tokens` and `split`, recursive functions, say what that
is; they argue from the first line for which the claim would fail. `HeaderIsRead` is
what is left of one header.

`ChannelsProofs`. `Flow` says which byte of the stream is at each place of the TLS
object and of the segments in the socket, however they were cut and joined, so that
it is known what a read returns. `TextOfPass` says what the block, taken as a C
string, makes of it: bytes in their places up to the first NUL, and foreign memory
only behind a full block or before the first clearing. `Handed`, `InOrder` and
`LostOnlyBehindNul` then grow with the message. `Polite` carries `OneAnswerEach` and
`AnswersWhole`: a client that waits is never more than one request ahead
(`OneAtATime`), has read its answers when it sends, so that the socket has room, and
without NULs every read has something to deliver.

`SequenceLemmas`. TLAPS has no induction over data with the provers used here. Where
a proof needs one it assumes that the numbers for which a claim fails have a
least element (`LeastNumber`) and refutes it; `FlattenSeq` is handled in this way from
its recursive definition.

Model-checked only: liveness (`EveryConnectionAccepted`, `EveryRequestAnswered`,
`CloseHonoured`, `ServedAfterTerminate`, `LoopStops`, `EverythingRead`) and the fairness
part of `ImplementsExecutor`, which are beyond TLAPS.

## 5. What is not modelled

- `HttpServer::Terminate` on another thread while the loop runs: the two race in
  memory that nothing guards, in every table, so that the outcome is whatever the
  build makes of it; nothing in the repository calls it so. `Server::Terminate` is
  modelled on another thread, where it shares `running`, the registration, the
  channel and a descriptor with the loop. That `running` is a plain `bool` the
  compiler might read once is not modelled: the loop calls functions it cannot
  see through.
- Two `Terminate`s, or a second `Boot`.
- A client that resets or fully closes its connection: `write` would raise
  `SIGPIPE`, whose effect depends on the process. `Finish` is the half-close.
- A failure of `tls_accept_socket` (the code calls `exit(1)`), of the heap in
  `Server` (it would be an exception like those that are modelled).
- `HttpRouter::GetHandler` without a method, which nobody calls, and a start
  line of fewer than two words, whose parsing is undefined behaviour.
- The event list `kevent` is given as a null pointer with room for one
  event: it is taken to wait and drop, as described under EventEngine.
- `NetUtils`, `Timer`, `File`, `DynamicLibrary`, `Logger`, `Format`: no state that an interleaving or a failure could spoil.
- The client (`TlsDecorator`): `Client` is empty, nothing calls `Connect` or `SendData`,
  nothing fills `receiveBuffer` or clears `open`. Its write callback would lock a
  mutex its own thread holds, and `SendData` neither advances in its buffer nor
  stops after an error; there is no promise of it to check yet.

## 6. Plan

Done, in this order: `MemoryPool` (the other parts stand on it), `WebServer` (the
system's core), their proofs, `ThreadPool` and `ConcurrentHashMap` with their
abstract specifications, `HttpService`; then `Lifecycle` with its proofs, `Shutdown`
and `Channels`; then the proofs about all of these.

Next: that `Channels` implements what `WebServer` assumes of a read (a segment shorter
than the block is delivered as it was sent, and nothing of it is left) as a
refinement instead of in words, and an abstract specification of the server (each
client is accepted, answered and let go) that `WebServer` implements.
