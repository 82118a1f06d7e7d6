# MarketServer: specifications, model checking and proofs

MarketServer (`src/FrontServer`) receives depth updates from a *hub*, prepares
them on two stations, and publishes them as JSON to websocket clients. This
directory holds TLA+ modules that model it, TLC configurations that check them
on small instances, and theorems that TLAPS proves for all instances: about the
pipeline, the websocket write path, the process with the loop its websocket
server runs on, and the websocket parser.

All paths below are relative to `src/FrontServer` unless they start with `src/`;
`platform/` is the server's own code, `include/uWebsockets/` the version of
uWebSockets vendored with it. uWebSockets is in scope because the server calls
it from a thread it was not written for, and because what its write path
promises is what the server promises its clients.

## 1. Inventory

### 1.1 The parts and their state

| Component | Code | State | Operations |
|---|---|---|---|
| DataReceive | `platform/data_receive` | `is_test_`, the test thread, its io_service's tasks | hub callbacks `on_depth`, `on_kline`; `handle_depth_data`, `handle_kline_data`; `test_main` |
| DataProcess | `platform/data_process/data_process.*` | `depth_data_` (symbol to first update) | `request_message`, `response_message`, `process_sdepth_package`, `process_new_symbol` |
| FrontServer | `platform/front_server/front_server.*` | `symbols_`, `wb_server_`, `rest_server_` | `request_all_symbol`, `process_symbols_package`, `process_sdepth_package`, `process_enhanceddata_package`, `get_symbols_str` |
| WBServer | `platform/front_server/wb_server.*` | `wss_con_set_`, its listen thread and loop | `on_open`, `on_message`, `on_ping`, `on_pong`, `on_close`, `broadcast` |
| RestServer | `platform/front_server/rest_server.*` | an `App`, its listen thread | four empty handlers |
| Packages | `platform/util`, `platform/data_process/data_struct.*` | fields owned by packages | `GetNew...Package`, `SDepthData` to `EnhancedDepthData` |
| ServerEngine, main | `platform/server_engine.*`, `server_main.cpp` | the stations, a static engine | construct, `launch`, `release`, signal handler |
| Config | `platform/config` | hub address, ports, initialised by nobody but the file | `load_config` |
| AsyncSocket | `include/uWebsockets/AsyncSocket.h`, `LoopData.h` | cork buffer and corked socket of the loop; buffer of each socket | `cork`, `uncork`, `write`, `getSendBuffer`, `close`, `shutdown` |
| WebSocket | `WebSocket.h`, `WebSocketContext.h`, `HttpResponse.h` | `isShuttingDown`, fragments, timeout | `send`, `end`, the upgrade, `on_data`, `on_writable`, `on_end`, `on_timeout`, `on_close` |
| Loop | `Loop.h`, `LoopData.h`, `App.h` | two defer queues and their mutex, the loops of the threads | `get`, `defer`, `wakeupCb`, `run`, `free` |
| HTTP connections | `HttpContext.h`, `HttpResponse.h`, `HttpParser.h` | fallback, bytes of the body to come, state and offset of the answer, `onAborted`, `onWritable`, `inStream`, timeout | `on_data`, `on_writable`, `on_end`, `on_timeout`, `on_close`; `write`, `end`, `tryEnd`, `upgrade`, `close` |
| Router | `HttpRouter.h` | the tree of patterns and its sorted handlers | `add`, `route` |
| Frame parser | `WebSocketProtocol.h`, `WebSocketContext.h` | spill, opcode stack, bytes to come, mask; fragments and control tip | `consume`, `handleFragment` |
| Pub/sub | `TopicTree.h` | topics and triggered topics | not used by the server |
| SDecimal | `include/decimal.h` | a scaled integer of fixed width | comparison, sums, conversion |

Outside the repository: *pandora* (an io_service pool of three threads and the
`Package` class), the *hub* library that pushes updates from its own threads,
and the *uSockets* library under uWebSockets.

### 1.2 How they interact

```
 hub threads        io_service 1       io_service 2        io_service 3            loop thread
 on_depth -- post --> DataReceive -- post --> DataProcess -- post --> FrontServer
 on_kline                  ^                     ^   |                   |  symbols_      |
                      test thread ---------------+   |  depth_data_      |<-- get_symbols_str -- on_open
                                                     |                   |                |
                                      <-- request_all_symbol ------------+                |
                                                                         v                v
                                                              WBServer::broadcast    wss_con_set_
                                                                         |                |
                                                                         +--> WebSocket::send <-- on_message, on_open
```

Each station has an io_service with one thread: handlers of a station never
overlap, and tasks run in the order in which they were posted. What the
stations share they share by packages. Two pieces of data are shared without a
lock or a queue: `symbols_` (written by the FrontServer thread, read by the loop
thread in `on_open`) and `wss_con_set_` (written by the loop thread, walked by
the FrontServer thread), and with them the sockets and the cork buffer of the
loop, because `broadcast` calls `WebSocket::send` on the FrontServer thread.

### 1.3 What is hard, and what makes each part correct

`PROJECT.json` lists the hazards at their lines. In short:

* **Ordering through the pipeline.** A symbol must be announced before data about
  it; an update must come out once and in order, although the test thread enters
  past the first queue and symbol requests enter from the other end
  (`AnnouncedBeforeData`, `IndexAgrees`, `RelaySpec`, `EveryUpdatePublished`).
* **The join of snapshot and stream.** A client is greeted with `symbols_` and
  then gets the broadcasts: nothing may fall between the two, whichever thread
  runs first (`NoSymbolMissed`, `Contiguous`, `EverySubscriberLearns`).
* **Data races** on the set, on `symbols_` and on the sockets of the loop
  (`Contiguous`, `NoSymbolMissed`, `OneCorked`, run `Race`).
* **Partial writes.** Bytes wait in three places (cork buffer, kernel, socket
  buffer) and several paths fill each of them (`FramesWhole`, `FramesInOrder`,
  `AcceptedIsKept`, `EveryFrameKept`, `BufferedIsPolled`, `CorkReleased`).
* **The end of a connection.** By close frame, FIN, timeout or protocol error, in
  any combination, with bytes still buffered (`CloseEventOnce`, `FinComesLast`,
  `EveryCloseEnds`).
* **Slow peers.** Backpressure, its limit and the idle timeout
  (`BackpressureBounded`).
* **Ownership.** Packages copy a string with `memcpy`, so that a symbol may change
  under its reader, and enhanced data have two owners that do not know of each
  other (`EntriesFreeAtExit`); arrays of fixed length are filled with as many
  levels as the hub sends (`SumsRight`).
* **Numbers at their ends.** Every comparison, sum and conversion of a price is a
  rescaling that may overflow, truncate or round twice (`ArithmeticRight`,
  `RoundsDown`, `ConversionsNear`).
* **Start and stop.** Ports from a file that may be missing, servers launched one
  after the other while the hub already calls back, an `App` bound to the loop of
  one thread and run on another, a signal at any moment (`PortsReported`,
  `SurvivesClients`, `EveryClientServed`).
* **Work handed to a loop** by other threads, through two queues that are exchanged
  while they are filled (`NoWakeupLost`, `DeferRelay`, `EveryCallbackRuns`).
* **Streams cut anywhere.** Requests and frames arrive in chunks that end in the
  middle of a head, a header, a mask or a body, and two paths of each parser must
  agree (`BodiesWhole`, `FallbackBounded`, `Understood`, `StateFits`).
* **Answers in pieces**, from handlers that wait, over connections that may go away
  or fall silent at every stage (`AnswersWhole`, `AnsweredOrAborted`,
  `IdleHasTimeout`).
* **Routes** whose precedence must not depend on the order of registration
  (`RoutedRight`).

## 2. Modules

| Module | Extends | What it is |
|---|---|---|
| `Stations` | | DataReceive and DataProcess, their queues, the launch of the engine |
| `MarketServer` | `Stations` | FrontServer and WBServer on top of them: the whole pipeline |
| `Relay` | | the abstract specification of the pipeline |
| `MarketServerProofs` | `MarketServer`, `WellFoundedInduction`, `TLAPS` | inductive invariants, the step simulation of `Relay`, theorems, proofs |
| `AsyncSocket` | | the write path of a uWS socket as functions on the sockets of a loop |
| `WebSockets` | `AsyncSocket` | websocket connections: the callbacks of the loop and the sends of the other thread |
| `WebSocketsProofs` | `WebSockets`, `TLAPS` | lemmas on the write path, an inductive invariant, theorems |
| `StreamProofs` | `WebSocketsProofs` | two more inductive invariants, of the bytes on their way and of the order of frames; theorems |
| `Loops` | | the two defer queues of a loop, those who defer, and the loop that runs what they hold |
| `Lifecycle` | `Loops` | the process: `main`, configuration, threads, loops, Apps, clients, signals |
| `LifecycleProofs` | `Lifecycle`, `TLAPS` | the loop refines `Relay`; invariants of loop and process |
| `Router` | | `HttpRouter` as functions on its tree, and what a program expects of it |
| `HttpConnection` | | a connection of an App until it is closed or upgraded, whatever its handlers are |
| `HttpProofs` | `HttpConnection`, `WellFoundedInduction`, `TLAPS` | the inductive invariant of a connection; theorems |
| `FrameParser` | | the websocket parser and the assembly of messages |
| `FrameParserProofs` | `FrameParser`, `HttpProofs` | the parser's state fits and frames are understood, for all frames and chunks |
| `Inbound` | `Router`, `HttpConnection`, `FrameParser` | their composition: routes, requests, upgrade, frames |
| `InboundProofs` | `Inbound`, `FrameParserProofs`, `FiniteSetTheorems` | the tree and the walk of the router are right; the composition keeps what its parts do; theorems |
| `Decimal` | | `SDecimal` as functions on integers with ends |
| `Depth` | `Decimal` | the storage and contents of depth updates through the three stations |
| `DepthProofs` | `Depth`, `WellFoundedInduction`, `TLAPS` | recursion, powers of ten, the worth of what each operator returns; inductive invariants of prices and of updates on their way; theorems |
| `MCMarketServer`, `MCWebSockets`, `MCLifecycle`, `MCInbound`, `MCDepth` | the components | small sets and symmetry for TLC |

### 2.1 Stations and MarketServer

| Variable | Code |
|---|---|
| `drQueue`, `dpQueue`, `fsQueue` | tasks posted to the io_service of each station |
| `processing` | what the running DataProcess handler is still going to deliver |
| `depth_data` | `DataProcess::depth_data_` (the number of the stored update, 0 for none) |
| `symbols`, `conSet` | `FrontServer::symbols_`, `WBServer::wss_con_set_` |
| `front` | the FrontServer thread: idle, merging, or at a connection of a walk over the set |
| `loop` | the loop thread: idle, or at a statement of `on_open` |
| `over` | connections with more than `maxBackpressure` buffered, where `send` skips |
| `phase` | how far `ServerEngine::launch` has come |
| `published`, `greeted`, `snapshot`, `feed`, `lossy` | history, which no guard reads |
| `clock`, `extras`, `opens` | counters that bound the environment |

One action is one handler, except where another thread can see the middle of
it. Those handlers are cut exactly where shared state is read or written:

* `process_sdepth_package` of DataProcess posts an announcement and later the
  data (`ProcessSDepth`, `DeliverDepth`); the front server may handle the first
  before the second is posted.
* `process_symbols_package` merges into `symbols_` (`StartMerge`, `FinishMerge`);
  `on_open` may read `symbols_` in between, and then reads some subset of the
  merge (`ReadSymbols`).
* `broadcast` moves from connection to connection (`Walk`, `Send`,
  `EndBroadcast`); `on_open` and `on_close` may change the set in between. The
  iterator of a `std::set` whose tree changes underneath it may then visit any
  part of the new set: `DisturbWalk` leaves the rest of the walk open. This is a
  stand-in for undefined behaviour: it covers every walk that ends, not a crash
  and not a walk over freed nodes.
* `on_open` inserts, then reads the symbols, then sends (`OnOpen`, `ReadSymbols`,
  `Greet`).

`MarketServer` takes `send` to deliver what it does not skip. `WebSockets` is the
module that says when this is so: in the runs of `Corked` and not beyond.

`lossy` names the connections that may have missed something for a reason the
code knows of: a skipped message (backpressure) or a race on the set or on
`symbols_`. A property that excuses lossy connections says that *nothing else*
loses anything. When a walk is disturbed, `lossy` gets the
difference between the walk expected and the walk made (`DisturbWalk`).

Packages carry their type, the symbols they name and the number of the update;
package ids, prices, volumes and JSON are left out. `LeftBehind` says what
`std::set::merge` leaves in its source, which is what the code broadcasts next.

### 2.2 Relay

What the pipeline promises as a whole: numbered updates go into a backlog and
are emitted once and in order, and none stays for ever. `MarketServer` maps its
four places of work (`fsQueue`, `processing`, `dpQueue`, `drQueue`) to the
backlog and `published` to what was emitted (`relay == INSTANCE Relay WITH ...`).

### 2.3 AsyncSocket and WebSockets

`Net` is the state of all sockets of a loop: `corked` and `cork`
(`LoopData::corkedSocket`, `corkBuffer`), `buffer` (`AsyncSocketData::buffer`),
the kernel's side (`wire`, `room`, `polling`) and `closed`, `shut`. Each C++
function is a function from one state to the next, with the early returns of the
code, so that `SendFrame` composes `Cork`, `Format`, `Write` and `Uncork` the way
`WebSocket::send` does. A byte knows its socket, frame and position; a size is a
number of units, of which the cork buffer holds `CorkSize`.

| Variable | Code |
|---|---|
| `net` | as above |
| `upgraded` | sockets adopted by the websocket context |
| `ending` | `WebSocketData::isShuttingDown` |
| `overdue` | sockets whose idle timeout has run off: `us_socket_timeout` takes a socket out |
| `loop`, `sender` | the callback the loop thread is in, the send the front thread is in |
| `conSet` | `wss_con_set_` |
| `frames`, `closes` | history: frames handed to the write path with its answer, close events |

A callback of the loop is a sequence of actions of the loop thread (`OnData`,
any number of `Reply`, then `EndCall` or `ForceClose`, then `EndData`); nothing
else runs on that thread meanwhile. `Overlap` chooses how the front thread's
sends meet them:

* `FALSE`: a send falls between two callbacks. These runs look at the write path
  by itself, as uWebSockets means it to be used.
* `TRUE`: a send is `BeginSend` (cork), `FormatSend`, `EndSend` (uncork), each
  of which may fall anywhere. A data race may do more than reorder these three
  steps, so a violation found here is a real execution, but a property that
  holds under `TRUE` holds relative to this granularity.

The HTTP side of a connection appears here only as the upgrade; `HttpConnection`
has the rest of it.

### 2.4 Loops and Lifecycle

`Loops` has the two vectors of `LoopData` (`queues`, `current`), the queue
`wakeupCb` is walking and how far (`draining`, `done`), the threads between the
mutex of `defer` and its wakeup (`waking`), the pending wakeup (`woken`), and the
callbacks that were called (`ran`, history). What `defer` does under the mutex is
one action and what it does after it another, as are the exchange of the queues,
each callback, and the clearing of the queue. A callback may defer as well.

`deferRelay` maps the rest of the walked queue and the other queue to the backlog
of `Relay` and `ran` to what was emitted: the specification the pipeline has is
also the one the loop has.

| Variable of `Lifecycle` | Code |
|---|---|
| `main` | the statement `main` is at, through the constructors and launches it calls |
| `config`, `port` | `Config`, and `server_port_` of each server, read or uninitialised |
| `frontServer` | servers whose `front_server_` is set |
| `app`, `loop` | the thread whose loop an `App` was bound to when it was constructed; the loop of each thread (`Loop::get`, `run`, `free`) |
| `threads`, `listening`, `client` | threads that run, sockets that listen, a client of each server |
| `handlers`, `process` | the signal handlers; what became of the process |

Two facts of the code shape it. The `App` of the rest server is a member of an
object `main` constructs, so its sockets belong to the loop of `main`, which
nobody runs; the loop of the rest thread has nothing to poll, and `run` returns
at once. The kernel still completes the handshakes, so a client of it waits for
ever. And were it served, `HttpContext` would call `std::terminate`, because the
empty handlers neither answer nor ask to learn of an abort: `SurvivesClients`
holds for that reason only, and the mutant that constructs the `App` on its own
thread, which looks like the repair, breaks it.

Nothing in the server calls `defer`; the callbacks are those of a program that
would, such as one that broadcasts through the loop to be free of the race of run
`Overlapping`.

What the destructors do at exit (each tests its thread the wrong way round:
`data_receive.cpp:19`, `wb_server.cpp:26`, `rest_server.cpp:13`) depends on
whether the singleton destructs the engine at all, and the handler's `printf` may
have interrupted the C library: `Signal` and `Exit` leave open whether the process
ends or hangs, so no property says that it ends.

### 2.5 Router, HttpConnection, FrameParser, Inbound

A byte of a stream is a pair: the request or frame it belongs to and its position,
positive in a body or payload, not positive in a head or header. Bytes of a head
have no other content: what a head says is in the record of its request. So
"cut anywhere" is really anywhere, and a byte that is taken for another one is
seen to be wrong.

`Router` builds the tree as `add` does and visits it as `executeHandlers` does;
`Expected` says which handler should be called without mentioning a tree. The tree is
a function from the path of a node, the sequence of steps from the root, to the node's
children and handlers. A child is the last step of its path, a name and a priority, so
two children of one name and different priorities are two nodes, as they are in
`getNode`. `UpperBound` is the search of `std::upper_bound`, halving by halving, since
the children are not always sorted: nothing is inserted before an empty name. Routes
that differ in that way are told apart by `EmptyFirst`. The recursions of the code are
recursive functions, over the numbers of the segments, methods and routes, and over
the paths of the tree.

| Variable | Code |
|---|---|
| `http` | the socket's state and timeout, `HttpResponseData` (calls made, `offset`, handlers attached), the parser's `fallback` and `remainingStreamingBytes` |
| `stage`, `chunk` | where `consumePostPadded` is in the bytes of an `on_data` |
| `log` | history: what handlers were told and what was written |
| `parser` | `WebSocketState`: header wanted or not, spill, opcode stack, bytes to come, rotation of the mask |
| `ws` | the fragments and the control tip of `WebSocketData`, and history |

A step is one turn of a parser's loop or one callback. A handler is what a program
may do with a request: answer at once, read the body first, answer before the
body, answer later in chunks, `tryEnd` and continue in `onWritable`, close, or do
nothing. Which of them it is, is the constant operator `HandlerOf`: `HttpConnection`
knows no routes, and `Inbound` makes it `Routed`, what the tree of the program
finds for the request. `Unmask` gives a byte back only if the mask byte that meets it is the
one it was masked with.

`Inbound` puts them together: routes are registered in any order (a mode of its
own, which asks only `RoutedRight`), or the program listens and a peer sends
requests, of which one may be an upgrade, and then frames. `Meaning`, in
`FrameParser`, says what a sequence of frames means without any parser.

### 2.6 Decimal and Depth

`Decimal` keeps both integer types of `SDecimal` with their ends: `value` modulo
`ValueRange`, `base` modulo `BaseRange`, and `CALC_BASE`, an `int` expression, with
the powers of ten it can hold and the value the conversion gives beyond them. A
product with a double may come out just below a whole number, so that truncation
loses a unit: `Product` allows both. `FromDouble` begins with the decimal that is
there: the last price for `from`, and for the constructor, which initialises nothing
(`decimal.h:17`), whatever the storage held (`Leftovers`). The two have different
default biases, `Tolerance` and `InitTolerance`.

`Depth` follows the characters of a symbol and the owners of enhanced data.

| Variable of `Depth` | Code |
|---|---|
| `pushed` | history: the updates, and the storage (*slot*) their tasks were put in |
| `text`, `owner` | the characters in each slot; the task that owns them, or none |
| `receive`, `process`, `fsQueue` | the tasks of the three stations; `process.handler` is the step `process_sdepth_package` is at and, before an insertion, the symbol it looked for |
| `object` | the enhanced data of each update: its sums, how many packages hold it, who has freed it |
| `depth_data_` | `DataProcess::depth_data_`: of each key, the update whose data it owns |
| `torn`, `sent`, `calc` | history: updates whose symbol changed between lookup and insertion; what was broadcast; the last calculation with a price |

The task `on_depth` posts owns the characters, the packages made from it point to
them, and when DataReceive's handler has returned their place is free for anything
(`Overwrite`, or `OnDepth` in the same slot). Whoever reads the symbol of a package
later (`Read`) reads what is there by then.

The packages count their references to the enhanced data (`Dropped`: the last one
frees). The `shared_ptr` that `get_object` makes for `depth_data_` is a second owner
that counts by itself and frees when its entry goes (`Overthrown`): when another
update's data are assigned to it (`StoreObject`), or when `DataProcess` is
destructed (`DestroyDataProcess`), at any moment of the other threads, since `exit`
waits for none. Both may free the same data, and `EntriesFreeAtExit` says when:
it is not that it does not happen.

`Accumulate` fills the two arrays by address: one level too many on the ask side
lands in the bids and is overwritten, one too many on the bid side lands in the
update behind. The price of the first book stands for what the hub calculates with
`SDecimal` before it pushes.

## 3. Runs

All bounds are CONSTANTS of the modules, commented where they are declared.

| Run | Expectation | Question |
|---|---|---|
| `Core` | pass | two symbols, two updates, two connection addresses opened three times; the five invariants of the pipeline |
| `Live` | pass | klines, test packages and symbol requests between the updates (of these the invariants are proved, section 5); refinement of `Relay` and the two liveness properties, under fairness |
| `News` | violation of `UpdatesCarryNews` | does a merge broadcast what it added? |
| `Streams` | pass | two sockets and an overflowing cork buffer: whole frames, and accepted frames are kept |
| `Corked` | pass | the stronger properties hold as long as what one callback sends fits into the cork buffer |
| `SlowPeer` | pass | one peer that hardly reads: the bound on the buffer; every shutdown ends, under fairness of the loop |
| `Race` | pass | polling for writable and close events survive sends that overlap callbacks |
| `LostFrame` | violation of `EveryFrameKept` | overflow with a slow peer loses a frame |
| `Overlapping` | violation of `OneCorked` | two sockets corked at once |
| `Lifecycle` | pass | from `main` to the end, with seven configuration files, clients, a signal at any moment, and callbacks deferred by two threads |
| `Inbound` | pass | routes in any order; one or two requests, an upgrade, up to four frames, cut into chunks anywhere |
| `Depth` | pass | three updates of two symbols in two places of storage, what is freed by whom and when, and their sums; two calculations with a price |

### 3.1 Bounds, and why they are enough

* *Core*. Two updates of two symbols give a first update of each and a second
  update of one, hence an announcement before, between and after data; two
  addresses and three openings give a walk with a connection inserted before,
  after and at the current one, and an address that is used again by another
  connection. Symbols are interchangeable (symmetry); connection addresses are
  not, since the set is ordered by them.
* *Live* has the same updates, one address, and one call of the environment more:
  a request ahead of or behind an announcement, a kline, or a test package
  between two updates. The liveness properties quantify over single symbols and
  connections. It uses no symmetry.
* *Streams*. Three frames of one or two units against a cork buffer of three and a
  kernel that takes two: frames fit, fill exactly, or overflow; the kernel takes all,
  a part, or nothing; the buffer is above and below `maxBackpressure` = 1.
* *Corked*. A callback sends at most two frames (`MaxReplies`) and a close frame of one
  unit each, and the cork buffer holds four units, which is more: the default of 16
  kilobytes against the server's messages. A connection is sent up to six frames, more
  than the cork buffer holds, so that it is filled and flushed several times. Of the
  properties of *Corked*, none holds under the bounds of *Streams*: see section 4.
* *SlowPeer*. Six frames of one unit to a socket that sends one unit at a time,
  with a limit and a cork buffer of one unit, are twice the bound on the buffer.
* *Race*. Three frames of one unit to each of two sockets; one unit fills the
  kernel's room.
* *Lifecycle*. Three callbacks are one in each queue and one more; the hub's thread
  and the loop's own one defer them. The files lack an entry, have one of a wrong
  type before or after the ports, cannot be opened or cannot be parsed.
* *Inbound*. Heads of two, three and five bytes against a fallback of four; bodies
  of none to three bytes; every pair of seven requests, so that each handler comes
  before and after each other one; answers of two bytes, of which the socket takes
  any part. The sixteen streams of frames have every kind of header, fragments
  with control frames in between, an empty fragment, texts that are not UTF-8, and
  everything the parser refuses; payloads are longer than the mask. Seven routes
  with overlapping static, parameter, wildcard and empty segments and all three
  priorities are registered in all orders and tried with twenty-three URLs.
* *Depth*. Three updates in two places, so that a place is used again; books with a
  level too many on either side; integers of 8192 and 10^3, and bases below 16, so
  that some decimals rescale within range and some beyond it, and `from` stops, gives
  up, or runs past the end of the base; storage that held nothing, a price with few
  places, or one with more than the integers have. `ArithmeticRight`, `RoundsDown` and
  `ConversionsNear` say for which decimals they speak; the others overflow, as they
  do in the code at 2^64 and 10^9.
* The limits `MaxFrames`, `MaxOpens`, `MaxUpdates`, `MaxExtras` and `MaxPushes` bound
  the environment, never the server. `MaxReplies` bounds the replies of one callback,
  which is how many messages a peer has put into one chunk.

Deadlock is checked in the runs of `MarketServer`: `Rest` allows the server to
stand still only if every queue is empty and every thread idle, so a thread that
waits for another one for ever would be reported. The runs of `WebSockets` say
CHECK_DEADLOCK FALSE because a socket there is used once and sent a bounded
number of frames; a state in which all sockets are closed has no successor. So do
`Lifecycle`, whose process ends, `Inbound`, whose connection closes or has nothing
more to read, and `Depth`, whose hub stops.

### 3.2 Fairness

*MarketServer*: weak fairness of each station (an io_service with a thread of
its own, whose handlers never block), of the FrontServer's steps, and of the
loop thread inside a callback. The hub, the peers, the test thread and the
caller of `request_all_symbol` owe nothing. A walk ends because the set is
finite and `MaxOpens` bounds the churn that can send it back; in the code a
client that reconnects for ever could keep a walk going only through the race.

*WebSockets*: weak fairness of the end of a callback and of time passing
(`Elapse`), strong fairness of `OnTimeout`: the loop sweeps its timers every few
seconds and, between two callbacks, gets to every socket that is overdue; data
from other sockets may disable the action again and again but not for ever. Nothing
obliges a peer to read.

*Lifecycle*: weak fairness of every thread's next step: `main`, the two servers, the
signal handler, the threads between a mutex and a wakeup, and the loop as long as
it has something to poll. Clients and signals come or do not, and what
a signal leads to is not bound by any fairness.

## 4. What the failing runs found

Each is a behaviour of the code that contradicts a sentence of its comments; the
sentences are quoted in `PROJECT.json`.

1. **News.** `front_server.cpp:117` merges the announced symbols out of the
   package and line 119 broadcasts the package, in which only symbols already
   known are left. A client that is connected learns of a new symbol from its
   first depth message (which is why `NoSymbolMissed` counts those), never from
   the announcement.
2. **Overlapping.** `broadcast` runs on the FrontServer thread; its `send` corks a
   socket while a callback of the loop has corked another.
3. **LostFrame.** When a frame overflows the cork buffer and the flush cannot be
   written in full, `uncork` returns without buffering the frame
   (`AsyncSocket.h:245`). `send` returns false, which callers take for
   backpressure. `AcceptedIsKept` holds: only frames answered with false are lost.

Overflow of the cork buffer breaks the other three properties of `Corked` as
well; to see the counterexamples, add them to `Streams.cfg`:

* `FramesInOrder`: with backpressure, `write` appends a large frame to the socket's
  buffer (`AsyncSocket.h:166`) while earlier frames are still in the cork buffer.
* `FinComesLast`: `end` takes a close frame that was skipped for sent, and shuts a
  socket with a full buffer down at once if an overflow has uncorked it
  (`WebSocket.h:143-153`).
* `CorkReleased` (with `MaxFrame = 3`, a frame as large as the cork buffer): `send`
  corks for the user and returns at `WebSocket.h:108` without uncorking when the
  write meets backpressure.

All of them need messages of the order of the cork buffer (16 kilobytes) in one
callback and a slow peer; the greeting with all symbols is the server's message
that grows.

One disagreement is only noted, in `OnWritable`: `WebSocketContext.h:326` resets
the timeout when the backlog grew, under a comment that says when it shrinks. An open
connection whose peer drains slowly therefore runs into its timeout; `EveryCloseEnds`
speaks only of connections that are shutting down.

More disagreements and oddities that the new modules contain as the code has
them. Where a property would be broken, its definition names the exception:

* A body announced with length 0 is never ended when its head went through the
  fallback: the handler waits for a last chunk that `HttpContext.h:194` speaks of
  (`EmptyBodyRead`, exempt from `BodiesWhole`).
* A handler that answers before its body has come leaves a connection without a
  timeout when the body ends, in spite of the protection `HttpContext.h:43`
  promises (exempt from `IdleHasTimeout`).
* Bytes behind an upgrade request in the same chunk are dropped; the model's peer
  waits for the answer.
* A binary message is let in inside an unfinished one, and a text too once a
  control frame came between (`Nested`, exempt from `Understood`).
* A head longer than the fallback is accepted if it arrives in one chunk, and
  refused otherwise.
* In the router, names that begin with a character below `:` rank below
  parameters; the patterns of `MCInbound` have one.
* Under a comment that says it inserts sorted, `getNode` inserts no node before one
  whose name is empty (`HttpRouter.h:74` and `83`: `b->name.length() && ...`), and
  `upper_bound` then halves a range that is not sorted. Routes `/a/*`, `/a/` and
  `/a/2`, registered in this order, leave `2` behind the wildcard, which answers its
  requests (TLC shows it when `EmptyFirst` is taken out of `RoutedRight`). Where empty
  names come before their siblings, every request is routed right. The three routes
  of this server are `/*` and are not affected.
* `from(double)` adds places for a price below 0.01 with many digits until it has
  passed the range of `int`; `ceiling` has no effect on a decimal and always adds
  one to a text; a text without a point is cut as a text when it is to be rounded;
  0.29 may become 0.28.
* `SDecimal(double)` (`decimal.h:17-19`) initialises neither `value` nor `base`, and
  `from` reads both. For a positive double the result is near all the same, unless the
  base it began with was too large; a negative one leaves whatever was there.
* The symbol of a package is whatever is in its storage when it is read
  (`tools.cpp:8`). If the storage is used again in time, data are looked up and
  published under another symbol. No property says otherwise.
* The enhanced data of the first update of each symbol are freed by their packages and
  again with `depth_data_` when `DataProcess` is destructed (`data_process.h:35`). If a
  symbol changes between lines 96 and 98 of `data_process.cpp`, an entry is replaced
  and its data are freed at once, even while the front server has yet to print them.

## 5. What is proved

`MarketServerProofs` proves, for any finite set of symbols, any number of
updates, other calls, addresses and openings, and both switches (the named
ASSUMEs of `Stations` and `MarketServer`, which TLC also evaluates):

| Theorem | States |
|---|---|
| `TypeCorrect` | `Spec => []TypeOK` |
| `IndexCorrect` | `Spec => []IndexAgrees` |
| `AnnouncedCorrect` | `Spec => []AnnouncedBeforeData` |
| `ContiguousCorrect` | `Spec => []Contiguous` |
| `NoSymbolMissedCorrect` | `Spec => []NoSymbolMissed` |
| `RelayCorrect` | `Spec => relay!Init /\ [][relay!Next]_(relay!rvars)`: the pipeline implements `Relay`, without its fairness |

The argument goes in three layers, each an inductive invariant that uses the
ones before it.

* `IndexInv` = `TypeOK`, `QueueContents` (what can be in each queue: the station
  queues carry depth, kline and test packages, tasks of DataProcess the
  responses and symbol requests made from them, and so on), `IndexAgrees` and
  `AnnouncedBeforeData`. The queue contents are needed because a handler's step
  only preserves the agreement for packages that can be in its queue.
  `CallbackConn` ties the loop's callback to a connection of the set.
* `WalkInv` adds `Contiguous`, with the shape of a walk: what is still to do lies
  in the set and excludes the connection at hand. Its hard steps are `OnOpen` and
  `OnClose` during a walk, where `DisturbWalk` replaces the rest: a connection
  that is not lossy is owed the message before the step exactly if it is owed
  after.
* `MissedInv` adds `NoSymbolMissed`. It is not inductive without `DataFollows`
  (a symbol announced but not merged has its first depth message behind the
  announcement) and `ReadingInv` (a connection between insertion and greeting
  already knows, or will be sent, each symbol its snapshot lacks): this is
  where the order of the statements of `on_open` counts.

The lemmas before them say what appending, removing the head and counting do to
the sets of symbols in a queue.

`RelayCorrect` needs only `IndexInv`, strengthened to `RelayInv`: nothing but depth
data carries the number of an update (a symbol request does not, and what is being
merged does not), and the backlog and what came out number `clock` together, so that
the number the hub gives the next update is the one `Relay` gives it. Every step then
is `Accepting` (the hub pushes: the backlog grows at its end), `Emitting` (a depth
message is broadcast: the backlog loses its first number) or `Waiting` (a package is
handed from one queue to the next, where it stands between the same neighbours, or
carries nothing): `StationsMove` and `FrontMoves` say which. `Numbers` reads a queue
from its first package on; that a package leaves it at the front is `NumbersTail`,
by induction (`Induction`, `CountsAgree`) as in `DepthProofs`.

`WebSocketsProofs` proves, for any set of sockets, any sizes of cork buffer, kernel
buffer and frames, any limits, and both values of `Overlap`:

| Theorem | States |
|---|---|
| `SocketsTypeCorrect` | `Spec => []TypeOK` |
| `CloseEventCorrect` | `Spec => []CloseEventOnce` |
| `BufferedIsPolledCorrect` | `Spec => []BufferedIsPolled` |

Most of it is a ladder of lemmas, one per function of `AsyncSocket`, each from
the ones it calls (`SysWriteNet`, `DrainNet`, `WriteThroughNet`,
`WriteUncorkedNet`, `UncorkNet`, `WriteNet`, `FormatNet`, `SendFrameNet`): the
function touches no socket but its own, closes nothing, takes no socket out of
polling, and leaves its own socket polled if it leaves bytes in its buffer. The
last part is unconditional for `write`, which is why `on_writable`, which takes
the socket out of polling first, may rely on it. The inductive invariant
`SocketsInv` is `TypeOK`, the two properties, `EndingUpgraded` (only websockets
shut down) and `CallbackSocket` (a callback that reads data is for an open
websocket, so `end` and `forceClose` raise the only close event). That these
two hold under `Overlap` as well means that no interleaving of the three steps
of a send can break them.

`StreamProofs` proves the properties of byte streams, for any set of sockets and
any limits, under a hypothesis on the sizes that each theorem names:

| Theorem | States | Hypothesis |
|---|---|---|
| `FramesWholeCorrect` | `Spec => []FramesWhole` | `FramesFit` |
| `AcceptedIsKeptCorrect` | `Spec => []AcceptedIsKept` | `FramesFit` |
| `CorkReleasedCorrect` | `Spec => []CorkReleased` | `FramesFit` |
| `BackpressureBoundedCorrect` | `Spec => []BackpressureBounded` | `FramesFit` |
| `FramesInOrderCorrect` | `Spec => []FramesInOrder` | `CallbacksFit` |
| `EveryFrameKeptCorrect` | `Spec => []EveryFrameKept` | `CallbacksFit` |
| `FinComesLastCorrect` | `Spec => []FinComesLast` | `CallbacksFit` |

`FramesFit` says that sends do not overlap callbacks and that every frame is
smaller than the cork buffer. `CallbacksFit` says that they do not overlap and that what
*one callback* can send is smaller: its replies (`MaxReplies`) and a close frame, or the
response of an upgrade and the greeting, of the largest size. It says nothing of how
many callbacks and broadcasts a connection lives through: `MaxFrames` may be any number.
They are the conditions under which uWebSockets is meant to be used, and no weaker ones
would do: section 4 lists what happens beyond each, and the runs `Overlapping` and
`LostFrame` show it. Run `Streams` satisfies the first and not the second, run `Corked`
both. `CorkReleased`, a property of `Corked`, needs only the first.

As in `WebSocketsProofs` there is one lemma per function of the write path, which
now follows the bytes: what is on the wire, in the socket's buffer and, while the
socket is corked, in the cork buffer, put together (`Line`), changes only by the
frame at its end, or not at all when `send` answers false. The inductive invariant
`StreamInv` is `SocketsInv` with

* `CorkOwned`: only the socket of the callback is corked, and nothing is in the
  cork buffer without it. Otherwise the bytes of another socket could be flushed
  to this one;
* `Resting` and `Fresh`: no send is halfway between callbacks, and nothing is sent
  before the upgrade;
* `Sound`, for each socket that is not closed: its `Line` consists of whole frames
  that were handed to `send`, and has each one that was accepted;
* `Bounded`: the limit, a frame and the cork buffer bound what a socket buffers
  together with what is corked for it. The bound of the property alone is not
  inductive, since a flush adds the cork buffer in one go.

`OrderInv` adds `Arranged` (the frames of a `Line` are in order, and all there),
`CorkHolds` (so far, all frames of the running callback are in the cork buffer, as many
as its replies: therefore none overtakes another and no flush loses one) and
`ShutInv` (a socket whose FIN was sent is neither written to nor buffers anything).

`LifecycleProofs` proves, for any configuration files, any threads that defer and
any number of callbacks:

| Theorem | States |
|---|---|
| `LifecycleTypeCorrect` | `Spec => []TypeOK` |
| `NoWakeupLostCorrect` | `Spec => []NoWakeupLost` |
| `DrainedAloneCorrect` | `Spec => []DrainedAlone` |
| `DeferRelayCorrect` | `Spec => DeferRelay`: the loop implements `Relay` (without its fairness) |
| `SurvivesClientsCorrect` | `Spec => []SurvivesClients` |
| `PortsReportedCorrect` | `Spec => []PortsReported` |

The loop's invariant `LoopInv` is its types, `NoWakeupLost` and `DrainedAlone`:
the walked queue is not the one that is appended to, and while none is walked the
other one is empty, which is what makes an exchange of queues invisible from
outside. Under it every step maps to a step of `Relay` or a stutter
(`DeferAccepts`, `RunCallbackEmits`, `SwapStutters`, `ClearStutters`,
`WakeUpStutters`). `SurvivesClients` needs `Deaf`: the rest server's `App` is
bound to `main`'s loop, and that loop is never running. `PortsReported` needs
`PortsKnown`, which ties what a server read to what the file had.

`FrameParserProofs` proves, for any frames, payload limit and chunks:

| Theorem | States |
|---|---|
| `StateFitsCorrect` | `FrameSpec => []StateFits` |
| `UnderstoodCorrect` | `FrameSpec => []Understood` |

That a kept header is short enough (`ParserInv`) needs every byte in front of the
parser to belong to some frame, hence a type for the bytes of a stream. `AllBytes`,
which makes them, is recursive; its lemma argues by the first frame for which it would
fail (`LeastElement`), once to show that the recursion defines a function and once for
its values.

`Understood` compares the parser with `Meaning`, which reads the frames one by one,
knows of no chunks, no opcode stack and no buffer, and keeps its own record of the
unfinished message. The invariant, `FollowsInv`, says that the parser follows that
reading. Unless a message begins inside another (`Nested`), it is in one of three
situations:

* `AtHead`: r frames were handled. What was said and what is buffered is what r frames
  mean (`Heeded`); what was kept of a header, the chunk and what is still to come are,
  put together, the stream behind frame r (`WireStream`, of the bytes themselves like
  `Stream` of `HttpProofs`); what was kept is too short for a header, so that nothing
  is left behind at the end; and the opcode stack agrees with the meaning (`Stacked`).
  The code has only the stack and `lastFin` to tell whether a frame is misplaced, and
  `lastFin` is TRUE inside an unfinished message once a control frame came: that some
  frame began the message, none ended it, and there was such a control frame, is what
  `Stacked` has to remember for `Placed`, which says that the parser refuses
  the misplaced frames and no others;
* `Within`: of frame r so many bytes were handled that `remaining` are outstanding. They
  are in the buffer behind what the frames before r left there, as a control frame's tip
  or as part of the message (`Partly`), the mask was rotated by as many
  (`phase`), and the stack has the frame's opcode on top of the message's (`Inside`);
* `Parted`: the connection is gone and everything was said.

`FrameNext` and `PayloadNext` derive what a header and a payload look like at the front
of the stream, `Handles` is about `handleFragment`: n more bytes behind a lead to
`Partly` with a + n, or, when they are the last, to what the frame means, for message
fragments (`HandlesData`) and for control frames (`HandlesControl`); `UnmaskIs` says
that the rotation is right. `SaidOnce` says that what was said up to a frame is what
the whole stream begins with, and all of it once the connection is over. The
module extends `HttpProofs` for its lemmas on sequences.

`FollowsInv` was checked by TLC on the first 1.6 million states of streams of up to
three frames of twenty kinds before it was proved. That both theorems hold under the
specification of `Inbound` is proved in `InboundProofs`, below.

`DepthProofs` proves, for any symbols, books, places of storage and number of
levels, and any width of the two integer types of `SDecimal` that satisfies
`DecimalAssumption` (the powers of ten an `int` holds, and its least value, are in
the range of `value`):

| Theorem | States |
|---|---|
| `EntriesCorrect` | `Spec => []EntriesFreeAtExit` |
| `SumsCorrect` | `Spec => []SumsRight` |
| `ArithmeticCorrect` | `Spec => []ArithmeticRight` |
| `RoundingCorrect` | `Spec => []RoundsDown` |
| `ConversionsCorrect` | `Spec => []ConversionsNear` |

The first two rest on `DepthInv` (`DepthInvariant`), the inductive invariant of the
updates on their way: types; `InLine` (updates do not overtake each other and are in one
place, or in two while they are passed on, so that each queue holds an update once);
`Missing` (a symbol that `process_sdepth_package` has looked for and is about to insert
is still not in `depth_data_`, so that an insertion replaces an entry only if the
characters have changed since); `EntriesKnown` (what entries have freed); `Counted` (the
packages that hold enhanced data are the handler's and the front server's task's) and
`LastFrees` (so the last of them frees, and no earlier one); `Summed` (the sums of those
that will be printed are the book's). `SumsAddUp` says that `Sums`, which is recursive,
satisfies its recursion, and `PrintedAddUp` that the bids begin behind the last ask that
fits.

The last three rest on `PriceInv`, that the last calculation was right and its
result is a decimal, and on lemmas about `Decimal`: `RescaledExact` (both
operands, brought to the finer one's places, are worth what they were),
`RoundedWorth`, `FromTextWorth` and `FromDoubleEnds`. Under them are
`PowerOfSum` and `PowerGrows`. Powers and sums are recursive functions, and the
induction over their arguments is spelled out with sets: `Induction` says that a
set with 0 and all successors has every natural number, from which follow the
existence and uniqueness of functions defined by recursion (`RecursionExists`,
`RecursionUnique`, `RecursionOnNat`).

`HttpProofs` proves, for any streams of requests, any handlers, any answer size, any
`MAX_FALLBACK_SIZE` and any chunks:

| Theorem | States |
|---|---|
| `HttpAlways` | `HttpSpec => []HttpInv` |
| `HttpBodiesWhole` | `HttpSpec => []BodiesWhole` |
| `HttpAnsweredOrAborted` | `HttpSpec => []AnsweredOrAborted` |
| `HttpAnswersWhole` | `HttpSpec => []AnswersWhole` |
| `HttpIdleHasTimeout` | `HttpSpec => []IdleHasTimeout` |
| `HttpFallbackBounded` | `HttpSpec => []FallbackBounded` |

The run `Inbound` checks these properties under the specification of `Inbound`, with
`Routed` for `HandlerOf`; `InboundProofs` carries the theorems over.

The invariant `HttpInv` is one formula, `Holds`, of the connection, the bytes left of
the chunk, those still to come, and the stage of the parser, so that the same
lemmas serve the connection before a step and each value it takes within one. While
the connection is open it says:

* `Parses`: the fallback, the chunk and what is still to come are, put together, the
  rest of the stream that begins behind what was handled (`Stream`). This is what
  makes the cut into chunks irrelevant: the fallback path and the direct path of the
  parser move bytes about but both take them off the front of one sequence. It has no
  mention of what was delivered, only of the bytes themselves: each byte is followed
  by its `NextByte`, up to the last of all (`Chain`). `HeadNext` and `BodyNext` derive
  what a head and a body look like at the front of such a sequence;
* `Ready`: `Answers` (all requests that ask are answered but the pending one), `Waits`
  (a pending request is the one attached for an abort, and has been answered exactly
  as far as its handler's calls and offset say: `Fresh`, `Partial`, `Chunked`),
  `Attaches` (a reader that is attached has been seen, and one that has not answered is
  the current one), `Times` and `Tells`. A pending request is therefore always the
  current one, so that no answer continues behind the beginning of another;
* `Bodies`: earlier readers had their body and its end, the current one the first
  bytes of it, as many as `remainingStreamingBytes` says are not outstanding.

When it is not open, `Over` says how all requests ended. Each operation of
`HttpResponse` has a lemma on what it returns (`TryEndIs`, `EndIs`, `ChunkIs`,
`EndChunksIs`, `SwitchIs`), each handler one on how its request comes out
(`RequestAsked` puts them together), and the data handler has `DataRead`. The
recursion in `RequestBytes` is dealt with as in `DepthProofs` (`BytesExist`,
`StreamStarts`).

`HttpInv` was checked by TLC, in place of the properties of run `Inbound`, before it
was proved. That the parser still wants something of a body whose next chunk arrives
(`at = "stream" => streaming > 0`) had to be added to make it inductive.

`InboundProofs` proves, for any program, any routes registered in any order, any
URLs, and any `MAX_URL_SEGMENTS`, with everything above for any of its constants:

| Theorem | States |
|---|---|
| `RoutedRightCorrect` | `Spec => []RoutedRight` |
| `RouteRight` | `Route(TreeOf(rs), ...) = Expected(rs, ...)` for any sequence of routes with `EmptyFirst`, any URL and any set of handlers that yield |
| `TreeBuilt` | what the tree is that `TreeOf` builds |
| `Composes` | `Spec => HttpSpec /\ FrameSpec` |
| `InboundCorrect` | the invariants of `HttpProofs` and `FrameParserProofs`, together, under the specification of `Inbound` |

`RoutesAssumption` says what a route is (methods, a pattern of ranked names, a
priority) and that names of one rank are one name, as the ranks are only the order of
the names. `EmptyFirst` is a condition in `RoutedRight` itself; without it the
property is false (section 4).

The proof of `RouteRight` goes from the tree to the list in three parts.

* *The tree.* `TreeInv`, which every registration keeps: a path leads to a node exactly
  if its last step is a child of the node before (`NodesLinked`), and children and
  handlers are sorted (`NodesSorted`). `Precedes`, the comparison of the code, is no
  order, because nothing precedes an empty name; `Before` is one, and `EmptyFirst` is
  what makes a new child that is not inserted before an empty one belong behind it
  (`PrecedesIs`, `NodeInserted`). For that, `UpperBound` has to find the place between
  the smaller and the greater elements (`UpperBoundIs`; `Searched` is
  the invariant of the range that is halved). `GetNodeIs` is about one step down and `WalkedTo` about
  all those of a pattern. `Built` then says what a tree has of a set of entries, one
  for each method of each route: the nodes on their ways and the handlers at their
  ends, and nothing else. It is kept from method to method and from route to route
  (`AddedUnder`, `RouteAdded`, `TreeBuilt`).
* *The walk.* Among the entries whose way leads through a node and fits the URL
  (`Chosen`), the node answers with one that is before all others in the order of the
  tree (`Better`), or with nothing if there is none (`Right`). `WalkRight` shows it
  by induction over how many segments are left: `TryRight` for a child, whose
  name is a wildcard, a parameter or the segment; `AnswerRight` for a node, whose first
  child that answers hides those behind it. That a wildcard is answered by the handlers
  at its node, and with the parameters of the node above, is `WildcardParameters`.
* *The list.* An entry fits exactly if its route matches (`EntryFits`), the first entry
  in the tree is that of the preferred route (`BetterPreferred`: the first step in
  which two ways differ is the first segment in which the patterns do, or the
  priority), no two routes are preferred to each other (`PreferredOnce`, so that
  `CHOOSE` finds this one), and the parameters pushed on the way are those at the
  places of the pattern's parameters (`ParametersRight`).

`Composes` is the step that `HttpProofs` and `FrameParserProofs` leave: each step of
`Inbound` is one of `HttpStep` or leaves the connection alone, and is the beginning of
a stream of frames, one of `FrameStep`, or leaves the parser alone.

Only model-checked:

* liveness (`EveryUpdatePublished`, `EverySubscriberLearns`, `EveryCloseEnds`,
  `EveryClientServed`, `EveryCallbackRuns`), which needs temporal reasoning about
  fairness;
* the fairness part of the refinement of `Relay` by `MarketServer` (`RelaySpec`), for
  the same reason.

## 6. Not modelled, and why

* The text of JSON, heads and answers: formatting. Of a head, only its length and
  what it says; of text payloads, only whether they are UTF-8.
* Pub/sub (`TopicTree.h`): nobody in the server subscribes or publishes, so its state
  never changes; the drains of the loop find nothing. The same goes for
  `publish` of `App` and `WebSocketContextData`.
* Compression and its negotiation (`PerMessageDeflate.h`, `WebSocketExtensions.h`):
  off in this server, and mostly zlib. TLS: the server is built with `uWS::App`.
  The PROXY protocol: not compiled in.
* SHA-1 and base64 of the handshake, `f2/function2.hpp`, the JSON library:
  self-contained or third-party code.
* What a race may do beyond reordering the steps it is cut into: crashes, reads of
  freed nodes of a set, torn values.
* Crashes: nothing is persisted, so a crash leaves a prefix of a behaviour, which
  every safety property covers; a restart begins at `Init`.
* The test client and server: not part of the program.
* *pandora*, the *hub* and *uSockets* are external: modelled from how the code uses
  them.

## 7. What could be added

`TopicTree`, if the server should publish through it one day: batching, draining
before a subscription changes, and one copy of a message per subscriber.
