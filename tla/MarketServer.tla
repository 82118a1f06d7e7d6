---------------------------- MODULE MarketServer ----------------------------
(***************************************************************************)
(* The front server and its websocket server on top of the two stations.   *)
(* Two threads meet here without a lock:                                   *)
(*   - the FrontServer thread (variable front) merges announced symbols    *)
(*     into symbols_ and sends every message to each connection of         *)
(*     wss_con_set_, walking the set in address order;                     *)
(*   - the uWS loop thread (variable loop) inserts and erases connections  *)
(*     and greets a new one with the text of symbols_.                     *)
(* What the race may do to the walk or to the greeting is left open: any   *)
(* connection of the set may be walked next, any subset of the symbols     *)
(* being merged may be read.  A connection that a race or its own full     *)
(* send buffer may have robbed of something is remembered in lossy.        *)
(***************************************************************************)
EXTENDS Stations

CONSTANTS
    NumConns,     \* addresses a connection can have
    MaxOpens      \* bound: connections opened

ASSUME ConnAssumption == NumConns \in Nat /\ MaxOpens \in Nat

VARIABLES
    symbols,      \* FrontServer::symbols_
    conSet,       \* WBServer::wss_con_set_
    loop,         \* the loop thread: its callback, the connection, the text read
    front,        \* the front thread: its handler, message, rest of the walk
    over,         \* connections buffering more than maxBackpressure
    opens,        \* connections opened so far
    published,    \* history: the messages broadcast so far
    greeted,      \* history: connections whose greeting was sent
    snapshot,     \* history: the symbols of that greeting
    feed,         \* history: the broadcasts each connection was sent
    lossy         \* history: connections that may have missed something

frontVars == <<symbols, conSet, loop, front, over, opens, published, greeted,
               snapshot, feed, lossy>>
vars == <<stationVars, frontVars>>

-----------------------------------------------------------------------------
Conns == 1..NumConns     \* in address order, the order of std::set
NoConn == 0
NoMsg == Pkg("SymbolData", {}, 0)

LoopState == [at: {"idle", "opened", "greet"}, con: 0..NumConns, snap: SUBSET Symbols]

FrontState == [at: {"idle", "merge", "walk", "send"}, msg: Package,
               todo: SUBSET Conns, cur: 0..NumConns]

LoopIdle == [at |-> "idle", con |-> NoConn, snap |-> {}]
FrontIdle == [at |-> "idle", msg |-> NoMsg, todo |-> {}, cur |-> NoConn]

\* Values of the right type.
FrontTypeOK ==
    /\ symbols \in SUBSET Symbols
    /\ conSet \in SUBSET Conns
    /\ loop \in LoopState
    /\ front \in FrontState
    /\ over \in SUBSET Conns
    /\ opens \in 0..MaxOpens
    /\ published \in Seq(Package)
    /\ greeted \in SUBSET Conns
    /\ snapshot \in [Conns -> SUBSET Symbols]
    /\ feed \in [Conns -> Seq(Package)]
    /\ lossy \in SUBSET Conns

TypeOK == StationsTypeOK /\ FrontTypeOK

Init ==
    /\ StationsInit
    /\ symbols = {}
    /\ conSet = {}
    /\ loop = LoopIdle
    /\ front = FrontIdle
    /\ over = {}
    /\ opens = 0
    /\ published = <<>>
    /\ greeted = {}
    /\ snapshot = [c \in Conns |-> {}]
    /\ feed = [c \in Conns |-> <<>>]
    /\ lossy = {}

-----------------------------------------------------------------------------
(* The FrontServer thread.                                                 *)

\* mutant: the walk ends one connection early.
BroadcastShort(msg) ==
    /\ front' = [at |-> "walk", msg |-> msg, cur |-> NoConn,
                 todo |-> {c \in conSet : \E d \in conSet : c < d}]
    /\ published' = Append(published, msg)
\* A broadcast of msg begins at the first connection of the set.
Broadcast(msg) ==
    /\ front' = [at |-> "walk", msg |-> msg, todo |-> conSet, cur |-> NoConn]
    /\ published' = Append(published, msg)

\* handle_response_message of a symbol announcement starts to merge it.
StartMerge ==
    /\ front.at = "idle"
    /\ fsQueue # <<>>
    /\ Head(fsQueue).tid = "SymbolData"
    /\ fsQueue' = Tail(fsQueue)
    /\ front' = [FrontIdle EXCEPT !.at = "merge", !.msg = Head(fsQueue)]
    /\ UNCHANGED <<phase, clock, extras, drQueue, dpQueue, processing, depth_data>>
    /\ UNCHANGED <<symbols, conSet, loop, over, opens, published, greeted, snapshot,
                   feed, lossy>>

\* What std::set::merge leaves in its source: the elements already known.
LeftBehind(pkg) == Pkg(pkg.tid, pkg.syms \cap symbols, pkg.n)

\* The merge is done; what is broadcast is the package merged from.
FinishMerge ==
    /\ front.at = "merge"
    /\ symbols' = symbols \cup front.msg.syms
    /\ Broadcast(LeftBehind(front.msg))
    /\ UNCHANGED stationVars
    /\ UNCHANGED <<conSet, loop, over, opens, greeted, snapshot, feed, lossy>>

\* handle_response_message of a depth or test package.
StartBroadcast ==
    /\ front.at = "idle"
    /\ fsQueue # <<>>
    /\ Head(fsQueue).tid \in {"SDepthData", "EnhancedDepthData", "RtnDepth"}
    /\ fsQueue' = Tail(fsQueue)
    /\ Broadcast(Head(fsQueue))
    /\ UNCHANGED <<phase, clock, extras, drQueue, dpQueue, processing, depth_data>>
    /\ UNCHANGED <<symbols, conSet, loop, over, opens, greeted, snapshot, feed, lossy>>

\* The walk moves to the next connection.
Walk ==
    /\ front.at = "walk"
    /\ \E c \in front.todo :
        /\ \A d \in front.todo : c <= d
        /\ front' = [front EXCEPT !.at = "send", !.todo = @ \ {c}, !.cur = c]
    /\ UNCHANGED stationVars
    /\ UNCHANGED <<symbols, conSet, loop, over, opens, published, greeted, snapshot,
                   feed, lossy>>

\* ws->send in broadcast.  A closed socket fakes success; a socket that
\* buffers too much skips the message and reports success.
Send ==
    /\ front.at = "send"
    /\ front' = [front EXCEPT !.at = "walk"]
    /\ LET c == front.cur IN
        /\ feed' = [feed EXCEPT ![c] = IF c \in conSet \ over THEN Append(@, front.msg) ELSE @]
        /\ lossy' = IF c \in conSet \cap over THEN lossy \cup {c} ELSE lossy
    /\ UNCHANGED stationVars
    /\ UNCHANGED <<symbols, conSet, loop, over, opens, published, greeted, snapshot>>

EndBroadcast ==
    /\ front.at = "walk"
    /\ front.todo = {}
    /\ front' = FrontIdle
    /\ UNCHANGED stationVars
    /\ UNCHANGED <<symbols, conSet, loop, over, opens, published, greeted, snapshot,
                   feed, lossy>>

-----------------------------------------------------------------------------
(* The uWS loop thread.                                                    *)

Walking == front.at \in {"walk", "send"}

\* The set changed under the walk: expected is what an undisturbed walk has
\* left to do, but any part of the new set may follow.  The connections the
\* difference concerns may miss the message or be sent it twice.
DisturbWalk(expected, lossyNow) ==
    \/ /\ ~Walking
       /\ lossy' = lossyNow
       /\ UNCHANGED front
    \/ /\ Walking
       /\ \E rest \in SUBSET conSet' :
           /\ front' = [front EXCEPT !.todo = rest]
           /\ lossy' = lossyNow \cup (rest \ expected) \cup (expected \ rest)

\* on_open, first statement: the connection is in the set from here on.
OnOpen(c) ==
    /\ phase = "serving"
    /\ loop.at = "idle"
    /\ c \notin conSet
    /\ opens < MaxOpens
    /\ opens' = opens + 1
    /\ conSet' = conSet \cup {c}
    /\ loop' = [at |-> "opened", con |-> c, snap |-> {}]
    /\ over' = over \ {c}
    /\ DisturbWalk(front.todo \cup (IF c > front.cur THEN {c} ELSE {}), lossy \ {c})
    /\ UNCHANGED stationVars
    /\ UNCHANGED <<symbols, published, greeted, snapshot, feed>>

\* get_symbols_str, which reads symbols_ while the front thread may be
\* merging into it.
ReadSymbols ==
    /\ loop.at = "opened"
    /\ \E read \in SUBSET (symbols \cup front.msg.syms) :
        /\ front.at # "merge" => read = symbols
        /\ loop' = [loop EXCEPT !.at = "greet", !.snap = read]
        /\ lossy' = IF symbols \subseteq read THEN lossy ELSE lossy \cup {loop.con}
    /\ UNCHANGED stationVars
    /\ UNCHANGED <<symbols, conSet, front, over, opens, published, greeted, snapshot, feed>>

\* ws->send of the symbols, the last statement of on_open.
Greet ==
    /\ loop.at = "greet"
    /\ loop' = LoopIdle
    /\ IF loop.con \in over
         THEN lossy' = lossy \cup {loop.con} /\ UNCHANGED <<greeted, snapshot>>
         ELSE /\ greeted' = greeted \cup {loop.con}
              /\ snapshot' = [snapshot EXCEPT ![loop.con] = loop.snap]
              /\ UNCHANGED lossy
    /\ UNCHANGED stationVars
    /\ UNCHANGED <<symbols, conSet, front, over, opens, published, feed>>

\* on_close: the connection leaves the set, its address may be used again.
OnClose(c) ==
    /\ loop.at = "idle"
    /\ c \in conSet
    /\ conSet' = conSet \ {c}
    /\ over' = over \ {c}
    /\ greeted' = greeted \ {c}
    /\ snapshot' = [snapshot EXCEPT ![c] = {}]
    /\ feed' = [feed EXCEPT ![c] = <<>>]
    /\ DisturbWalk(front.todo \ {c}, lossy)
    /\ UNCHANGED stationVars
    /\ UNCHANGED <<symbols, loop, opens, published>>

\* The peer reads too slowly, or has caught up.
Congest(c) ==
    /\ c \in conSet \ over
    /\ over' = over \cup {c}
    /\ UNCHANGED stationVars
    /\ UNCHANGED <<symbols, conSet, loop, front, opens, published, greeted, snapshot,
                   feed, lossy>>

Relieve(c) ==
    /\ c \in over
    /\ over' = over \ {c}
    /\ UNCHANGED stationVars
    /\ UNCHANGED <<symbols, conSet, loop, front, opens, published, greeted, snapshot,
                   feed, lossy>>

-----------------------------------------------------------------------------
FrontStep == StartMerge \/ FinishMerge \/ StartBroadcast \/ Walk \/ Send \/ EndBroadcast

LoopStep == ReadSymbols \/ Greet

Peers == \E c \in Conns : OnOpen(c) \/ OnClose(c) \/ Congest(c) \/ Relieve(c)

\* Every thread waits for work: the only way for the server to stand still.
Rest ==
    /\ phase = "serving"
    /\ drQueue = <<>> /\ dpQueue = <<>> /\ processing = <<>> /\ fsQueue = <<>>
    /\ front.at = "idle"
    /\ loop.at = "idle"
    /\ UNCHANGED vars

Next ==
    \/ StationStep /\ UNCHANGED frontVars
    \/ FrontStep
    \/ LoopStep
    \/ Peers
    \/ Rest

\* Every station has a thread of its own that runs the tasks posted to it
\* and that nothing blocks; so has the loop once it is in a callback.  The
\* hub, the peers and the test thread owe nothing.
Fairness ==
    /\ WF_vars(Launch /\ UNCHANGED frontVars)
    /\ WF_vars(DataReceiveStep /\ UNCHANGED frontVars)
    /\ WF_vars(DataProcessStep /\ UNCHANGED frontVars)
    /\ WF_vars(FrontStep)
    /\ WF_vars(LoopStep)

Spec == Init /\ [][Next]_vars
FairSpec == Spec /\ Fairness

-----------------------------------------------------------------------------
(* What the pipeline promises.                                             *)

\* The symbols announced by the first k packages of a queue.
SymsUpTo(queue, k) ==
    UNION {queue[i].syms : i \in {j \in 1..k : queue[j].tid = "SymbolData"}}

SymsOf(queue) == SymsUpTo(queue, Len(queue))

\* The symbols being merged right now.
Merging == IF front.at = "merge" THEN front.msg.syms ELSE {}

\* DataProcess announces a symbol exactly when it stores its first update
\* (data_process.cpp:96-100): whatever the threads do, the keys of
\* depth_data_ are the symbols of the front server and of announcements on
\* their way to it.
IndexAgrees == Stored = symbols \cup Merging \cup SymsOf(fsQueue)

\* process_sdepth_package announces before it delivers (data_process.cpp:
\* 99-102): a message about a symbol follows the announcement of it through
\* the queue, and once it is broadcast its symbols are in symbols_.
AnnouncedBeforeData ==
    /\ \A i \in DOMAIN fsQueue :
        fsQueue[i].tid # "SymbolData" =>
            fsQueue[i].syms \subseteq symbols \cup Merging \cup SymsUpTo(fsQueue, i - 1)
    /\ Walking => front.msg.syms \subseteq symbols

\* A message the front thread is still to send to connection c.
Owed(c) == \/ Walking /\ c \in front.todo
           \/ front.at = "send" /\ c = front.cur

Known(c) == snapshot[c] \cup UNION {feed[c][i].syms : i \in DOMAIN feed[c]}

\* A depth message of symbol s will still be broadcast to connection c.
DepthPending(s, c) ==
    \/ \E i \in DOMAIN fsQueue : fsQueue[i].tid = "EnhancedDepthData" /\ s \in fsQueue[i].syms
    \/ \E i \in DOMAIN processing : s \in processing[i].syms
    \/ Owed(c) /\ front.msg.tid = "EnhancedDepthData" /\ s \in front.msg.syms

\* on_open puts the connection into the set before it reads symbols_
\* (wb_server.cpp:58-62).  Hence no symbol falls between greeting and feed:
\* a greeted connection that lost nothing knows every symbol of symbols_
\* or will be sent a depth message of it.
NoSymbolMissed ==
    \A c \in greeted \ lossy : \A s \in symbols : s \in Known(c) \/ DepthPending(s, c)

\* broadcast reaches all of wss_con_set_ (wb_server.cpp:117-123): what a
\* connection that lost nothing was sent is, without gap, repetition or
\* reordering, the end of what was published, up to a message still owed.
Contiguous ==
    \A c \in conSet \ lossy :
        LET due == Len(published) - (IF Owed(c) THEN 1 ELSE 0)
        IN  /\ Len(feed[c]) <= due
            /\ \A i \in DOMAIN feed[c] : feed[c][i] = published[due - Len(feed[c]) + i]

\* "Provide front-server with full or incremental updates"
\* (front_server.h:12, in translation): a merge that
\* adds symbols to symbols_ broadcasts the symbols it added.
UpdatesCarryNews == [][symbols' \ symbols \subseteq front'.msg.syms]_vars

\* Every update pushed by the hub is broadcast, however threads interleave.
EveryUpdatePublished ==
    \A k \in 1..MaxUpdates :
        clock >= k ~> \E i \in DOMAIN published : published[i].tid = "EnhancedDepthData"
                                                  /\ published[i].n = k

\* A connected peer that loses nothing learns of every symbol the hub has
\* pushed, whether it came before or after the symbol.
EverySubscriberLearns ==
    \A c \in Conns, s \in Symbols :
        s \in Stored /\ c \in conSet ~> s \in Known(c) \/ c \notin conSet \/ c \in lossy

-----------------------------------------------------------------------------
(* The pipeline implements a relay: updates come out exactly once, in the  *)
(* order in which the hub pushed them.                                     *)

Carries(pkg) == pkg.tid \in {"SDepthData", "EnhancedDepthData"}

\* The numbers that package pkg carries, behind those before it.
Carry(before, pkg) == IF Carries(pkg) THEN Append(before, pkg.n) ELSE before

Numbers(queue) ==
    LET numbers[i \in 0..Len(queue)] == IF i = 0 THEN <<>> ELSE Carry(numbers[i - 1], queue[i])
    IN  numbers[Len(queue)]

DataTasks == [i \in DOMAIN dpQueue |-> dpQueue[i].pkg]

relay == INSTANCE Relay WITH
           emitted <- Numbers(published),
           backlog <- Numbers(fsQueue) \o Numbers(processing) \o Numbers(DataTasks)
                      \o Numbers(drQueue)

RelaySpec == relay!Spec
=============================================================================
