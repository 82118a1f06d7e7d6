----------------------------- MODULE Lifecycle -----------------------------
(***************************************************************************)
(* The process from its start to its end: what main constructs and         *)
(* launches and in which order, the threads that result, the loops the two *)
(* servers are bound to and run on, and what a signal does in the middle   *)
(* of it.  What the stations do with data is left to MarketServer.         *)
(***************************************************************************)
EXTENDS Loops, FiniteSets

CONSTANTS
    Files           \* the configuration files there may be

\* Threads that matter here: the websocket server's and the rest server's,
\* the hub's, and main itself.
Threads == {"main", "hub", "ws", "rest"}
Servers == {"ws", "rest"}

\* A file: whether it can be opened, whether it is JSON, and of each entry
\* whether it is there, missing or of a wrong type.
Entry == {"there", "missing", "wrong"}
File == [opens: BOOLEAN, parses: BOOLEAN, hub: Entry, ws: Entry, rest: Entry]

ASSUME LifecycleAssumption ==
    Files \subseteq File /\ Owner = "ws" /\ Deferrers \subseteq Threads

VARIABLES
    main,           \* where main is
    handlers,       \* the signal handlers are installed
    config,         \* Config: its ports, and whether anything was reported
    port,           \* server_port_ of each server
    frontServer,    \* servers whose front_server_ is set
    app,            \* the thread whose loop the App of a server is bound to
    loop,           \* of each thread: "none", "idle", "running" or "freed"
    listening,      \* servers whose socket listens
    threads,        \* running threads
    client,         \* of each server: a client that is away, waiting or served
    process         \* "up", "handling", "exiting", "stuck", or how it ended

lifeVars == <<main, handlers, config, port, frontServer, app, loop, listening, threads, client, process>>
vars == <<lifeVars, loopVars>>

Ended == {"gone", "killed", "terminated"}
Alive == process \notin Ended \cup {"stuck"}

LifeInit ==
    /\ main = "signals"
    /\ handlers = FALSE
    /\ config = [loaded |-> FALSE, ports |-> {}, reported |-> FALSE]
    /\ port = [s \in Servers |-> "none"]
    /\ frontServer = {}
    /\ app = [s \in Servers |-> "none"]
    /\ loop = [t \in Threads |-> "none"]
    /\ listening = {}
    /\ threads = {"main"}
    /\ client = [s \in Servers |-> "away"]
    /\ process = "up"

-----------------------------------------------------------------------------
(* Config.  The entries are read in order: one that is missing is reported *)
(* and left as it was, which is uninitialised; one of a wrong type throws, *)
(* and the rest is not read.                                               *)

\* mutant: an entry that is missing is passed over in silence.
LoadConfigSilent(file) ==
    LET read == IF file.hub = "wrong" THEN {} ELSE IF file.ws = "wrong" THEN {} ELSE {"ws", "rest"}
        throws == "wrong" \in {file.hub, file.ws, file.rest}
    IN  IF ~file.opens \/ ~file.parses THEN [loaded |-> TRUE, ports |-> {}, reported |-> TRUE]
        ELSE [loaded |-> TRUE, ports |-> {s \in read : file[s] = "there"}, reported |-> throws]
LoadConfig(file) ==
    LET read == IF file.hub = "wrong" THEN {} ELSE IF file.ws = "wrong" THEN {} ELSE {"ws", "rest"}
        complete == file.hub = "there" /\ file.ws = "there" /\ file.rest = "there"
    IN  IF ~file.opens \/ ~file.parses THEN [loaded |-> TRUE, ports |-> {}, reported |-> TRUE]
        ELSE [loaded |-> TRUE, ports |-> {s \in read : file[s] = "there"}, reported |-> ~complete]

PortOf(s) == IF s \in config'.ports THEN "read" ELSE "uninitialised"

-----------------------------------------------------------------------------
(* Loop::get: the loop of the calling thread, created at its first call.   *)

GotLoop(t) == [loop EXCEPT ![t] = IF @ = "none" THEN "idle" ELSE @]

-----------------------------------------------------------------------------
(* main                                                                    *)

MainAt(here, next) == Alive /\ main = here /\ main' = next

\* setup_signal_handler_callback
SetupSignals ==
    /\ MainAt("signals", "ws_server")
    /\ handlers' = TRUE
    /\ UNCHANGED <<config, port, frontServer, app, loop, listening, threads, client, process>>

\* The engine's stations, of which FrontServer constructs a WBServer: its
\* App member, the first use of CONFIG, and its port.
NewWBServer ==
    /\ MainAt("ws_server", "rest_server")
    /\ loop' = GotLoop("main")
    /\ \E file \in Files : config' = LoadConfig(file)
    /\ port' = [port EXCEPT !["ws"] = PortOf("ws")]
    /\ UNCHANGED <<handlers, frontServer, app, listening, threads, client, process>>

\* mutant: the App is constructed on the thread that will run it.
NewRestServerLater ==
    /\ MainAt("rest_server", "launch")
    /\ port' = [port EXCEPT !["rest"] = IF "rest" \in config.ports THEN "read" ELSE "uninitialised"]
    /\ app' = [app EXCEPT !["rest"] = "rest"]
    /\ UNCHANGED <<handlers, config, frontServer, loop, listening, threads, client, process>>
\* FrontServer's RestServer: its App is bound to the loop of main.  The
\* engine is published by the singleton when this is done.
NewRestServer ==
    /\ MainAt("rest_server", "launch")
    /\ port' = [port EXCEPT !["rest"] = IF "rest" \in config.ports THEN "read" ELSE "uninitialised"]
    /\ app' = [app EXCEPT !["rest"] = "main"]
    /\ loop' = GotLoop("main")
    /\ UNCHANGED <<handlers, config, frontServer, listening, threads, client, process>>

Published == main \notin {"signals", "ws_server", "rest_server"}

\* ServerEngine::launch: the hub may call back from here on.
LaunchStations ==
    /\ MainAt("launch", "set_front")
    /\ threads' = threads \cup {"hub"}
    /\ UNCHANGED <<handlers, config, port, frontServer, app, loop, listening, client, process>>

\* FrontServer::launch
SetFrontServer ==
    /\ MainAt("set_front", "launch_ws")
    /\ frontServer' = Servers
    /\ UNCHANGED <<handlers, config, port, app, loop, listening, threads, client, process>>

LaunchWs ==
    /\ MainAt("launch_ws", "launch_rest")
    /\ threads' = threads \cup {"ws"}
    /\ UNCHANGED <<handlers, config, port, frontServer, app, loop, listening, client, process>>

LaunchRest ==
    /\ MainAt("launch_rest", "block")
    /\ threads' = threads \cup {"rest"}
    /\ UNCHANGED <<handlers, config, port, frontServer, app, loop, listening, client, process>>

MainStep == SetupSignals \/ NewWBServer \/ NewRestServer \/ LaunchStations
            \/ SetFrontServer \/ LaunchWs \/ LaunchRest

-----------------------------------------------------------------------------
(* The threads of the servers.                                             *)

Runs(t) == Alive /\ t \in threads

\* mutant: the App of the websockets is bound to the loop of main as well.
WsAppOfMain ==
    /\ Runs("ws") /\ app["ws"] = "none"
    /\ app' = [app EXCEPT !["ws"] = "main"]
    /\ UNCHANGED <<main, handlers, config, port, frontServer, loop, listening, threads, client, process>>
\* WBServer::listen: an App of its own, bound to the loop of this thread.
WsApp ==
    /\ Runs("ws") /\ app["ws"] = "none"
    /\ app' = [app EXCEPT !["ws"] = "ws"]
    /\ loop' = GotLoop("ws")
    /\ UNCHANGED <<main, handlers, config, port, frontServer, listening, threads, client, process>>

\* App::listen: the port may be taken, and then the handler gets no token,
\* which it passes over.
Listen(s, works) ==
    /\ Runs(s) /\ app[s] # "none" /\ loop[s] \notin {"running", "freed"} /\ s \notin listening
    /\ listening' = IF works THEN listening \cup {s} ELSE listening
    /\ loop' = [GotLoop(s) EXCEPT ![s] = "running"]
    /\ UNCHANGED <<main, handlers, config, port, frontServer, app, threads, client, process>>

\* A loop has something to poll: a listen socket, or the sockets it accepted.
Polls(t) == \E s \in listening : app[s] = t

\* App::run returns when its thread's own loop has nothing to poll, and the
\* thread ends.
ReturnFromRun(s) ==
    /\ Runs(s) /\ loop[s] = "running" /\ ~Polls(s)
    /\ loop' = [loop EXCEPT ![s] = "freed"]
    /\ threads' = threads \ {s}
    /\ UNCHANGED <<main, handlers, config, port, frontServer, app, listening, client, process>>

\* What the server does with a client: on_open greets a websocket, while
\* the handlers of RestServer do nothing, and HttpContext terminates the
\* process when a handler neither answers nor asks to learn of an abort.
Handled(s) == IF s = "ws" THEN "up" ELSE "terminated"

\* A loop that runs accepts what the kernel has for its listen sockets.
ServeClient(s) ==
    /\ Runs(app[s]) /\ loop[app[s]] = "running"
    /\ s \in listening /\ client[s] = "waiting"
    /\ client' = [client EXCEPT ![s] = "served"]
    /\ process' = IF Handled(s) = "terminated" THEN "terminated" ELSE process
    /\ UNCHANGED <<main, handlers, config, port, frontServer, app, loop, listening, threads>>

ServerStep(s) ==
    \/ \E works \in BOOLEAN : Listen(s, works)
    \/ ReturnFromRun(s)
    \/ ServeClient(s)

\* A client connects: the kernel completes the handshake for any socket
\* that listens.
Connect(s) ==
    /\ Alive /\ s \in listening /\ client[s] = "away"
    /\ client' = [client EXCEPT ![s] = "waiting"]
    /\ UNCHANGED <<main, handlers, config, port, frontServer, app, loop, listening, threads, process>>

Leave(s) ==
    /\ Alive /\ client[s] = "served"
    /\ client' = [client EXCEPT ![s] = "away"]
    /\ UNCHANGED <<main, handlers, config, port, frontServer, app, loop, listening, threads, process>>

-----------------------------------------------------------------------------
(* Signals.                                                                *)

Becomes(p) ==
    /\ process' = p
    /\ UNCHANGED <<main, handlers, config, port, frontServer, app, loop, listening, threads, client>>

\* SIGTERM, SIGINT, SIGHUP or SIGQUIT.  The handler calls printf, which may
\* never return when it interrupts a thread that is inside the C library.
Signal ==
    /\ process = "up"
    /\ IF ~handlers THEN Becomes("killed") ELSE Becomes("handling") \/ Becomes("stuck")

\* SERVER_EENGINE->release(): none of the stations does anything in it.
\* Before the engine is published this reads through a null pointer, and
\* the SIGSEGV that follows inside its own handler kills the process.
HandleSignal ==
    /\ process = "handling"
    /\ Becomes(IF Published THEN "exiting" ELSE "killed")

\* exit(0).  Whether the singleton destructs the engine is the library's
\* affair.  If so, the destructors of RestServer and WBServer join nothing,
\* because their tests are the wrong way round: they read through a null
\* pointer, or destruct a thread that was not joined.  Either raises a
\* signal that is handled by exiting again, which C++ leaves undefined.
Exit ==
    /\ process = "exiting"
    /\ \E end \in {"gone", "killed", "stuck"} : Becomes(end)

-----------------------------------------------------------------------------

Init == LifeInit /\ LoopInit

Life ==
    \/ MainStep
    \/ WsApp
    \/ \E s \in Servers : ServerStep(s) \/ Connect(s) \/ Leave(s)
    \/ Signal
    \/ HandleSignal
    \/ Exit

\* The loop of the websocket server while it has a socket to poll, and the
\* threads that defer to it.
LoopUsed == Runs(Owner) /\ loop[Owner] = "running" /\ Polls(Owner)

Next ==
    \/ Life /\ UNCHANGED loopVars
    \/ LoopUsed /\ (\E t \in threads \cap Deferrers : Defer(t) \/ WakeUp(t)) /\ UNCHANGED lifeVars
    \/ LoopUsed /\ (Swap \/ RunCallback \/ Clear) /\ UNCHANGED lifeVars

\* Threads run; whether clients and signals come, what a signal leads to,
\* and whether a thread defers anything, is open.
Fairness ==
    /\ WF_vars(MainStep /\ UNCHANGED loopVars)
    /\ WF_vars(WsApp /\ UNCHANGED loopVars)
    /\ \A s \in Servers : WF_vars((\E works \in BOOLEAN : Listen(s, works)) /\ UNCHANGED loopVars)
    /\ \A s \in Servers : WF_vars(ReturnFromRun(s) /\ UNCHANGED loopVars)
    /\ \A s \in Servers : WF_vars(ServeClient(s) /\ UNCHANGED loopVars)
    /\ \A t \in Deferrers : WF_vars(LoopUsed /\ WakeUp(t) /\ UNCHANGED lifeVars)
    /\ WF_vars(LoopUsed /\ (Swap \/ RunCallback \/ Clear) /\ UNCHANGED lifeVars)

Spec == Init /\ [][Next]_vars /\ Fairness

-----------------------------------------------------------------------------

LifeTypeOK ==
    /\ main \in {"signals", "ws_server", "rest_server", "launch", "set_front", "launch_ws", "launch_rest", "block"}
    /\ handlers \in BOOLEAN
    /\ config \in [loaded: BOOLEAN, ports: SUBSET Servers, reported: BOOLEAN]
    /\ port \in [Servers -> {"none", "read", "uninitialised"}]
    /\ frontServer \subseteq Servers
    /\ app \in [Servers -> Threads \cup {"none"}]
    /\ loop \in [Threads -> {"none", "idle", "running", "freed"}]
    /\ listening \subseteq Servers
    /\ threads \subseteq Threads
    /\ client \in [Servers -> {"away", "waiting", "served"}]
    /\ process \in {"up", "handling", "exiting", "stuck"} \cup Ended

TypeOK == LifeTypeOK /\ LoopTypeOK

(* A port that was not in the file is used all the same, but not without a *)
(* word about it.                                                          *)
PortsReported ==
    (\E s \in Servers : port[s] = "uninitialised") => config.reported

(* No client brings the process down.  A request to the rest server would: *)
(* its handlers do not answer, which HttpContext answers with terminate.   *)
(* What prevents it is that the App is bound to the loop of main, which    *)
(* nobody runs.                                                            *)
SurvivesClients == process # "terminated"

(* A client of the websocket server is served, as long as the process is   *)
(* there.                                                                  *)
EveryClientServed == client["ws"] = "waiting" ~> client["ws"] = "served" \/ process # "up"

(* What was deferred to the loop of the websocket server is called, as     *)
(* long as the process is there: no wakeup is lost to one that is being    *)
(* handled.                                                                *)
EveryCallbackRuns ==
    \A n \in 1..MaxDeferred : (Deferred >= n) ~> (Len(ran) >= n \/ process # "up")

=============================================================================
