------------------------------ MODULE Inbound ------------------------------
(***************************************************************************)
(* What a connection of an App receives, from the routes the program       *)
(* registers over the HTTP requests of the peer to the frames it sends     *)
(* once one of its requests was an upgrade.                                *)
(***************************************************************************)
EXTENDS Router, HttpConnection, FrameParser

CONSTANTS
    Program,        \* the routes of the App, in the order they are registered
    Candidates,     \* routes a program may register, in any order
    Urls            \* the URLs they are tried with

RouteTypes ==
    [methods : Seq(STRING), pattern : Seq(STRING \X Int),
     priority : {HIGH_PRIORITY, MEDIUM_PRIORITY, LOW_PRIORITY}, does : STRING]

Names == UNION {Range(route.pattern) : route \in Candidates \cup Range(Program)}

ASSUME RoutesAssumption ==
    /\ Program \in Seq(RouteTypes)
    /\ Candidates \subseteq RouteTypes
    /\ Urls \subseteq Seq(STRING \X Int)
    /\ \A a, b \in Names : a[2] = b[2] => a = b

VARIABLE routes     \* the routes registered so far, in that order

vars == <<routes, httpVars, frameVars>>

ProgramTree == TreeOf(Program)

\* What the handler does that the program's tree leads to; that of an
\* upgrade yields without a key.
Routed(q) ==
    LET yielding == {id \in DOMAIN Program : Program[id].does = "upgrade" /\ ~q.key}
        route == Route(ProgramTree, q.method, q.url, yielding)
    IN  IF route = NoRoute THEN "none" ELSE Program[route.id].does

Listening == routes = Program

\* A program that listens and has a connection, or one that registers.
Init ==
    /\ routes \in {<<>>, Program}
    /\ HttpInit
    /\ ~Listening => requests = <<>>
    /\ FrameInit

\* App::ws, get, post and so on.
Register(route) ==
    /\ ~Listening
    /\ route \notin Range(routes)
    /\ routes' = Append(routes, route)
    /\ UNCHANGED <<httpVars, frameVars>>

\* us_socket_context_adopt_socket: the connection goes on as a websocket.
\* The peer waits for the 101, so no frame shares a chunk with the request.
Adopt ==
    /\ Listening /\ http.state = "upgraded"
    /\ \E fs \in FrameStreams : StartFrames(fs)
    /\ UNCHANGED <<routes, httpVars>>

Serve == Listening /\ HttpStep /\ UNCHANGED <<routes, frameVars>>

Parse == Listening /\ FrameStep /\ UNCHANGED <<routes, httpVars>>

Next ==
    \/ \E route \in Candidates : Register(route)
    \/ Serve
    \/ Adopt
    \/ Parse

Spec == Init /\ [][Next]_vars

-----------------------------------------------------------------------------

(* Whatever was registered before, a request goes to the handler of the    *)
(* most specific pattern that matches it, with the parameters of that      *)
(* pattern, a websocket's first; handlers that yield are passed over and   *)
(* leave no parameters behind (HttpRouter::add and route).  An empty name  *)
(* that comes after its siblings is not inserted where it belongs.         *)
RoutedRight ==
    LET tree == TreeOf(routes)
    IN  EmptyFirst(routes) =>
            \A method \in {"get", "post"}, url \in Urls, key \in BOOLEAN :
                LET yielding == {id \in DOMAIN routes : routes[id].does = "upgrade" /\ ~key}
                IN  Route(tree, method, url, yielding) = Expected(routes, method, url, yielding)

=============================================================================
