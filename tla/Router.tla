------------------------------- MODULE Router -------------------------------
(***************************************************************************)
(* HttpRouter (HttpRouter.h): the tree of patterns an App registers, and   *)
(* the walk that finds the handlers of a request.                          *)
(*                                                                         *)
(* A URL or a pattern is the sequence of its segments, and a segment is    *)
(* <<kind, rank>>: "*" for a wildcard, ":" for a parameter, "=" for any    *)
(* other name, "" for the empty one; names compare as their ranks do.      *)
(* Names that begin with a digit rank below ":".                           *)
(***************************************************************************)
EXTENDS Integers, Sequences, FiniteSets, SequencesExt

CONSTANT MaxSegments    \* HttpRouter::MAX_URL_SEGMENTS

ASSUME SegmentsAssumption == MaxSegments \in Nat

HIGH_PRIORITY == 1
MEDIUM_PRIORITY == 2
LOW_PRIORITY == 3

NoSegment == <<"", 0>>

\* getUrlSegment: a walk stops behind the last segment there is room for.
Segments(url) == SubSeq(url, 1, IF Len(url) < MaxSegments THEN Len(url) ELSE MaxSegments)

-----------------------------------------------------------------------------
(* The tree: a function from the path to a node to its children, which are *)
(* the last steps of the paths to them, and its handlers.  The children of *)
(* the root are the methods.                                               *)

NewNode == [children |-> <<>>, handlers |-> <<>>]

EmptyTree == [path \in {<<>>} |-> NewNode]

\* std::upper_bound: where a search that halves the range ends, among n
\* elements of which x comes before those with an index in behind.
UpperBound(n, behind) ==
    LET range[k \in 0..n] ==
            IF k = 0 THEN [first |-> 1, last |-> n + 1]
            ELSE LET r == range[k - 1]
                     middle == r.first + (r.last - r.first) \div 2
                 IN  IF r.first = r.last THEN r
                     ELSE IF middle \in behind THEN [r EXCEPT !.last = middle]
                     ELSE [r EXCEPT !.first = middle + 1]
    IN  range[n].first

Insertion(xs, x, behind) == InsertAt(xs, UpperBound(Len(xs), behind), x)

\* Siblings of high priority come first, and higher names.  Nothing comes
\* before an empty name, and the methods stay as they come.
Precedes(parent, a, b) ==
    IF a.high # b.high THEN a.high
    ELSE parent # <<>> /\ b.name # NoSegment /\ b.name[2] < a.name[2]

\* mutant: nodes are found by name alone, so a websocket shares those of a get.
IsChildByName(child, name, high) == child.name = name
IsChild(child, name, high) == child.name = name /\ child.high = high

WithNode(tree, new) ==
    [path \in DOMAIN tree \cup {new} |-> IF path = new THEN NewNode ELSE tree[path]]

\* getNode: the child, added to the tree if it is new.
GetNode(at, name, high) ==
    LET siblings == at.tree[at.path].children
        found == SelectInSeq(siblings, LAMBDA child : IsChild(child, name, high))
        new == [name |-> name, high |-> high]
        behind == {i \in DOMAIN siblings : Precedes(at.path, new, siblings[i])}
    IN  IF found # 0 THEN [at EXCEPT !.path = Append(@, siblings[found])]
        ELSE [tree |-> WithNode([at.tree EXCEPT ![at.path].children = Insertion(@, new, behind)],
                                Append(at.path, new)),
              path |-> Append(at.path, new)]

HandlerPrecedes(a, b) == a.priority < b.priority \/ (a.priority = b.priority /\ a.id < b.id)

\* add, under one method: the handler goes to the node the pattern ends at.
\* (onHttp: a websocket has high priority, a route for any method a low one.)
AddUnder(tree, method, route, id) ==
    LET segments == Segments(route.pattern)
        handler == [id |-> id, priority |-> route.priority]
        at[i \in 0..Len(segments)] ==
            IF i = 0 THEN GetNode([tree |-> tree, path |-> <<>>], method, FALSE)
            ELSE GetNode(at[i - 1], segments[i], route.priority = HIGH_PRIORITY)
        end == at[Len(segments)]
        handlers == end.tree[end.path].handlers
        behind == {i \in DOMAIN handlers : HandlerPrecedes(handler, handlers[i])}
    IN  [end.tree EXCEPT ![end.path].handlers = Insertion(@, handler, behind)]

\* add: handler number id, under each of its methods.
Add(tree, route, id) ==
    LET added[i \in 0..Len(route.methods)] ==
            IF i = 0 THEN tree ELSE AddUnder(added[i - 1], route.methods[i], route, id)
    IN  added[Len(route.methods)]

\* The tree of an App, from its routes in the order they are registered.
TreeOf(routes) ==
    LET tree[i \in 0..Len(routes)] == IF i = 0 THEN EmptyTree ELSE Add(tree[i - 1], routes[i], i)
    IN  tree[Len(routes)]

-----------------------------------------------------------------------------
(* The walk.  The method is the first step of a path, so the segment a     *)
(* node's children are tried with has the number of its path's length.     *)

\* The parameters pushed on the way to a node, and not popped there.
RouteParameters(path, url) ==
    LET pushed[i \in 0..(Len(path) - 1)] ==
            IF i = 0 THEN <<>>
            ELSE IF path[i + 1].name[1] = ":" THEN Append(pushed[i - 1], url[i])
            ELSE pushed[i - 1]
    IN  pushed[Len(path) - 1]

NoRoute == [id |-> 0, params |-> <<>>]

\* The first handler that does not yield, called with the parameters.
Call(handlers, params, yielding) ==
    LET at == SelectInSeq(handlers, LAMBDA handler : handler.id \notin yielding)
    IN  IF at = 0 THEN NoRoute ELSE [id |-> handlers[at].id, params |-> params]

\* executeHandlers: who answers, of the handlers at a node and below it.
Execute(tree, start, url, yielding) ==
    LET answer[path \in DOMAIN tree] ==
            LET children == tree[path].children
                segment == url[Len(path)]
                Try(child) ==
                    IF child.name[1] = "*"
                      THEN Call(tree[Append(path, child)].handlers, RouteParameters(path, url), yielding)
                    ELSE IF \/ child.name[1] = ":" /\ segment # NoSegment
                            \/ child.name = segment
                      THEN answer[Append(path, child)]
                    ELSE NoRoute
                at == SelectInSeq(children, LAMBDA child : Try(child) # NoRoute)
            IN  IF Len(path) > Len(url)
                  THEN Call(tree[path].handlers, RouteParameters(path, url), yielding)
                ELSE IF at = 0 THEN NoRoute ELSE Try(children[at])
    IN  answer[start]

\* route: from the node of the method, the URL.
Route(tree, method, url, yielding) ==
    LET methods == tree[<<>>].children
        at == SelectInSeq(methods, LAMBDA child : child.name = method)
    IN  IF at = 0 THEN NoRoute ELSE Execute(tree, <<methods[at]>>, Segments(url), yielding)

-----------------------------------------------------------------------------
(* What a program that registers routes expects: of those that match, the  *)
(* one whose pattern is more specific at the first segment they differ in, *)
(* and of equal patterns the one of higher priority, then the older one.   *)
(* It does not depend on the order of registration otherwise.              *)

SegmentMatches(p, s) == IF p[1] = ":" THEN s # NoSegment ELSE p = s

Matches(route, method, url) ==
    LET p == Segments(route.pattern)
        u == Segments(url)
        wild == {i \in DOMAIN p : p[i][1] = "*"}
    IN  /\ \E i \in DOMAIN route.methods : route.methods[i] = method
        /\ \A i \in DOMAIN p \ wild : i \in DOMAIN u /\ SegmentMatches(p[i], u[i])
        /\ IF wild = {} THEN Len(p) = Len(u) ELSE wild = {Len(p)} /\ Len(p) <= Len(u)

\* An empty name is as specific as can be, a wildcard least.
MoreSpecific(a, b) == b # NoSegment /\ (a = NoSegment \/ b[2] < a[2])

Preferred(routes, a, b) ==
    LET p == Segments(routes[a].pattern)
        q == Segments(routes[b].pattern)
        high == [x \in {a, b} |-> routes[x].priority = HIGH_PRIORITY]
        differ == {i \in DOMAIN p \cap DOMAIN q : p[i] # q[i]}
        at == CHOOSE i \in differ : \A j \in differ : i <= j
    IN  IF high[a] # high[b] THEN high[a]
        ELSE IF differ # {} THEN MoreSpecific(p[at], q[at])
        ELSE HandlerPrecedes([priority |-> routes[a].priority, id |-> a],
                             [priority |-> routes[b].priority, id |-> b])

ParametersOf(p, url) ==
    LET parameters == {i \in DOMAIN p : p[i][1] = ":"}
        nth(n) == CHOOSE i \in parameters : Cardinality({j \in parameters : j <= i}) = n
    IN  [n \in 1..Cardinality(parameters) |-> url[nth(n)]]

Expected(routes, method, url, yielding) ==
    LET found == {r \in DOMAIN routes \ yielding : Matches(routes[r], method, url)}
        best == CHOOSE r \in found : \A other \in found \ {r} : Preferred(routes, r, other)
    IN  IF found = {} THEN NoRoute
        ELSE [id |-> best, params |-> ParametersOf(Segments(routes[best].pattern), url)]

\* An empty segment is registered before its siblings are: the routes that
\* share a method, the priority and the segments in front of it.
Siblings(routes, a, b, i) ==
    LET p == Segments(routes[a].pattern)
        q == Segments(routes[b].pattern)
    IN  /\ i \in DOMAIN p \cap DOMAIN q
        /\ Range(routes[a].methods) \cap Range(routes[b].methods) # {}
        /\ (routes[a].priority = HIGH_PRIORITY) = (routes[b].priority = HIGH_PRIORITY)
        /\ \A j \in 1..(i - 1) : p[j] = q[j]

EmptyFirst(routes) ==
    \A a, b \in DOMAIN routes, i \in 1..MaxSegments :
        a < b /\ Siblings(routes, a, b, i) /\ Segments(routes[b].pattern)[i] = NoSegment
            => Segments(routes[a].pattern)[i] = NoSegment

=============================================================================
