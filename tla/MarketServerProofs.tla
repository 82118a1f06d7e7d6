------------------------- MODULE MarketServerProofs -------------------------
(***************************************************************************)
(* Theorems about MarketServer, for every set of symbols, every number of  *)
(* connections and every bound.                                            *)
(***************************************************************************)
EXTENDS MarketServer, WellFoundedInduction, TLAPS

-----------------------------------------------------------------------------
(* Type correctness.                                                       *)

\* A queue stays one when a package is posted to it or taken from it.
LEMMA QueueTypes ==
  ASSUME NEW S, NEW q \in Seq(S)
  PROVE  /\ \A x \in S : Append(q, x) \in Seq(S)
         /\ q # <<>> => Head(q) \in S /\ Tail(q) \in Seq(S)
         /\ \A x \in S : <<x>> \in Seq(S)
OBVIOUS

\* The steps of the two stations keep their variables in their types.
LEMMA StationsType ==
  ASSUME StationsTypeOK, StationStep
  PROVE  StationsTypeOK'
<1> USE BoundsAssumption DEF StationsTypeOK
<1>0. /\ \A S \in SUBSET Symbols, k \in 0..MaxUpdates, t \in Tids : Pkg(t, S, k) \in Package
      /\ \A p \in Package : Response(p) \in Task
  BY DEF Pkg, Package, Response, Task
<1>1. CASE Launch
  BY <1>1 DEF Launch, LaunchReceive, LaunchProcess, LaunchFront
<1>2. ASSUME NEW s \in Symbols, OnDepth(s)
      PROVE  StationsTypeOK'
  <2>1. Pkg("SDepthData", {s}, clock + 1) \in Package /\ clock + 1 \in 0..MaxUpdates
    BY <1>0, <1>2 DEF OnDepth, Tids
  <2> QED BY <1>2, <2>1, QueueTypes DEF OnDepth
<1>3. ASSUME NEW s \in Symbols, OnKline(s)
      PROVE  StationsTypeOK'
  <2>1. Pkg("KlineData", {s}, 0) \in Package /\ extras + 1 \in 0..MaxExtras
    BY <1>0, <1>3 DEF OnKline, Tids
  <2> QED BY <1>3, <2>1, QueueTypes DEF OnKline
<1>4. CASE TestMain
  <2>1. Response(Pkg("RtnDepth", {}, 0)) \in Task /\ extras + 1 \in 0..MaxExtras
    BY <1>0, <1>4 DEF TestMain, Tids
  <2> QED BY <1>4, <2>1, QueueTypes DEF TestMain
<1>5. CASE RequestAllSymbol
  <2>1. SymbolRequest \in Task /\ extras + 1 \in 0..MaxExtras
    BY <1>0, <1>5 DEF RequestAllSymbol, SymbolRequest, Task, Tids
  <2> QED BY <1>5, <2>1, QueueTypes DEF RequestAllSymbol
<1>6. CASE HandleDepthData
  <2>1. Head(drQueue) \in Package /\ Response(Head(drQueue)) \in Task
    BY <1>0, <1>6, QueueTypes DEF HandleDepthData
  <2> QED BY <1>6, <2>1, QueueTypes DEF HandleDepthData
<1>7. CASE HandleKlineData
  BY <1>7, QueueTypes DEF HandleKlineData
<1>8. CASE HandleRequest
  <2>1. Announcement(Stored) \in Package
    BY <1>0 DEF Stored, Announcement, Tids
  <2> QED BY <1>8, <2>1, QueueTypes DEF HandleRequest, NextTaskIs
<1>9. CASE PassOn
  <2>0. Head(dpQueue) \in Task
    BY <1>9, QueueTypes DEF PassOn, NextTaskIs
  <2>1. Head(dpQueue).pkg \in Package
    BY <2>0 DEF Task
  <2> QED BY <1>9, <2>1, QueueTypes DEF PassOn, NextTaskIs
<1>10. CASE ProcessSDepth
  <2> DEFINE pkg == Head(dpQueue).pkg
             new == pkg.syms \ Stored
  <2>0. Head(dpQueue) \in Task
    BY <1>10, QueueTypes DEF ProcessSDepth, NextTaskIs
  <2>1. pkg \in Package
    BY <2>0 DEF Task
  <2>2. /\ EnhancedDepth(pkg) \in Package
        /\ Announcement(new) \in Package
        /\ pkg.n \in 0..MaxUpdates
    <3>1. pkg.syms \in SUBSET Symbols /\ pkg.n \in 0..MaxUpdates
      BY <2>1 DEF Package
    <3>2. new \in SUBSET Symbols /\ 0 \in 0..MaxUpdates
      BY <3>1
    <3> HIDE DEF pkg, new
    <3> QED BY <1>0, <3>1, <3>2 DEF EnhancedDepth, Announcement, Tids
  <2>3. depth_data' \in [Symbols -> 0..MaxUpdates]
    BY <1>10, <2>2 DEF ProcessSDepth
  <2>4. dpQueue' \in Seq(Task)
    <3>1. dpQueue # <<>> /\ dpQueue' = Tail(dpQueue)
      BY <1>10 DEF ProcessSDepth, NextTaskIs
    <3> QED BY <3>1, QueueTypes
  <2>5. processing' = <<EnhancedDepth(pkg)>> /\ processing' \in Seq(Package)
    <3>1. processing' = <<EnhancedDepth(pkg)>>
      BY <1>10 DEF ProcessSDepth, Announce, ToDeliver
    <3> QED BY <2>2, <3>1, QueueTypes
  <2>6. fsQueue' = fsQueue \/ fsQueue' = Append(fsQueue, Announcement(new))
    BY <1>10 DEF ProcessSDepth, Announce, ToDeliver
  <2>7. fsQueue' \in Seq(Package)
    <3> HIDE DEF pkg, new
    <3> QED BY <2>2, <2>6, QueueTypes
  <2>8. UNCHANGED <<phase, clock, extras, drQueue>>
    BY <1>10 DEF ProcessSDepth
  <2> QED BY <2>3, <2>4, <2>5, <2>7, <2>8
<1>11. CASE DeliverDepth
  BY <1>11, QueueTypes DEF DeliverDepth
<1> QED
  BY <1>1, <1>2, <1>3, <1>4, <1>5, <1>6, <1>7, <1>8, <1>9, <1>10, <1>11
  DEF StationStep, Environment, DataReceiveStep, DataProcessStep

\* A callback of the loop works on a connection of the set that has not been
\* greeted yet: on_close cannot run before on_open returns.
CallbackConn ==
    /\ loop.at # "idle" => loop.con \in conSet \ greeted
    /\ greeted \subseteq conSet

\* The records of the two threads, field by field.
LEMMA ThreadRecords ==
  ASSUME TypeOK
  PROVE  /\ NoMsg \in Package
         /\ FrontIdle \in FrontState /\ LoopIdle \in LoopState
         /\ \A p \in Package : p.syms \in SUBSET Symbols /\ LeftBehind(p) \in Package
         /\ front.msg \in Package /\ front.todo \in SUBSET Conns
         /\ loop.snap \in SUBSET Symbols
         /\ \A m \in Package, T \in SUBSET Conns :
               [at |-> "walk", msg |-> m, todo |-> T, cur |-> NoConn] \in FrontState
         /\ \A m \in Package : [FrontIdle EXCEPT !.at = "merge", !.msg = m] \in FrontState
         /\ \A c \in Conns, S \in SUBSET Symbols :
               [at |-> "opened", con |-> c, snap |-> S] \in LoopState
<1> USE BoundsAssumption, ConnAssumption
<1>1. NoMsg \in Package /\ NoConn \in 0..NumConns
  BY DEF NoMsg, Pkg, Package, Tids, NoConn
<1>2. FrontIdle \in FrontState /\ LoopIdle \in LoopState
  BY <1>1 DEF FrontIdle, FrontState, LoopIdle, LoopState
<1>3. \A p \in Package : p.syms \in SUBSET Symbols /\ LeftBehind(p) \in Package
  BY DEF LeftBehind, Pkg, Package
<1>4. /\ front.msg \in Package /\ front.todo \in SUBSET Conns
      /\ loop.snap \in SUBSET Symbols
  BY DEF TypeOK, FrontTypeOK, FrontState, LoopState
<1>5. \A m \in Package, T \in SUBSET Conns :
        [at |-> "walk", msg |-> m, todo |-> T, cur |-> NoConn] \in FrontState
  BY <1>1 DEF FrontState
<1>6. \A m \in Package : [FrontIdle EXCEPT !.at = "merge", !.msg = m] \in FrontState
  BY <1>1 DEF FrontState, FrontIdle
<1>7. \A c \in Conns, S \in SUBSET Symbols :
        [at |-> "opened", con |-> c, snap |-> S] \in LoopState
  BY DEF LoopState, Conns
<1> QED BY <1>1, <1>2, <1>3, <1>4, <1>5, <1>6, <1>7

\* The steps of the front server's two threads and of the peers keep all
\* variables in their types.
LEMMA FrontType ==
  ASSUME TypeOK, CallbackConn, FrontStep \/ LoopStep \/ Peers
  PROVE  TypeOK'
<1>a. Conns \subseteq 0..NumConns /\ NumConns \in Nat
  BY ConnAssumption DEF Conns
<1>b. opens < MaxOpens => opens + 1 \in 0..MaxOpens
  BY ConnAssumption DEF TypeOK, FrontTypeOK
<1>c. <<>> \in Seq(Package)
  OBVIOUS
<1> USE ThreadRecords DEF TypeOK, FrontTypeOK
<1>1. ASSUME UNCHANGED stationVars
      PROVE  StationsTypeOK'
  BY <1>1 DEF stationVars, StationsTypeOK, Package, Task, Tids
<1>2. fsQueue # <<>> => Head(fsQueue) \in Package /\ Tail(fsQueue) \in Seq(Package)
  BY QueueTypes DEF StationsTypeOK
<1>3. ASSUME NEW m \in Package, Broadcast(m)
      PROVE  front' \in FrontState /\ published' \in Seq(Package)
  BY <1>3, QueueTypes DEF Broadcast
<1>4. ASSUME NEW T \in SUBSET Conns, NEW L \in SUBSET Conns, DisturbWalk(T, L),
             conSet' \in SUBSET Conns
      PROVE  front' \in FrontState /\ lossy' \in SUBSET Conns
  <2>1. CASE UNCHANGED front /\ lossy' = L
    BY <2>1
  <2>2. ASSUME NEW rest \in SUBSET conSet', front' = [front EXCEPT !.todo = rest],
               lossy' = L \cup (rest \ T) \cup (T \ rest)
        PROVE  front' \in FrontState /\ lossy' \in SUBSET Conns
    BY <1>4, <2>2 DEF FrontState
  <2> QED BY <1>4, <2>1, <2>2 DEF DisturbWalk
<1>5. CASE StartMerge
  <2>1. StationsTypeOK'
    BY <1>5, <1>2 DEF StartMerge, StationsTypeOK
  <2>2. front' \in FrontState
    BY <1>5, <1>2 DEF StartMerge
  <2> QED BY <1>5, <2>1, <2>2 DEF StartMerge
<1>6. CASE FinishMerge
  <2>1. front' \in FrontState /\ published' \in Seq(Package)
    BY <1>6, <1>3 DEF FinishMerge
  <2> QED BY <1>6, <1>1, <2>1 DEF FinishMerge
<1>7. CASE StartBroadcast
  <2>1. StationsTypeOK'
    BY <1>7, <1>2 DEF StartBroadcast, StationsTypeOK
  <2>2. front' \in FrontState /\ published' \in Seq(Package)
    BY <1>7, <1>2, <1>3 DEF StartBroadcast
  <2> QED BY <1>7, <2>1, <2>2 DEF StartBroadcast
<1>8. CASE Walk
  <2>1. front' \in FrontState
    <3>1. PICK c \in front.todo :
             front' = [front EXCEPT !.at = "send", !.todo = @ \ {c}, !.cur = c]
      BY <1>8 DEF Walk
    <3>2. c \in Conns
      BY <3>1
    <3>3. c \in 0..NumConns
      BY <3>2, <1>a
    <3> QED BY <3>1, <3>3 DEF FrontState
  <2> QED BY <1>8, <1>1, <2>1 DEF Walk
<1>9. CASE Send
  <2>1. front' \in FrontState
    BY <1>9 DEF Send, FrontState
  <2>2. feed' \in [Conns -> Seq(Package)]
    BY <1>9, QueueTypes DEF Send
  <2> QED BY <1>9, <1>1, <2>1, <2>2 DEF Send
<1>10. CASE EndBroadcast
  BY <1>10, <1>1 DEF EndBroadcast
<1>11. CASE ReadSymbols
  <2>1. PICK read \in SUBSET (symbols \cup front.msg.syms) :
           loop' = [loop EXCEPT !.at = "greet", !.snap = read]
    BY <1>11 DEF ReadSymbols
  <2>2. loop' \in LoopState
    <3>1. read \in SUBSET Symbols
      BY <2>1
    <3> QED BY <2>1, <3>1 DEF LoopState
  <2>3. loop.con \in Conns
    BY <1>11 DEF ReadSymbols, CallbackConn
  <2> QED BY <1>11, <1>1, <2>2, <2>3 DEF ReadSymbols
<1>12. CASE Greet
  <2>1. loop.con \in Conns
    BY <1>12 DEF Greet, CallbackConn
  <2> QED BY <1>12, <1>1, <2>1 DEF Greet
<1>13. ASSUME NEW c \in Conns, OnOpen(c)
       PROVE  TypeOK'
  <2>1. opens' \in 0..MaxOpens
    BY <1>13, <1>b DEF OnOpen
  <2>2. conSet' \in SUBSET Conns /\ over' \in SUBSET Conns
    BY <1>13 DEF OnOpen
  <2>3. loop' \in LoopState
    BY <1>13 DEF OnOpen
  <2>4. front.todo \cup (IF c > front.cur THEN {c} ELSE {}) \in SUBSET Conns
        /\ lossy \ {c} \in SUBSET Conns
    OBVIOUS
  <2>5. front' \in FrontState /\ lossy' \in SUBSET Conns
    BY <1>13, <1>4, <2>2, <2>4 DEF OnOpen
  <2> QED BY <1>13, <1>1, <2>1, <2>2, <2>3, <2>5 DEF OnOpen
<1>14. ASSUME NEW c \in Conns, OnClose(c)
       PROVE  TypeOK'
  <2>1. conSet' \in SUBSET Conns /\ over' \in SUBSET Conns /\ greeted' \in SUBSET Conns
    BY <1>14 DEF OnClose
  <2>3. snapshot' \in [Conns -> SUBSET Symbols]
    BY <1>14 DEF OnClose
  <2>4. feed' \in [Conns -> Seq(Package)]
    BY <1>14, <1>c DEF OnClose
  <2>2. front' \in FrontState /\ lossy' \in SUBSET Conns
    <3>1. front.todo \ {c} \in SUBSET Conns
      OBVIOUS
    <3> QED BY <1>14, <1>4, <2>1, <3>1 DEF OnClose
  <2> QED BY <1>14, <1>1, <2>1, <2>2, <2>3, <2>4 DEF OnClose
<1>15. ASSUME NEW c \in Conns, Congest(c) \/ Relieve(c)
       PROVE  TypeOK'
  BY <1>15, <1>1 DEF Congest, Relieve
<1> QED
  BY <1>5, <1>6, <1>7, <1>8, <1>9, <1>10, <1>11, <1>12, <1>13, <1>14, <1>15
  DEF FrontStep, LoopStep, Peers

-----------------------------------------------------------------------------
(* The announcements keep step with depth_data_.                           *)

\* What is in the queues in front of FrontServer: depth updates are numbered
\* from 1, a test package names no symbol, and the symbol of a depth message
\* under way in process_sdepth_package is stored.
DepthTask(pkg) == pkg.tid = "SDepthData" => pkg.n > 0

DataTask(task) ==
    task.call = "response" =>
        \/ task.pkg.tid = "SDepthData" /\ task.pkg.n > 0
        \/ task.pkg.tid = "RtnDepth" /\ task.pkg.syms = {}

QueueContents ==
    /\ \A i \in DOMAIN drQueue : DepthTask(drQueue[i])
    /\ \A i \in DOMAIN dpQueue : DataTask(dpQueue[i])
    /\ \A i \in DOMAIN processing :
        processing[i].tid = "EnhancedDepthData" /\ processing[i].syms \subseteq Stored

\* The inductive invariant behind IndexAgrees and AnnouncedBeforeData.
IndexInv ==
    /\ TypeOK
    /\ CallbackConn
    /\ QueueContents
    /\ IndexAgrees
    /\ AnnouncedBeforeData

\* Posting a package to a queue adds the symbols it announces, if any, and
\* leaves what precedes it alone.
LEMMA SymsOfAppend ==
  ASSUME NEW q \in Seq(Package), NEW p \in Package
  PROVE  /\ \A k \in 0..Len(q) : SymsUpTo(Append(q, p), k) = SymsUpTo(q, k)
         /\ p.tid = "SymbolData" => SymsOf(Append(q, p)) = SymsOf(q) \cup p.syms
         /\ p.tid # "SymbolData" => SymsOf(Append(q, p)) = SymsOf(q)
<1> DEFINE r == Append(q, p)
<1>1. Len(r) = Len(q) + 1 /\ r[Len(q) + 1] = p /\ \A j \in 1..Len(q) : r[j] = q[j]
  OBVIOUS
<1>2. \A k \in 0..Len(q) : SymsUpTo(r, k) = SymsUpTo(q, k)
  BY <1>1 DEF SymsUpTo
<1>3. Len(q) \in Nat
  OBVIOUS
<1> HIDE DEF r
<1>4. p.tid = "SymbolData" => SymsUpTo(r, Len(q) + 1) = SymsUpTo(q, Len(q)) \cup p.syms
  <2> SUFFICES ASSUME p.tid = "SymbolData"
               PROVE  SymsUpTo(r, Len(q) + 1) = SymsUpTo(q, Len(q)) \cup p.syms
    OBVIOUS
  <2>1. {j \in 1..(Len(q) + 1) : r[j].tid = "SymbolData"}
          = {j \in 1..Len(q) : q[j].tid = "SymbolData"} \cup {Len(q) + 1}
    BY <1>1, <1>3
  <2> QED BY <1>1, <1>3, <2>1 DEF SymsUpTo
<1>5. p.tid # "SymbolData" => SymsUpTo(r, Len(q) + 1) = SymsUpTo(q, Len(q))
  <2> SUFFICES ASSUME p.tid # "SymbolData"
               PROVE  SymsUpTo(r, Len(q) + 1) = SymsUpTo(q, Len(q))
    OBVIOUS
  <2>1. {j \in 1..(Len(q) + 1) : r[j].tid = "SymbolData"}
          = {j \in 1..Len(q) : q[j].tid = "SymbolData"}
    BY <1>1, <1>3
  <2> QED BY <1>1, <1>3, <2>1 DEF SymsUpTo
<1> QED BY <1>1, <1>2, <1>4, <1>5 DEF SymsOf, r

\* Taking the head off a queue splits what the queue announces in two.
LEMMA SymsOfTail ==
  ASSUME NEW q \in Seq(Package), q # <<>>
  PROVE  /\ Len(Tail(q)) = Len(q) - 1
         /\ \A i \in 1..Len(Tail(q)) : Tail(q)[i] = q[i + 1]
         /\ Head(q).tid = "SymbolData" =>
               /\ SymsOf(q) = Head(q).syms \cup SymsOf(Tail(q))
               /\ \A k \in 0..Len(Tail(q)) :
                     SymsUpTo(q, k + 1) = Head(q).syms \cup SymsUpTo(Tail(q), k)
         /\ Head(q).tid # "SymbolData" =>
               /\ SymsOf(q) = SymsOf(Tail(q))
               /\ \A k \in 0..Len(Tail(q)) : SymsUpTo(q, k + 1) = SymsUpTo(Tail(q), k)
<1> DEFINE r == Tail(q)
<1>1. /\ Len(q) \in Nat \ {0} /\ Len(r) = Len(q) - 1 /\ Head(q) = q[1]
      /\ \A i \in 1..Len(r) : r[i] = q[i + 1]
  OBVIOUS
<1> HIDE DEF r
<1>2. ASSUME NEW k \in 0..Len(r), q[1].tid = "SymbolData"
      PROVE  SymsUpTo(q, k + 1) = q[1].syms \cup SymsUpTo(r, k)
  <2>1. {j \in 1..(k + 1) : q[j].tid = "SymbolData"}
          = {1} \cup {i + 1 : i \in {j \in 1..k : r[j].tid = "SymbolData"}}
    <3>1. ASSUME NEW j \in 1..(k + 1), q[j].tid = "SymbolData", j # 1
          PROVE  \E i \in 1..k : r[i].tid = "SymbolData" /\ j = i + 1
      <4>1. j - 1 \in 1..k /\ j - 1 \in 1..Len(r) /\ j = (j - 1) + 1
        BY <1>1, <3>1
      <4>2. r[j - 1] = q[j]
        BY <1>1, <4>1
      <4> QED BY <3>1, <4>1, <4>2
    <3>2. ASSUME NEW i \in 1..k, r[i].tid = "SymbolData"
          PROVE  i + 1 \in 1..(k + 1) /\ q[i + 1].tid = "SymbolData"
      BY <1>1, <3>2
    <3>3. 1 \in 1..(k + 1)
      BY <1>1
    <3> QED BY <1>2, <3>1, <3>2, <3>3
  <2>2. \A i \in 1..k : r[i].syms = q[i + 1].syms
    BY <1>1
  <2> DEFINE A == {j \in 1..(k + 1) : q[j].tid = "SymbolData"}
             B == {j \in 1..k : r[j].tid = "SymbolData"}
  <2>3. /\ A = {1} \cup {i + 1 : i \in B}
        /\ \A i \in B : r[i].syms = q[i + 1].syms
    BY <2>1, <2>2
  <2>4. SymsUpTo(q, k + 1) = UNION {q[i].syms : i \in A}
    BY DEF SymsUpTo
  <2>5. SymsUpTo(r, k) = UNION {r[i].syms : i \in B}
    BY DEF SymsUpTo
  <2> HIDE DEF A, B
  <2> QED BY <2>3, <2>4, <2>5
<1>3. ASSUME NEW k \in 0..Len(r), q[1].tid # "SymbolData"
      PROVE  SymsUpTo(q, k + 1) = SymsUpTo(r, k)
  <2>1. {j \in 1..(k + 1) : q[j].tid = "SymbolData"}
          = {i + 1 : i \in {j \in 1..k : r[j].tid = "SymbolData"}}
    <3>1. ASSUME NEW j \in 1..(k + 1), q[j].tid = "SymbolData"
          PROVE  \E i \in 1..k : r[i].tid = "SymbolData" /\ j = i + 1
      <4>0. j # 1
        BY <1>3, <3>1
      <4>1. j - 1 \in 1..k /\ j - 1 \in 1..Len(r) /\ j = (j - 1) + 1
        BY <1>1, <4>0
      <4>2. r[j - 1] = q[j]
        BY <1>1, <4>1
      <4> QED BY <3>1, <4>1, <4>2
    <3>2. ASSUME NEW i \in 1..k, r[i].tid = "SymbolData"
          PROVE  i + 1 \in 1..(k + 1) /\ q[i + 1].tid = "SymbolData"
      BY <1>1, <3>2
    <3> QED BY <3>1, <3>2
  <2>2. \A i \in 1..k : r[i].syms = q[i + 1].syms
    BY <1>1
  <2> DEFINE A == {j \in 1..(k + 1) : q[j].tid = "SymbolData"}
             B == {j \in 1..k : r[j].tid = "SymbolData"}
  <2>3. /\ A = {i + 1 : i \in B}
        /\ \A i \in B : r[i].syms = q[i + 1].syms
    BY <2>1, <2>2
  <2>4. SymsUpTo(q, k + 1) = UNION {q[i].syms : i \in A}
    BY DEF SymsUpTo
  <2>5. SymsUpTo(r, k) = UNION {r[i].syms : i \in B}
    BY DEF SymsUpTo
  <2> HIDE DEF A, B
  <2> QED BY <2>3, <2>4, <2>5
<1>4. Len(r) \in 0..Len(r) /\ Len(r) + 1 = Len(q)
  BY <1>1
<1> QED BY <1>1, <1>2, <1>3, <1>4 DEF SymsOf, r

\* The loop thread keeps the connection of its callback in the set.
LEMMA CallbackConnStep ==
  ASSUME TypeOK, CallbackConn, LoopStep \/ Peers
  PROVE  CallbackConn'
<1>1. CASE LoopStep
  <2>1. CASE ReadSymbols
    <3>1. loop.at = "opened" /\ loop'.con = loop.con /\ UNCHANGED <<conSet, greeted>>
      BY <2>1 DEF ReadSymbols, TypeOK, FrontTypeOK, LoopState
    <3> QED BY <3>1 DEF CallbackConn
  <2>2. CASE Greet
    BY <2>2 DEF Greet, LoopIdle, CallbackConn
  <2> QED BY <1>1, <2>1, <2>2 DEF LoopStep
<1>2. ASSUME NEW c \in Conns, OnOpen(c)
      PROVE  CallbackConn'
  BY <1>2 DEF OnOpen, CallbackConn
<1>3. ASSUME NEW c \in Conns, OnClose(c) \/ Congest(c) \/ Relieve(c)
      PROVE  CallbackConn'
  BY <1>3 DEF OnClose, Congest, Relieve, CallbackConn
<1> QED BY <1>1, <1>2, <1>3 DEF Peers

\* The steps of the two threads the front server is made of leave alone
\* what the invariant says of the symbols, unless they handle a package.
LEMMA WalkLeavesSymbols ==
  ASSUME TypeOK, Walk \/ Send \/ EndBroadcast \/ LoopStep \/ Peers
  PROVE  /\ UNCHANGED <<stationVars, symbols, Merging>>
         /\ Walking' => Walking /\ front'.msg = front.msg
<1> USE DEF TypeOK, FrontTypeOK, Merging, Walking
<1>1. front.at # "merge" => Merging = {}
  OBVIOUS
<1>2. CASE Walk
  BY <1>2 DEF Walk, FrontState
<1>3. CASE Send
  BY <1>3 DEF Send, FrontState
<1>4. CASE EndBroadcast
  BY <1>4 DEF EndBroadcast, FrontIdle
<1>5. CASE LoopStep
  BY <1>5 DEF LoopStep, ReadSymbols, Greet
<1>6. ASSUME NEW T, NEW L, DisturbWalk(T, L)
      PROVE  front'.at = front.at /\ front'.msg = front.msg
  BY <1>6 DEF DisturbWalk, FrontState
<1>7. ASSUME NEW c \in Conns, OnOpen(c) \/ OnClose(c) \/ Congest(c) \/ Relieve(c)
      PROVE  /\ UNCHANGED <<stationVars, symbols, Merging>>
             /\ Walking' => Walking /\ front'.msg = front.msg
  BY <1>6, <1>7 DEF OnOpen, OnClose, Congest, Relieve
<1> QED BY <1>2, <1>3, <1>4, <1>5, <1>7 DEF Peers

\* Only the queue in front of FrontServer, depth_data_ and symbols_ matter
\* for the announcements.
LEMMA IndexFrame ==
  ASSUME IndexAgrees, AnnouncedBeforeData,
         UNCHANGED <<fsQueue, depth_data, symbols, Merging>>,
         Walking' => Walking /\ front'.msg = front.msg
  PROVE  IndexAgrees' /\ AnnouncedBeforeData'
<1>1. UNCHANGED Stored /\ UNCHANGED SymsOf(fsQueue)
  BY DEF Stored, SymsOf, SymsUpTo
<1>2. IndexAgrees'
  BY <1>1 DEF IndexAgrees
<1>3. \A k : UNCHANGED SymsUpTo(fsQueue, k)
  BY DEF SymsUpTo
<1>4. AnnouncedBeforeData'
  BY <1>3 DEF AnnouncedBeforeData
<1> QED BY <1>2, <1>4

\* The elements of a queue after a package was posted or taken.
LEMMA QueueElements ==
  ASSUME NEW S, NEW q \in Seq(S)
  PROVE  /\ \A x \in S : /\ DOMAIN Append(q, x) = DOMAIN q \cup {Len(q) + 1}
                        /\ Append(q, x)[Len(q) + 1] = x
                        /\ \A i \in DOMAIN q : Append(q, x)[i] = q[i]
         /\ q # <<>> => /\ 1 \in DOMAIN q /\ Head(q) = q[1]
                        /\ \A i \in DOMAIN Tail(q) : i + 1 \in DOMAIN q /\ Tail(q)[i] = q[i + 1]
OBVIOUS

\* The contents of the queues survive every step of the stations.
LEMMA QueueContentsStep ==
  ASSUME StationsTypeOK, QueueContents, StationStep
  PROVE  QueueContents'
<1> USE BoundsAssumption
<1>0. ASSUME UNCHANGED depth_data
      PROVE  UNCHANGED Stored
  BY <1>0 DEF Stored
<1>b. ASSUME NEW p \in Package, DepthTask(p), drQueue' = Append(drQueue, p),
             UNCHANGED <<dpQueue, processing, depth_data>>
      PROVE  QueueContents'
  <2>1. \A i \in DOMAIN drQueue' : DepthTask(drQueue'[i])
    BY <1>b, QueueElements DEF QueueContents, StationsTypeOK
  <2> QED BY <1>0, <1>b, <2>1 DEF QueueContents
<1>c. ASSUME NEW t \in Task, DataTask(t), dpQueue' = Append(dpQueue, t),
             processing' = processing, depth_data' = depth_data,
             \A i \in DOMAIN drQueue' : DepthTask(drQueue'[i])
      PROVE  QueueContents'
  <2>1. \A i \in DOMAIN dpQueue' : DataTask(dpQueue'[i])
    BY <1>c, QueueElements DEF QueueContents, StationsTypeOK
  <2> QED BY <1>0, <1>c, <2>1 DEF QueueContents
<1>d. ASSUME dpQueue # <<>>, dpQueue' = Tail(dpQueue)
      PROVE  \A i \in DOMAIN dpQueue' : DataTask(dpQueue'[i])
  BY <1>d, QueueElements DEF QueueContents, StationsTypeOK
<1>1. CASE Launch
  <2>1. UNCHANGED <<drQueue, dpQueue, processing, depth_data>>
    BY <1>1 DEF Launch, LaunchReceive, LaunchProcess, LaunchFront
  <2> QED BY <1>0, <2>1 DEF QueueContents
<1>2. ASSUME NEW s \in Symbols, OnDepth(s)
      PROVE  QueueContents'
  <2>1. /\ Pkg("SDepthData", {s}, clock + 1) \in Package
        /\ DepthTask(Pkg("SDepthData", {s}, clock + 1))
    BY <1>2 DEF OnDepth, StationsTypeOK, Pkg, Package, Tids, DepthTask
  <2> QED BY <1>2, <1>b, <2>1 DEF OnDepth
<1>3. ASSUME NEW s \in Symbols, OnKline(s)
      PROVE  QueueContents'
  <2>1. Pkg("KlineData", {s}, 0) \in Package /\ DepthTask(Pkg("KlineData", {s}, 0))
    BY DEF Pkg, Package, Tids, DepthTask
  <2> QED BY <1>3, <1>b, <2>1 DEF OnKline
<1>4. CASE TestMain
  <2>1. /\ Response(Pkg("RtnDepth", {}, 0)) \in Task
        /\ DataTask(Response(Pkg("RtnDepth", {}, 0)))
    BY DEF Response, Pkg, Task, Package, Tids, DataTask
  <2>2. /\ dpQueue' = Append(dpQueue, Response(Pkg("RtnDepth", {}, 0)))
        /\ processing' = processing /\ depth_data' = depth_data /\ drQueue' = drQueue
    BY <1>4 DEF TestMain
  <2>3. \A i \in DOMAIN drQueue' : DepthTask(drQueue'[i])
    BY <2>2 DEF QueueContents
  <2> QED BY <1>c, <2>1, <2>2, <2>3
<1>5. CASE RequestAllSymbol
  <2>1. SymbolRequest \in Task /\ DataTask(SymbolRequest)
    BY DEF SymbolRequest, Pkg, Task, Package, Tids, DataTask
  <2>2. /\ dpQueue' = Append(dpQueue, SymbolRequest)
        /\ processing' = processing /\ depth_data' = depth_data /\ drQueue' = drQueue
    BY <1>5 DEF RequestAllSymbol
  <2>3. \A i \in DOMAIN drQueue' : DepthTask(drQueue'[i])
    BY <2>2 DEF QueueContents
  <2> QED BY <1>c, <2>1, <2>2, <2>3
<1>6. CASE HandleDepthData
  <2>1. Head(drQueue) \in Package /\ DepthTask(Head(drQueue))
    BY <1>6, QueueElements DEF HandleDepthData, QueueContents, StationsTypeOK
  <2>2. Response(Head(drQueue)) \in Task /\ DataTask(Response(Head(drQueue)))
    BY <1>6, <2>1 DEF HandleDepthData, Response, Task, DataTask, DepthTask
  <2>3. \A i \in DOMAIN drQueue' : DepthTask(drQueue'[i])
    BY <1>6, QueueElements DEF HandleDepthData, QueueContents, StationsTypeOK
  <2> QED BY <1>6, <1>c, <2>2, <2>3 DEF HandleDepthData
<1>7. CASE HandleKlineData
  <2>1. \A i \in DOMAIN drQueue' : DepthTask(drQueue'[i])
    BY <1>7, QueueElements DEF HandleKlineData, QueueContents, StationsTypeOK
  <2> QED BY <1>0, <1>7, <2>1 DEF HandleKlineData, QueueContents
<1>8. CASE HandleRequest \/ PassOn
  BY <1>0, <1>8, <1>d DEF HandleRequest, PassOn, NextTaskIs, QueueContents
<1>9. CASE ProcessSDepth
  <2> DEFINE pkg == Head(dpQueue).pkg
  <2>1. /\ dpQueue # <<>> /\ dpQueue' = Tail(dpQueue)
        /\ Head(dpQueue).call = "response" /\ pkg.tid = "SDepthData"
        /\ processing = <<>> /\ processing' = <<EnhancedDepth(pkg)>> /\ UNCHANGED drQueue
        /\ depth_data' = [s \in Symbols |->
                             IF s \in pkg.syms \ Stored THEN pkg.n ELSE depth_data[s]]
    BY <1>9 DEF ProcessSDepth, Announce, ToDeliver, NextTaskIs
  <2>2. Head(dpQueue) \in Task /\ DataTask(Head(dpQueue))
    BY <2>1, QueueElements DEF QueueContents, StationsTypeOK
  <2>3. pkg.n > 0 /\ pkg.syms \subseteq Symbols
    BY <2>1, <2>2 DEF DataTask, Task, Package
  <2>4. pkg.syms \subseteq Stored'
    BY <2>1, <2>3 DEF Stored
  <2>5. \A i \in DOMAIN processing' :
           processing'[i].tid = "EnhancedDepthData" /\ processing'[i].syms \subseteq Stored'
    BY <2>1, <2>4 DEF EnhancedDepth, Pkg
  <2> QED BY <1>d, <2>1, <2>5 DEF QueueContents
<1>10. CASE DeliverDepth
  <2>1. /\ processing # <<>> /\ processing' = Tail(processing) /\ processing \in Seq(Package)
        /\ UNCHANGED <<drQueue, dpQueue, depth_data>>
    BY <1>10 DEF DeliverDepth, StationsTypeOK
  <2>2. \A i \in DOMAIN processing' : i + 1 \in DOMAIN processing /\ processing'[i] = processing[i + 1]
    BY <2>1, QueueElements
  <2> QED BY <1>0, <2>1, <2>2 DEF QueueContents
<1> QED
  BY <1>1, <1>2, <1>3, <1>4, <1>5, <1>6, <1>7, <1>8, <1>9, <1>10
  DEF StationStep, Environment, DataReceiveStep, DataProcessStep

\* A package posted to FrontServer keeps the announcements ahead of the
\* messages when its own symbols, unless it announces them, are covered.
LEMMA PostToFront ==
  ASSUME TypeOK, AnnouncedBeforeData, NEW p \in Package,
         fsQueue' = Append(fsQueue, p), UNCHANGED frontVars,
         p.tid # "SymbolData" => p.syms \subseteq symbols \cup Merging \cup SymsOf(fsQueue)
  PROVE  AnnouncedBeforeData'
<1>0. fsQueue \in Seq(Package) /\ Len(fsQueue) \in Nat
  BY DEF TypeOK, StationsTypeOK
<1>1. UNCHANGED <<symbols, Merging, Walking, front>>
  BY DEF frontVars, Merging, Walking
<1>2. ASSUME NEW i \in DOMAIN fsQueue', fsQueue'[i].tid # "SymbolData"
      PROVE  fsQueue'[i].syms \subseteq symbols \cup Merging \cup SymsUpTo(fsQueue', i - 1)
  <2>1. /\ Len(fsQueue') = Len(fsQueue) + 1 /\ fsQueue'[Len(fsQueue) + 1] = p
        /\ \A j \in 1..Len(fsQueue) : fsQueue'[j] = fsQueue[j]
        /\ i \in 1..(Len(fsQueue) + 1)
    BY <1>0
  <2>2. SymsUpTo(fsQueue', i - 1) = SymsUpTo(fsQueue, i - 1)
    BY <1>0, <2>1, SymsOfAppend
  <2>3. CASE i = Len(fsQueue) + 1
    BY <1>0, <1>2, <2>1, <2>2, <2>3 DEF SymsOf
  <2>4. CASE i \in 1..Len(fsQueue)
    BY <1>0, <1>2, <2>1, <2>2, <2>4 DEF AnnouncedBeforeData
  <2> QED BY <1>0, <2>1, <2>3, <2>4
<1> QED BY <1>1, <1>2 DEF AnnouncedBeforeData

\* The steps of DataProcess that post to FrontServer.
LEMMA ProcessKeepsIndex ==
  ASSUME IndexInv, StationStep, UNCHANGED frontVars
  PROVE  IndexAgrees' /\ AnnouncedBeforeData'
<1> USE DEF IndexInv
<1>0. UNCHANGED <<symbols, Merging, Walking, front>>
  BY DEF frontVars, Merging, Walking
<1>a. /\ fsQueue \in Seq(Package) /\ dpQueue \in Seq(Task) /\ processing \in Seq(Package)
      /\ \A t \in Task : t.pkg \in Package
      /\ \A S \in SUBSET Symbols : Announcement(S) \in Package
  BY BoundsAssumption DEF TypeOK, StationsTypeOK, Task, Announcement, Pkg, Package, Tids
<1>b. ASSUME UNCHANGED <<fsQueue, depth_data>>
      PROVE  IndexAgrees' /\ AnnouncedBeforeData'
  BY <1>0, <1>b, IndexFrame
<1>1. CASE Launch \/ Environment \/ DataReceiveStep
  <2>1. UNCHANGED <<fsQueue, depth_data>>
    BY <1>1 DEF Launch, LaunchReceive, LaunchProcess, LaunchFront, Environment, OnDepth,
                OnKline, TestMain, RequestAllSymbol, DataReceiveStep, HandleDepthData,
                HandleKlineData
  <2> QED BY <1>b, <2>1
<1>2. CASE HandleRequest
  <2> DEFINE p == Announcement(Stored)
  <2>1. /\ p \in Package /\ p.tid = "SymbolData" /\ p.syms = Stored
        /\ fsQueue' = Append(fsQueue, p) /\ Stored' = Stored
    BY <1>2, <1>a DEF HandleRequest, Announcement, Pkg, Stored
  <2> HIDE DEF p
  <2>2. SymsOf(fsQueue)' = SymsOf(fsQueue) \cup Stored
    BY <1>a, <2>1, SymsOfAppend
  <2> QED BY <1>0, <2>1, <2>2, PostToFront DEF IndexAgrees
<1>3. CASE PassOn
  <2> DEFINE p == Head(dpQueue).pkg
  <2>1. /\ dpQueue # <<>> /\ Head(dpQueue).call = "response" /\ p.tid # "SDepthData"
        /\ fsQueue' = Append(fsQueue, p) /\ Stored' = Stored
    BY <1>3 DEF PassOn, NextTaskIs, Stored
  <2>2. Head(dpQueue) \in Task /\ DataTask(Head(dpQueue))
    BY <1>a, <2>1, QueueElements DEF QueueContents
  <2>3. p \in Package /\ p.tid # "SymbolData" /\ p.syms = {}
    BY <1>a, <2>1, <2>2 DEF DataTask
  <2> HIDE DEF p
  <2>4. SymsOf(fsQueue)' = SymsOf(fsQueue)
    BY <1>a, <2>1, <2>3, SymsOfAppend
  <2> QED BY <1>0, <2>1, <2>3, <2>4, PostToFront DEF IndexAgrees
<1>4. CASE ProcessSDepth
  <2> DEFINE pkg == Head(dpQueue).pkg
             new == pkg.syms \ Stored
             p == Announcement(new)
  <2>1. /\ dpQueue # <<>> /\ Head(dpQueue).call = "response" /\ pkg.tid = "SDepthData"
        /\ depth_data' = [s \in Symbols |-> IF s \in new THEN pkg.n ELSE depth_data[s]]
        /\ IF new # {} THEN fsQueue' = Append(fsQueue, p) ELSE fsQueue' = fsQueue
    BY <1>4 DEF ProcessSDepth, Announce, ToDeliver, NextTaskIs
  <2>2. Head(dpQueue) \in Task /\ DataTask(Head(dpQueue))
    BY <1>a, <2>1, QueueElements DEF QueueContents
  <2>3. pkg \in Package /\ pkg.n > 0 /\ new \in SUBSET Symbols
    BY <1>a, <2>1, <2>2 DEF DataTask, Package
  <2>4. Stored' = Stored \cup new
    BY <2>1, <2>3 DEF Stored
  <2>5. p \in Package /\ p.tid = "SymbolData" /\ p.syms = new
    BY <1>a, <2>3 DEF Announcement, Pkg
  <2> HIDE DEF pkg, new, p
  <2>6. CASE new = {}
    <3>1. UNCHANGED fsQueue /\ Stored' = Stored
      BY <2>1, <2>4, <2>6
    <3>2. UNCHANGED SymsOf(fsQueue) /\ \A k : UNCHANGED SymsUpTo(fsQueue, k)
      BY <3>1 DEF SymsOf, SymsUpTo
    <3> QED BY <1>0, <3>1, <3>2 DEF IndexAgrees, AnnouncedBeforeData
  <2>7. CASE new # {}
    <3>1. SymsOf(fsQueue)' = SymsOf(fsQueue) \cup new
      BY <1>a, <2>1, <2>5, <2>7, SymsOfAppend
    <3> QED BY <1>0, <2>1, <2>4, <2>5, <2>7, <3>1, PostToFront DEF IndexAgrees
  <2> QED BY <2>6, <2>7
<1>5. CASE DeliverDepth
  <2> DEFINE p == Head(processing)
  <2>1. processing # <<>> /\ fsQueue' = Append(fsQueue, p) /\ Stored' = Stored
    BY <1>5 DEF DeliverDepth, Stored
  <2>2. p \in Package /\ p.tid = "EnhancedDepthData" /\ p.syms \subseteq Stored
    BY <1>a, <2>1, QueueElements DEF QueueContents
  <2> HIDE DEF p
  <2>3. SymsOf(fsQueue)' = SymsOf(fsQueue)
    BY <1>a, <2>1, <2>2, SymsOfAppend
  <2> QED BY <1>0, <2>1, <2>2, <2>3, PostToFront DEF IndexAgrees
<1> QED BY <1>1, <1>2, <1>3, <1>4, <1>5 DEF StationStep, DataProcessStep

\* The steps that take a package from the queue in front of FrontServer, and
\* the end of a merge.
LEMMA FrontKeepsIndex ==
  ASSUME IndexInv, StartMerge \/ FinishMerge \/ StartBroadcast
  PROVE  IndexAgrees' /\ AnnouncedBeforeData'
<1> USE DEF IndexInv
<1> DEFINE p == Head(fsQueue)
<1>0. fsQueue \in Seq(Package) /\ Len(fsQueue) \in Nat /\ Len(Tail(fsQueue)) \in Int
  BY DEF TypeOK, StationsTypeOK
<1>1. CASE StartMerge
  <2>1. /\ fsQueue # <<>> /\ p.tid = "SymbolData" /\ fsQueue' = Tail(fsQueue)
        /\ Merging = {} /\ Merging' = p.syms /\ ~Walking'
        /\ UNCHANGED symbols /\ Stored' = Stored
    BY <1>1 DEF StartMerge, FrontIdle, Merging, Walking, Stored
  <2> HIDE DEF p
  <2>2. SymsOf(fsQueue) = p.syms \cup SymsOf(fsQueue)'
    BY <1>0, <2>1, SymsOfTail DEF p
  <2>3. IndexAgrees'
    BY <2>1, <2>2 DEF IndexAgrees
  <2>4. ASSUME NEW i \in DOMAIN fsQueue', fsQueue'[i].tid # "SymbolData"
        PROVE  fsQueue'[i].syms \subseteq symbols' \cup Merging' \cup SymsUpTo(fsQueue', i - 1)
    <3>1. i \in 1..Len(fsQueue') /\ i + 1 \in DOMAIN fsQueue /\ fsQueue'[i] = fsQueue[i + 1]
      BY <1>0, <2>1, SymsOfTail
    <3>2. i - 1 \in 0..Len(fsQueue') /\ (i + 1) - 1 = (i - 1) + 1
      BY <1>0, <2>1, <3>1
    <3>3. SymsUpTo(fsQueue, (i - 1) + 1) = p.syms \cup SymsUpTo(fsQueue', i - 1)
      BY <1>0, <2>1, <3>2, SymsOfTail DEF p
    <3> QED BY <2>1, <2>4, <3>1, <3>2, <3>3 DEF AnnouncedBeforeData
  <2> QED BY <2>1, <2>3, <2>4 DEF AnnouncedBeforeData
<1>2. CASE FinishMerge
  <2>1. /\ Merging = front.msg.syms /\ Merging' = {} /\ symbols' = symbols \cup Merging
        /\ front'.msg.syms \subseteq symbols /\ UNCHANGED fsQueue /\ Stored' = Stored
    BY <1>2 DEF FinishMerge, Broadcast, LeftBehind, Pkg, Merging, stationVars, Stored
  <2>2. UNCHANGED SymsOf(fsQueue) /\ \A k : UNCHANGED SymsUpTo(fsQueue, k)
    BY <2>1 DEF SymsOf, SymsUpTo
  <2> QED BY <2>1, <2>2 DEF IndexAgrees, AnnouncedBeforeData
<1>3. CASE StartBroadcast
  <2>1. /\ fsQueue # <<>> /\ p.tid # "SymbolData" /\ fsQueue' = Tail(fsQueue)
        /\ Merging = {} /\ Merging' = {} /\ front'.msg = p
        /\ UNCHANGED symbols /\ Stored' = Stored
    BY <1>3 DEF StartBroadcast, Broadcast, Merging, Stored
  <2>a. p = fsQueue[1] /\ 1 \in DOMAIN fsQueue
    BY <1>0, <2>1
  <2> HIDE DEF p
  <2>2. SymsOf(fsQueue) = SymsOf(fsQueue)'
    BY <1>0, <2>1, SymsOfTail DEF p
  <2>3. IndexAgrees'
    BY <2>1, <2>2 DEF IndexAgrees
  <2>4. ASSUME NEW i \in DOMAIN fsQueue', fsQueue'[i].tid # "SymbolData"
        PROVE  fsQueue'[i].syms \subseteq symbols' \cup Merging' \cup SymsUpTo(fsQueue', i - 1)
    <3>1. i \in 1..Len(fsQueue') /\ i + 1 \in DOMAIN fsQueue /\ fsQueue'[i] = fsQueue[i + 1]
      BY <1>0, <2>1, SymsOfTail
    <3>2. i - 1 \in 0..Len(fsQueue') /\ (i + 1) - 1 = (i - 1) + 1
      BY <1>0, <2>1, <3>1
    <3>3. SymsUpTo(fsQueue, (i - 1) + 1) = SymsUpTo(fsQueue', i - 1)
      BY <1>0, <2>1, <3>2, SymsOfTail DEF p
    <3> QED BY <2>1, <2>4, <3>1, <3>2, <3>3 DEF AnnouncedBeforeData
  <2>5. p.syms \subseteq symbols
    <3>1. SymsUpTo(fsQueue, 1 - 1) = {}
      BY DEF SymsUpTo
    <3> QED BY <2>1, <2>a, <3>1 DEF AnnouncedBeforeData
  <2> QED BY <2>1, <2>3, <2>4, <2>5 DEF AnnouncedBeforeData
<1> QED BY <1>1, <1>2, <1>3

\* Empty queues, an empty index and no announcement agree.
LEMMA IndexInvInit == Init => IndexInv
<1> SUFFICES ASSUME Init PROVE IndexInv
  OBVIOUS
<1> USE BoundsAssumption, ConnAssumption DEF Init, StationsInit
<1>1. TypeOK
  <2>1. StationsTypeOK
    BY DEF StationsTypeOK
  <2>2. loop \in LoopState /\ front \in FrontState
    BY DEF LoopIdle, LoopState, FrontIdle, FrontState, NoMsg, NoConn, Pkg, Package, Tids
  <2>3. snapshot \in [Conns -> SUBSET Symbols] /\ feed \in [Conns -> Seq(Package)]
    OBVIOUS
  <2> QED BY <2>1, <2>2, <2>3 DEF TypeOK, FrontTypeOK
<1>2. CallbackConn /\ QueueContents
  BY DEF CallbackConn, LoopIdle, QueueContents
<1>3. Stored = {} /\ Merging = {} /\ ~Walking
  BY DEF Stored, Merging, Walking, FrontIdle
<1>4. SymsOf(fsQueue) = {}
  BY DEF SymsOf, SymsUpTo
<1>5. IndexAgrees /\ AnnouncedBeforeData
  BY <1>3, <1>4 DEF IndexAgrees, AnnouncedBeforeData
<1> QED BY <1>1, <1>2, <1>5 DEF IndexInv

\* Each step, of whichever thread, keeps the invariant about the symbols.
LEMMA IndexInvStep == IndexInv /\ [Next]_vars => IndexInv'
<1> SUFFICES ASSUME IndexInv, [Next]_vars PROVE IndexInv'
  OBVIOUS
<1> USE DEF IndexInv
<1>1. CASE StationStep /\ UNCHANGED frontVars
  <2>1. StationsTypeOK'
    BY <1>1, StationsType DEF TypeOK
  <2>2. TypeOK'
    BY <1>1, <2>1 DEF TypeOK, FrontTypeOK, frontVars, FrontState, LoopState, Package, Tids, Conns
  <2>3. CallbackConn'
    BY <1>1 DEF CallbackConn, frontVars
  <2>4. QueueContents'
    BY <1>1, QueueContentsStep DEF TypeOK
  <2> QED BY <1>1, <2>2, <2>3, <2>4, ProcessKeepsIndex
<1>2. CASE StartMerge \/ FinishMerge \/ StartBroadcast
  <2>1. TypeOK'
    BY <1>2, FrontType DEF FrontStep
  <2>2. CallbackConn'
    BY <1>2 DEF StartMerge, FinishMerge, StartBroadcast, CallbackConn
  <2>3. UNCHANGED <<drQueue, dpQueue, processing, depth_data>>
    BY <1>2 DEF StartMerge, FinishMerge, StartBroadcast, stationVars
  <2>4. QueueContents'
    BY <2>3 DEF QueueContents, Stored
  <2> QED BY <1>2, <2>1, <2>2, <2>4, FrontKeepsIndex
<1>3. CASE Walk \/ Send \/ EndBroadcast \/ LoopStep \/ Peers
  <2>1. TypeOK'
    BY <1>3, FrontType DEF FrontStep
  <2>2. CallbackConn'
    BY <1>3, CallbackConnStep DEF CallbackConn, Walk, Send, EndBroadcast
  <2>3. /\ UNCHANGED <<stationVars, symbols, Merging>>
        /\ Walking' => Walking /\ front'.msg = front.msg
    BY <1>3, WalkLeavesSymbols
  <2>4. UNCHANGED <<drQueue, dpQueue, processing, depth_data, fsQueue>>
    BY <2>3 DEF stationVars
  <2>5. QueueContents'
    BY <2>4 DEF QueueContents, Stored
  <2> QED BY <2>1, <2>2, <2>3, <2>4, <2>5, IndexFrame
<1>4. CASE UNCHANGED vars
  <2>1. UNCHANGED <<stationVars, frontVars>>
    BY <1>4 DEF vars
  <2>2. TypeOK'
    BY <2>1 DEF TypeOK, StationsTypeOK, FrontTypeOK, stationVars, frontVars
  <2>3. CallbackConn' /\ QueueContents'
    BY <2>1 DEF CallbackConn, QueueContents, Stored, stationVars, frontVars
  <2>4. IndexAgrees' /\ AnnouncedBeforeData'
    BY <2>1, IndexFrame DEF stationVars, frontVars, Merging, Walking
  <2> QED BY <2>2, <2>3, <2>4
<1> QED BY <1>1, <1>2, <1>3, <1>4 DEF Next, FrontStep, Rest

\* Every variable keeps its type, whatever the threads and the peers do.
THEOREM TypeCorrect == Spec => []TypeOK
<1>1. IndexInv => TypeOK
  BY DEF IndexInv
<1> QED BY IndexInvInit, IndexInvStep, <1>1, PTL DEF Spec

\* DataProcess and FrontServer never disagree about the known symbols by
\* more than the announcements on their way (data_process.cpp:96-100).
THEOREM IndexCorrect == Spec => []IndexAgrees
<1>1. IndexInv => IndexAgrees
  BY DEF IndexInv
<1> QED BY IndexInvInit, IndexInvStep, <1>1, PTL DEF Spec

\* No message about a symbol overtakes its announcement
\* (data_process.cpp:99-102, front_server.cpp:56-81).
THEOREM AnnouncedCorrect == Spec => []AnnouncedBeforeData
<1>1. IndexInv => AnnouncedBeforeData
  BY DEF IndexInv
<1> QED BY IndexInvInit, IndexInvStep, <1>1, PTL DEF Spec

-----------------------------------------------------------------------------
(* What a connection was sent is the end of what was published.            *)

\* The walk of a broadcast: it sends the message published last, only to
\* connections of the set, and to none twice that is not counted as lossy.
\* A connection outside the set has been sent nothing yet.
WalkInv ==
    /\ Walking => published # <<>> /\ front.msg = published[Len(published)]
    /\ ~Walking => front.todo = {}
    /\ front.todo \subseteq conSet
    /\ front.at = "send" /\ front.cur \in front.todo => front.cur \in lossy
    /\ \A c \in Conns \ conSet : feed[c] = <<>>

Due(c) == Len(published) - (IF Owed(c) THEN 1 ELSE 0)

FeedIsSuffix(c) ==
    /\ Len(feed[c]) <= Due(c)
    /\ \A i \in DOMAIN feed[c] : feed[c][i] = published[Due(c) - Len(feed[c]) + i]

\* Contiguity can be argued one connection at a time.
LEMMA ContiguousByConn == Contiguous <=> \A c \in conSet \ lossy : FeedIsSuffix(c)
BY DEF Contiguous, FeedIsSuffix, Due

\* Steps that publish nothing and send nothing to c leave its feed as it is,
\* unless they change whether c is owed the message.
LEMMA FeedFrame ==
  ASSUME NEW c, FeedIsSuffix(c), published' = published, feed'[c] = feed[c],
         Owed(c)' <=> Owed(c)
  PROVE  FeedIsSuffix(c)'
BY DEF FeedIsSuffix, Due

\* A broadcast owes its message to every connection of the set.
LEMMA BroadcastKeepsFeeds ==
  ASSUME TypeOK, WalkInv, Contiguous, ~Walking, NEW m \in Package, Broadcast(m),
         UNCHANGED <<conSet, feed, lossy>>
  PROVE  WalkInv' /\ Contiguous'
<1>0. published \in Seq(Package) /\ Len(published) \in Nat /\ conSet \subseteq Conns
      /\ feed \in [Conns -> Seq(Package)]
  BY DEF TypeOK, FrontTypeOK
<1>1. /\ published' = Append(published, m) /\ front'.msg = m /\ front'.at = "walk"
      /\ front'.todo = conSet
  BY DEF Broadcast
<1>2. /\ Len(published') = Len(published) + 1 /\ published'[Len(published) + 1] = m
      /\ \A i \in 1..Len(published) : published'[i] = published[i]
  BY <1>0, <1>1
<1>3. WalkInv'
  BY <1>0, <1>1, <1>2 DEF WalkInv, Walking
<1>4. ASSUME NEW c \in conSet \ lossy
      PROVE  FeedIsSuffix(c)'
  <2>1. /\ ~Owed(c) /\ Owed(c)'
    BY <1>1 DEF Owed, Walking
  <2>2. Due(c) = Len(published) /\ Due(c)' = Len(published)
    BY <1>0, <1>2, <2>1 DEF Due
  <2>3. FeedIsSuffix(c)
    BY ContiguousByConn
  <2>4. feed[c] \in Seq(Package) /\ Len(feed[c]) \in Nat /\ DOMAIN feed[c] = 1..Len(feed[c])
    BY <1>0
  <2>5. \A i \in DOMAIN feed[c] : Len(published) - Len(feed[c]) + i \in 1..Len(published)
    BY <1>0, <2>2, <2>3, <2>4 DEF FeedIsSuffix
  <2> QED BY <1>2, <2>2, <2>3, <2>5 DEF FeedIsSuffix
<1> QED BY <1>3, <1>4, ContiguousByConn DEF Contiguous, FeedIsSuffix, Due

\* ws->send in broadcast delivers what is owed.
LEMMA SendKeepsFeeds ==
  ASSUME TypeOK, WalkInv, Contiguous, Send
  PROVE  WalkInv' /\ Contiguous'
<1> DEFINE d == front.cur
<1>0. /\ published \in Seq(Package) /\ Len(published) \in Nat /\ conSet \subseteq Conns
      /\ feed \in [Conns -> Seq(Package)] /\ front.msg \in Package
  BY DEF TypeOK, FrontTypeOK, FrontState
<1>1. /\ front.at = "send" /\ front'.at = "walk" /\ front'.msg = front.msg
      /\ front'.todo = front.todo
      /\ UNCHANGED <<published, conSet>> /\ lossy \subseteq lossy'
  BY DEF Send, TypeOK, FrontTypeOK, FrontState
<1>2. \A c \in Conns : feed'[c] = IF c = d /\ d \in conSet \ over
                                 THEN Append(feed[c], front.msg) ELSE feed[c]
  BY <1>0 DEF Send
<1>3. WalkInv'
  BY <1>0, <1>1, <1>2 DEF WalkInv, Walking
<1>4. ASSUME NEW c \in conSet \ lossy'
      PROVE  FeedIsSuffix(c)'
  <2>0. c \in Conns /\ c \in conSet \ lossy /\ FeedIsSuffix(c)
    BY <1>0, <1>1, ContiguousByConn
  <2>1. CASE c # d
    BY <1>1, <1>2, <2>0, <2>1, FeedFrame DEF Owed, Walking
  <2>2. CASE c = d
    <3>1. d \in conSet \ over
      BY <1>4, <2>2 DEF Send
    <3>2. Owed(c) /\ ~Owed(c)'
      BY <1>1, <2>0, <2>2 DEF Owed, Walking, WalkInv
    <3>3. Due(c) = Len(published) - 1 /\ Due(c)' = Len(published)
      BY <1>0, <1>1, <3>2 DEF Due
    <3>4. feed'[c] = Append(feed[c], front.msg) /\ feed[c] \in Seq(Package)
      BY <1>0, <1>2, <2>0, <2>2, <3>1
    <3>5. /\ Len(feed'[c]) = Len(feed[c]) + 1 /\ Len(feed[c]) \in Nat
          /\ feed'[c][Len(feed[c]) + 1] = front.msg
          /\ DOMAIN feed'[c] = DOMAIN feed[c] \cup {Len(feed[c]) + 1}
          /\ \A i \in DOMAIN feed[c] : feed'[c][i] = feed[c][i] /\ i \in Nat
      BY <1>0, <3>4
    <3>6. front.msg = published[Len(published)]
      BY <1>1 DEF WalkInv, Walking
    <3>7. ASSUME NEW i \in DOMAIN feed'[c]
          PROVE  feed'[c][i] = published[Len(published) - (Len(feed[c]) + 1) + i]
      <4>0. Len(published) \in Int /\ Len(feed[c]) \in Int /\ i \in Int
        BY <1>0, <3>5
      <4>a. \A m, n, k \in Int : /\ m - (n + 1) + k = (m - 1) - n + k
                                /\ m - (n + 1) + (n + 1) = m
        OBVIOUS
      <4>1. CASE i = Len(feed[c]) + 1
        <5>1. Len(published) - (Len(feed[c]) + 1) + i = Len(published)
          BY <4>0, <4>a, <4>1
        <5> QED BY <3>5, <3>6, <4>1, <5>1
      <4>2. CASE i \in DOMAIN feed[c]
        <5>1. Len(published) - (Len(feed[c]) + 1) + i = (Len(published) - 1) - Len(feed[c]) + i
          BY <4>0, <4>a
        <5>2. feed[c][i] = published[(Len(published) - 1) - Len(feed[c]) + i]
          BY <2>0, <3>3, <4>2 DEF FeedIsSuffix
        <5> QED BY <3>5, <4>2, <5>1, <5>2
      <4> QED BY <3>5, <4>1, <4>2
    <3>8. Len(feed[c]) + 1 <= Len(published)
      BY <1>0, <2>0, <3>3, <3>5 DEF FeedIsSuffix
    <3> QED BY <1>1, <3>3, <3>5, <3>7, <3>8 DEF FeedIsSuffix
  <2> QED BY <2>1, <2>2
<1> QED BY <1>1, <1>3, <1>4 DEF Contiguous, FeedIsSuffix, Due

\* A connection that is inserted into the set, or erased from it, while a
\* broadcast walks the set.  expected is what is left of an undisturbed walk.
LEMMA DisturbKeepsFeeds ==
  ASSUME TypeOK, WalkInv, Contiguous, NEW c \in Conns,
         NEW expected \in SUBSET Conns, NEW lossyNow \in SUBSET Conns,
         DisturbWalk(expected, lossyNow),
         \/ c \notin conSet /\ conSet' = conSet \cup {c} /\ feed' = feed
         \/ c \in conSet /\ conSet' = conSet \ {c} /\ feed' = [feed EXCEPT ![c] = <<>>],
         expected \ {c} = front.todo \ {c},
         c \in expected => (Walking => c # front.cur),
         lossyNow \cup {c} = lossy \cup {c},
         published' = published
  PROVE  WalkInv' /\ Contiguous'
<1>0. /\ published \in Seq(Package) /\ Len(published) \in Nat /\ conSet \subseteq Conns
      /\ feed \in [Conns -> Seq(Package)] /\ front \in FrontState
  BY DEF TypeOK, FrontTypeOK
<1>1. /\ front'.at = front.at /\ front'.msg = front.msg /\ front'.cur = front.cur
      /\ Walking' <=> Walking
      /\ front'.todo \subseteq conSet'
      /\ lossyNow \subseteq lossy'
      /\ \A d : d \notin lossy' => (d \in front'.todo <=> d \in IF Walking THEN expected
                                                            ELSE front.todo)
  BY <1>0 DEF DisturbWalk, Walking, FrontState, WalkInv
<1>2. \A d \in Conns : d # c => feed'[d] = feed[d] /\ (d \in conSet' <=> d \in conSet)
  BY <1>0
<1>3. feed'[c] = <<>>
  BY <1>0 DEF WalkInv
<1>4. WalkInv'
  <2>1. front'.at = "send" /\ front'.cur \in front'.todo => front'.cur \in lossy'
    BY <1>1 DEF WalkInv, Walking
  <2>2. \A d \in Conns \ conSet' : feed'[d] = <<>>
    BY <1>2, <1>3 DEF WalkInv
  <2>3. Walking' => published' # <<>> /\ front'.msg = published'[Len(published')]
    BY <1>1 DEF WalkInv
  <2>4. ~Walking' => front'.todo = {}
    <3>1. ~Walking => front' = front
      BY DEF DisturbWalk
    <3> QED BY <1>1, <3>1 DEF WalkInv
  <2> QED BY <1>1, <2>1, <2>2, <2>3, <2>4 DEF WalkInv
<1>5. ASSUME NEW d \in conSet' \ lossy'
      PROVE  FeedIsSuffix(d)'
  <2>1. CASE d = c
    <3>1. Len(published) > 0 \/ ~Owed(d)'
      <4>1. published # <<>> => Len(published) > 0
        BY <1>0
      <4> QED BY <1>1, <4>1 DEF WalkInv, Owed, Walking
    <3>2. Due(d)' >= 0
      BY <1>0, <3>1 DEF Due
    <3> QED BY <1>3, <2>1, <3>2 DEF FeedIsSuffix
  <2>2. CASE d # c
    <3>1. d \in Conns /\ d \in conSet \ lossy
      BY <1>0, <1>1, <1>2, <2>2
    <3>2. FeedIsSuffix(d)
      BY <3>1, ContiguousByConn
    <3>3. Owed(d)' <=> Owed(d)
      BY <1>1, <2>2 DEF Owed, Walking
    <3> QED BY <1>2, <2>2, <3>1, <3>2, <3>3, FeedFrame
  <2> QED BY <2>1, <2>2
<1> QED BY <1>4, <1>5 DEF Contiguous, FeedIsSuffix, Due

\* Steps that neither publish, send, walk nor touch the set.
LEMMA FeedsFrame ==
  ASSUME TypeOK, WalkInv, Contiguous, UNCHANGED <<published, feed, conSet>>,
         lossy \subseteq lossy', Walking' <=> Walking,
         front'.msg = front.msg \/ ~Walking,
         front'.todo = front.todo, front'.cur = front.cur \/ front'.at # "send",
         front'.at = "send" <=> front.at = "send"
  PROVE  WalkInv' /\ Contiguous'
<1>1. WalkInv'
  BY DEF WalkInv
<1>2. ASSUME NEW c \in conSet' \ lossy'
      PROVE  FeedIsSuffix(c)'
  <2>1. Owed(c)' <=> Owed(c)
    BY DEF Owed
  <2> QED BY <1>2, <2>1, ContiguousByConn, FeedFrame
<1> QED BY <1>1, <1>2 DEF Contiguous, FeedIsSuffix, Due

\* Each step keeps the feeds contiguous.
LEMMA ContiguousStep ==
  ASSUME TypeOK, WalkInv, Contiguous, [Next]_vars
  PROVE  WalkInv' /\ Contiguous'
<1>0. /\ published \in Seq(Package) /\ conSet \subseteq Conns /\ front \in FrontState
      /\ feed \in [Conns -> Seq(Package)] /\ lossy \subseteq Conns
  BY DEF TypeOK, FrontTypeOK
<1>1. CASE UNCHANGED frontVars
  BY <1>1, FeedsFrame DEF frontVars, Walking
<1>2. CASE StartMerge
  <2>1. /\ ~Walking /\ ~Walking' /\ front'.todo = {} /\ UNCHANGED <<published, feed, conSet, lossy>>
        /\ front'.at # "send" /\ front.at # "send"
    BY <1>2 DEF StartMerge, FrontIdle, Walking
  <2>2. front.todo = {}
    BY <2>1 DEF WalkInv
  <2> QED BY <2>1, <2>2, FeedsFrame
<1>3. CASE FinishMerge
  <2>1. LeftBehind(front.msg) \in Package
    BY ThreadRecords
  <2> QED BY <1>3, <2>1, BroadcastKeepsFeeds DEF FinishMerge, Walking
<1>4. CASE StartBroadcast
  <2>1. Head(fsQueue) \in Package
    BY <1>4, QueueTypes DEF StartBroadcast, TypeOK, StationsTypeOK
  <2> QED BY <1>4, <2>1, BroadcastKeepsFeeds DEF StartBroadcast, Walking
<1>5. CASE Walk
  <2>1. PICK c \in front.todo :
           front' = [front EXCEPT !.at = "send", !.todo = @ \ {c}, !.cur = c]
    BY <1>5 DEF Walk
  <2>2. /\ front.at = "walk" /\ front'.at = "send" /\ front'.msg = front.msg
        /\ front'.todo = front.todo \ {c} /\ front'.cur = c
        /\ UNCHANGED <<published, feed, conSet, lossy>>
    BY <1>0, <1>5, <2>1 DEF Walk, FrontState
  <2>3. WalkInv'
    BY <2>2 DEF WalkInv, Walking
  <2>4. \A d : Owed(d)' <=> Owed(d)
    BY <2>1, <2>2 DEF Owed, Walking
  <2>5. \A d \in conSet' \ lossy' : FeedIsSuffix(d)'
    BY <2>2, <2>4, ContiguousByConn, FeedFrame
  <2> QED BY <2>3, <2>5 DEF Contiguous, FeedIsSuffix, Due
<1>6. CASE Send
  BY <1>6, SendKeepsFeeds
<1>7. CASE EndBroadcast
  <2>1. /\ front.at = "walk" /\ front'.at = "idle" /\ front.todo = {} /\ front'.todo = {}
        /\ UNCHANGED <<published, feed, conSet, lossy>>
    BY <1>7 DEF EndBroadcast, FrontIdle
  <2>2. WalkInv'
    BY <2>1 DEF WalkInv, Walking
  <2>3. \A d : Owed(d)' <=> Owed(d)
    BY <2>1 DEF Owed, Walking
  <2>4. \A d \in conSet' \ lossy' : FeedIsSuffix(d)'
    BY <2>1, <2>3, ContiguousByConn, FeedFrame
  <2> QED BY <2>2, <2>4 DEF Contiguous, FeedIsSuffix, Due
<1>8. CASE LoopStep
  <2>1. lossy \subseteq lossy' /\ UNCHANGED <<published, feed, conSet, front>>
    BY <1>8 DEF LoopStep, ReadSymbols, Greet
  <2> QED BY <2>1, FeedsFrame DEF Walking
<1>9. ASSUME NEW c \in Conns, OnOpen(c)
      PROVE  WalkInv' /\ Contiguous'
  <2> DEFINE expected == front.todo \cup (IF c > front.cur THEN {c} ELSE {})
  <2>1. /\ c \notin conSet /\ conSet' = conSet \cup {c} /\ feed' = feed
        /\ published' = published /\ DisturbWalk(expected, lossy \ {c})
    BY <1>9 DEF OnOpen
  <2>2. front.todo \subseteq Conns /\ c \notin front.todo /\ front.cur \in Nat /\ c \in Nat
    BY <1>0, <2>1, ConnAssumption DEF WalkInv, FrontState, Conns
  <2>3. /\ expected \in SUBSET Conns /\ expected \ {c} = front.todo \ {c}
        /\ c \in expected => c # front.cur
        /\ lossy \ {c} \in SUBSET Conns /\ (lossy \ {c}) \cup {c} = lossy \cup {c}
    <3>1. CASE c > front.cur
      <4>1. c # front.cur /\ expected = front.todo \cup {c}
        BY <2>2, <3>1
      <4> QED BY <1>0, <2>2, <4>1
    <3>2. CASE ~(c > front.cur)
      <4>1. expected = front.todo
        BY <3>2
      <4> QED BY <1>0, <2>2, <4>1
    <3> QED BY <3>1, <3>2
  <2> HIDE DEF expected
  <2> QED BY <2>1, <2>3, DisturbKeepsFeeds
<1>10. ASSUME NEW c \in Conns, OnClose(c)
       PROVE  WalkInv' /\ Contiguous'
  <2> DEFINE expected == front.todo \ {c}
  <2>1. /\ c \in conSet /\ conSet' = conSet \ {c} /\ feed' = [feed EXCEPT ![c] = <<>>]
        /\ published' = published /\ DisturbWalk(expected, lossy)
    BY <1>10 DEF OnClose
  <2>2. /\ expected \in SUBSET Conns /\ expected \ {c} = front.todo \ {c}
        /\ c \notin expected /\ lossy \in SUBSET Conns
    BY <1>0 DEF FrontState
  <2> HIDE DEF expected
  <2> QED BY <2>1, <2>2, DisturbKeepsFeeds
<1>11. ASSUME NEW c \in Conns, Congest(c) \/ Relieve(c)
       PROVE  WalkInv' /\ Contiguous'
  BY <1>11, FeedsFrame DEF Congest, Relieve, Walking
<1>12. CASE UNCHANGED vars \/ Rest
  BY <1>1, <1>12 DEF vars, Rest
<1> QED
  BY <1>1, <1>2, <1>3, <1>4, <1>5, <1>6, <1>7, <1>8, <1>9, <1>10, <1>11, <1>12
  DEF Next, FrontStep, Peers

\* A connection that lost nothing was sent, without gap, repetition or
\* reordering, the end of what was published (wb_server.cpp:117-123).
THEOREM ContiguousCorrect == Spec => []Contiguous
<1>1. Init => WalkInv /\ Contiguous
  BY DEF Init, WalkInv, Contiguous, Walking, FrontIdle
<1>2. IndexInv => TypeOK
  BY DEF IndexInv
<1>3. IndexInv /\ WalkInv /\ Contiguous /\ [Next]_vars => (WalkInv /\ Contiguous)'
  BY <1>2, ContiguousStep
<1> QED BY IndexInvInit, IndexInvStep, <1>1, <1>3, PTL DEF Spec

-----------------------------------------------------------------------------
(* No symbol falls between the greeting and the feed of a connection.      *)

DepthQueued(s) ==
    \/ \E i \in DOMAIN fsQueue : fsQueue[i].tid = "EnhancedDepthData" /\ s \in fsQueue[i].syms
    \/ \E i \in DOMAIN processing : s \in processing[i].syms

DepthOwed(s, c) == Owed(c) /\ front.msg.tid = "EnhancedDepthData" /\ s \in front.msg.syms

FeedSyms(c) == UNION {feed[c][i].syms : i \in DOMAIN feed[c]}

\* Connection c was sent a message about s or will be sent the depth of s.
Aware(s, c) == s \in FeedSyms(c) \/ DepthQueued(s) \/ DepthOwed(s, c)

\* Behind an announcement that is not merged yet comes the depth message
\* process_sdepth_package delivers next.
DataFollows == \A s \in (Merging \cup SymsOf(fsQueue)) \ symbols : DepthQueued(s)

\* What NoSymbolMissed will need when on_open sends the text it has read.
ReadingInv ==
    loop.at = "greet" /\ loop.con \notin lossy =>
        \A s \in symbols : s \in loop.snap \/ Aware(s, loop.con)

MissedInv ==
    /\ DataFollows
    /\ ReadingInv
    /\ NoSymbolMissed

\* NoSymbolMissed in terms of what one connection is aware of.
LEMMA NoSymbolMissedByAware ==
  NoSymbolMissed <=>
    \A c \in greeted \ lossy : \A s \in symbols : s \in snapshot[c] \/ Aware(s, c)
BY DEF NoSymbolMissed, Known, DepthPending, Aware, FeedSyms, DepthQueued, DepthOwed

\* Depth messages are only taken off the queues by the front thread.
LEMMA StationsKeepDepth ==
  ASSUME IndexInv, DataFollows, StationStep, UNCHANGED frontVars
  PROVE  /\ \A s : DepthQueued(s) => DepthQueued(s)'
         /\ DataFollows'
<1> USE DEF IndexInv
<1>0. UNCHANGED <<symbols, Merging>>
  BY DEF frontVars, Merging
<1>a. /\ fsQueue \in Seq(Package) /\ dpQueue \in Seq(Task) /\ processing \in Seq(Package)
      /\ \A t \in Task : t.pkg \in Package
      /\ \A S \in SUBSET Symbols : Announcement(S) \in Package
  BY BoundsAssumption DEF TypeOK, StationsTypeOK, Task, Announcement, Pkg, Package, Tids
<1>b. ASSUME NEW p \in Package, fsQueue' = Append(fsQueue, p), processing = <<>> \/ UNCHANGED processing
      PROVE  \A s : DepthQueued(s) => DepthQueued(s)'
  <2>1. \A i \in DOMAIN fsQueue : i \in DOMAIN fsQueue' /\ fsQueue'[i] = fsQueue[i]
    BY <1>a, <1>b
  <2> QED BY <1>b, <2>1 DEF DepthQueued
<1>1. CASE Launch \/ Environment \/ DataReceiveStep
  <2>1. UNCHANGED <<fsQueue, processing>>
    BY <1>1 DEF Launch, LaunchReceive, LaunchProcess, LaunchFront, Environment, OnDepth,
                OnKline, TestMain, RequestAllSymbol, DataReceiveStep, HandleDepthData,
                HandleKlineData
  <2>2. \A s : DepthQueued(s) => DepthQueued(s)'
    BY <2>1 DEF DepthQueued
  <2>3. UNCHANGED SymsOf(fsQueue)
    BY <2>1 DEF SymsOf, SymsUpTo
  <2> QED BY <1>0, <2>2, <2>3 DEF DataFollows
<1>2. CASE HandleRequest
  <2> DEFINE p == Announcement(Stored)
  <2>1. /\ p \in Package /\ p.tid = "SymbolData" /\ p.syms = Stored
        /\ fsQueue' = Append(fsQueue, p) /\ UNCHANGED processing
    BY <1>2, <1>a DEF HandleRequest, Announcement, Pkg, Stored
  <2> HIDE DEF p
  <2>2. SymsOf(fsQueue)' = SymsOf(fsQueue) \cup Stored
    BY <1>a, <2>1, SymsOfAppend
  <2>3. \A s : DepthQueued(s) => DepthQueued(s)'
    BY <1>b, <2>1
  <2> QED BY <1>0, <2>2, <2>3 DEF DataFollows, IndexAgrees
<1>3. CASE PassOn
  <2> DEFINE p == Head(dpQueue).pkg
  <2>1. /\ dpQueue # <<>> /\ Head(dpQueue).call = "response" /\ p.tid # "SDepthData"
        /\ fsQueue' = Append(fsQueue, p) /\ UNCHANGED processing
    BY <1>3 DEF PassOn, NextTaskIs
  <2>2. Head(dpQueue) \in Task /\ DataTask(Head(dpQueue))
    BY <1>a, <2>1, QueueElements DEF QueueContents
  <2>3. p \in Package /\ p.tid # "SymbolData"
    BY <1>a, <2>1, <2>2 DEF DataTask
  <2> HIDE DEF p
  <2>4. SymsOf(fsQueue)' = SymsOf(fsQueue)
    BY <1>a, <2>1, <2>3, SymsOfAppend
  <2>5. \A s : DepthQueued(s) => DepthQueued(s)'
    BY <1>b, <2>1, <2>3
  <2> QED BY <1>0, <2>4, <2>5 DEF DataFollows
<1>4. CASE ProcessSDepth
  <2> DEFINE pkg == Head(dpQueue).pkg
             new == pkg.syms \ Stored
             p == Announcement(new)
  <2>1. /\ dpQueue # <<>> /\ processing = <<>> /\ processing' = <<EnhancedDepth(pkg)>>
        /\ IF new # {} THEN fsQueue' = Append(fsQueue, p) ELSE fsQueue' = fsQueue
    BY <1>4 DEF ProcessSDepth, Announce, ToDeliver, NextTaskIs
  <2>2. pkg \in Package
    BY <1>a, <2>1
  <2>3. p \in Package /\ p.tid = "SymbolData" /\ p.syms = new
    BY <1>a, <2>2 DEF Announcement, Pkg, Package
  <2>4. 1 \in DOMAIN processing' /\ new \subseteq processing'[1].syms
    BY <2>1 DEF EnhancedDepth, Pkg
  <2> HIDE DEF pkg, new, p
  <2>5. \A s : DepthQueued(s) => DepthQueued(s)'
    <3>1. CASE new # {}
      BY <1>b, <2>1, <2>3, <3>1
    <3>2. CASE new = {}
      BY <2>1, <3>2 DEF DepthQueued
    <3> QED BY <3>1, <3>2
  <2>6. \A s \in new : DepthQueued(s)'
    BY <2>4 DEF DepthQueued
  <2>7. SymsOf(fsQueue)' = SymsOf(fsQueue) \cup new
    <3>1. CASE new # {}
      BY <1>a, <2>1, <2>3, <3>1, SymsOfAppend
    <3>2. CASE new = {}
      BY <2>1, <3>2 DEF SymsOf, SymsUpTo
    <3> QED BY <3>1, <3>2
  <2> QED BY <1>0, <2>5, <2>6, <2>7 DEF DataFollows
<1>5. CASE DeliverDepth
  <2> DEFINE p == Head(processing)
  <2>1. /\ processing # <<>> /\ fsQueue' = Append(fsQueue, p) /\ processing' = Tail(processing)
    BY <1>5 DEF DeliverDepth
  <2>2. p \in Package /\ p.tid = "EnhancedDepthData"
    BY <1>a, <2>1, QueueElements DEF QueueContents
  <2>3. SymsOf(fsQueue)' = SymsOf(fsQueue)
    BY <1>a, <2>1, <2>2, SymsOfAppend
  <2>4. \A s : DepthQueued(s) => DepthQueued(s)'
    <3>1. ASSUME NEW s, NEW i \in DOMAIN fsQueue, fsQueue[i].tid = "EnhancedDepthData",
                 s \in fsQueue[i].syms
          PROVE  DepthQueued(s)'
      <4>1. i \in DOMAIN fsQueue' /\ fsQueue'[i] = fsQueue[i]
        BY <1>a, <2>1, <2>2, <3>1
      <4> QED BY <3>1, <4>1 DEF DepthQueued
    <3>2. ASSUME NEW s, NEW i \in DOMAIN processing, s \in processing[i].syms
          PROVE  DepthQueued(s)'
      <4>1. CASE i = 1
        <5>1. Len(fsQueue) + 1 \in DOMAIN fsQueue' /\ fsQueue'[Len(fsQueue) + 1] = processing[1]
          BY <1>a, <2>1, <2>2
        <5> QED BY <2>2, <3>2, <4>1, <5>1, <1>a, <2>1 DEF DepthQueued
      <4>2. CASE i # 1
        <5>1. i - 1 \in DOMAIN processing' /\ processing'[i - 1] = processing[i]
          BY <1>a, <2>1, <3>2, <4>2
        <5> QED BY <3>2, <5>1 DEF DepthQueued
      <4> QED BY <4>1, <4>2
    <3> QED BY <3>1, <3>2 DEF DepthQueued
  <2> QED BY <1>0, <2>3, <2>4 DEF DataFollows
<1> QED BY <1>1, <1>2, <1>3, <1>4, <1>5 DEF StationStep, DataProcessStep

\* Steps that leave queues, symbols and feeds alone keep what is known.
LEMMA AwareFrame ==
  ASSUME UNCHANGED <<fsQueue, processing, symbols, Merging>>, DataFollows
  PROVE  /\ DataFollows'
         /\ \A c, s : UNCHANGED feed[c] /\ (DepthOwed(s, c) => DepthOwed(s, c)')
                        => (Aware(s, c) => Aware(s, c)')
<1>1. \A s : DepthQueued(s) => DepthQueued(s)'
  BY DEF DepthQueued
<1>2. UNCHANGED SymsOf(fsQueue)
  BY DEF SymsOf, SymsUpTo
<1>3. \A c : UNCHANGED feed[c] => UNCHANGED FeedSyms(c)
  BY DEF FeedSyms
<1> QED BY <1>1, <1>2, <1>3 DEF DataFollows, Aware

\* The handlers of the front thread pass depth messages on to every
\* connection that does not lose them.
LEMMA FrontKeepsAware ==
  ASSUME IndexInv, WalkInv, DataFollows, FrontStep
  PROVE  /\ DataFollows'
         /\ \A c \in conSet \ lossy' : \A s : Aware(s, c) => Aware(s, c)'
         /\ \A c : \A s \in symbols' \ symbols : Aware(s, c)'
<1> DEFINE p == Head(fsQueue)
<1>0. /\ fsQueue \in Seq(Package) /\ feed \in [Conns -> Seq(Package)] /\ conSet \subseteq Conns
      /\ front \in FrontState /\ front.msg \in Package
  BY DEF IndexInv, TypeOK, StationsTypeOK, FrontTypeOK, FrontState
<1>a. ASSUME fsQueue # <<>>, fsQueue' = Tail(fsQueue), UNCHANGED processing
      PROVE  \A s : DepthQueued(s) => DepthQueued(s)' \/ (p.tid = "EnhancedDepthData" /\ s \in p.syms)
  <2>0. fsQueue \in Seq(Package) /\ fsQueue # <<>> /\ fsQueue' = Tail(fsQueue) /\ p = Head(fsQueue)
    BY <1>0, <1>a
  <2> HIDE DEF p
  <2>1. fsQueue[1] = p
    BY <2>0
  <2>2. ASSUME NEW i \in DOMAIN fsQueue, i # 1
        PROVE  i - 1 \in DOMAIN fsQueue' /\ fsQueue'[i - 1] = fsQueue[i]
    BY <2>0, <2>2
  <2>3. ASSUME NEW s, NEW i \in DOMAIN fsQueue, fsQueue[i].tid = "EnhancedDepthData",
               s \in fsQueue[i].syms, i # 1
        PROVE  DepthQueued(s)'
    <3>1. i - 1 \in DOMAIN fsQueue' /\ fsQueue'[i - 1] = fsQueue[i]
      BY <2>2, <2>3
    <3> QED BY <2>3, <3>1 DEF DepthQueued
  <2>4. ASSUME NEW s, NEW i \in DOMAIN processing, s \in processing[i].syms
        PROVE  DepthQueued(s)'
    BY <1>a, <2>4 DEF DepthQueued
  <2>5. ASSUME NEW s, DepthQueued(s), ~(p.tid = "EnhancedDepthData" /\ s \in p.syms)
        PROVE  DepthQueued(s)'
    <3>1. CASE \E i \in DOMAIN processing : s \in processing[i].syms
      BY <2>4, <3>1
    <3>2. CASE \E i \in DOMAIN fsQueue : fsQueue[i].tid = "EnhancedDepthData" /\ s \in fsQueue[i].syms
      <4>1. PICK i \in DOMAIN fsQueue : fsQueue[i].tid = "EnhancedDepthData" /\ s \in fsQueue[i].syms
        BY <3>2
      <4>2. i # 1
        BY <2>1, <2>5, <4>1
      <4> QED BY <2>3, <4>1, <4>2
    <3> QED BY <2>5, <3>1, <3>2 DEF DepthQueued
  <2> QED BY <2>5
<1>b. ASSUME UNCHANGED <<fsQueue, processing, symbols, Merging, conSet>>,
             \A c \in conSet \ lossy' : \A s : Aware(s, c) => Aware(s, c)'
      PROVE  /\ DataFollows'
             /\ \A c \in conSet \ lossy' : \A s : Aware(s, c) => Aware(s, c)'
             /\ \A c : \A s \in symbols' \ symbols : Aware(s, c)'
  BY <1>b, AwareFrame
<1>1. CASE StartMerge
  <2>1. /\ fsQueue # <<>> /\ p.tid = "SymbolData" /\ fsQueue' = Tail(fsQueue)
        /\ Merging = {} /\ Merging' = p.syms /\ ~Walking
        /\ UNCHANGED <<symbols, processing, feed, conSet>>
    BY <1>1 DEF StartMerge, FrontIdle, Merging, Walking
  <2>2. \A s : DepthQueued(s) => DepthQueued(s)'
    BY <1>a, <2>1
  <2>3. SymsOf(fsQueue) = p.syms \cup SymsOf(fsQueue)'
    BY <1>0, <2>1, SymsOfTail
  <2>4. DataFollows'
    BY <2>1, <2>2, <2>3 DEF DataFollows
  <2>5. \A c, s : Aware(s, c) => Aware(s, c)'
    BY <2>1, <2>2 DEF Aware, DepthOwed, Owed, FeedSyms, Walking
  <2> QED BY <2>1, <2>4, <2>5
<1>2. CASE FinishMerge
  <2>1. /\ Merging' = {} /\ symbols' = symbols \cup Merging /\ ~Walking
        /\ UNCHANGED <<fsQueue, processing, feed, conSet>>
    BY <1>2 DEF FinishMerge, Broadcast, Merging, stationVars, Walking
  <2>2. \A s : DepthQueued(s) => DepthQueued(s)'
    BY <2>1 DEF DepthQueued
  <2>3. UNCHANGED SymsOf(fsQueue)
    BY <2>1 DEF SymsOf, SymsUpTo
  <2>4. DataFollows'
    BY <2>1, <2>2, <2>3 DEF DataFollows
  <2>5. \A c, s : Aware(s, c) => Aware(s, c)'
    BY <2>1, <2>2 DEF Aware, DepthOwed, Owed, FeedSyms, Walking
  <2>6. \A s \in symbols' \ symbols : DepthQueued(s)'
    BY <2>1, <2>2 DEF DataFollows
  <2> QED BY <2>4, <2>5, <2>6 DEF Aware
<1>3. CASE StartBroadcast
  <2>1. /\ fsQueue # <<>> /\ p.tid # "SymbolData" /\ fsQueue' = Tail(fsQueue)
        /\ Merging = {} /\ Merging' = {} /\ ~Walking
        /\ front'.msg = p /\ front'.at = "walk" /\ front'.todo = conSet
        /\ UNCHANGED <<symbols, processing, feed, conSet>>
    BY <1>3 DEF StartBroadcast, Broadcast, Merging, Walking
  <2>2. \A s : DepthQueued(s) => DepthQueued(s)' \/ (p.tid = "EnhancedDepthData" /\ s \in p.syms)
    BY <1>a, <2>1
  <2>3. SymsOf(fsQueue) = SymsOf(fsQueue)'
    BY <1>0, <2>1, SymsOfTail
  <2>4. p.syms \subseteq symbols
    BY <1>3, FrontKeepsIndex, <2>1 DEF AnnouncedBeforeData, Walking
  <2>5. DataFollows'
    BY <2>1, <2>2, <2>3, <2>4 DEF DataFollows
  <2>6. ASSUME NEW c \in conSet, NEW s, Aware(s, c)
        PROVE  Aware(s, c)'
    <3>1. CASE s \in FeedSyms(c)
      BY <2>1, <3>1 DEF Aware, FeedSyms
    <3>2. CASE DepthQueued(s)
      BY <2>1, <2>2, <3>2 DEF Aware, DepthOwed, Owed, Walking
    <3>3. CASE DepthOwed(s, c)
      BY <2>1, <3>3 DEF DepthOwed, Owed, Walking
    <3> QED BY <2>6, <3>1, <3>2, <3>3 DEF Aware
  <2> QED BY <2>1, <2>5, <2>6
<1>4. CASE Walk
  <2>1. PICK c \in front.todo :
           front' = [front EXCEPT !.at = "send", !.todo = @ \ {c}, !.cur = c]
    BY <1>4 DEF Walk
  <2>2. /\ front.at = "walk" /\ front'.at = "send" /\ front'.msg = front.msg
        /\ front'.todo = front.todo \ {c} /\ front'.cur = c
        /\ UNCHANGED <<fsQueue, processing, symbols, conSet, feed>>
    BY <1>0, <1>4, <2>1 DEF Walk, FrontState, stationVars
  <2>3. UNCHANGED Merging /\ \A d, s : DepthOwed(s, d) => DepthOwed(s, d)'
    BY <2>1, <2>2 DEF DepthOwed, Owed, Walking, Merging
  <2> QED BY <1>b, <2>2, <2>3, AwareFrame
<1>5. CASE Send
  <2> DEFINE d == front.cur
  <2>1. /\ front.at = "send" /\ front'.at = "walk" /\ front'.msg = front.msg
        /\ front'.todo = front.todo
        /\ UNCHANGED <<fsQueue, processing, symbols, conSet>>
    BY <1>0, <1>5 DEF Send, FrontState, stationVars
  <2>2. UNCHANGED Merging
    BY <2>1 DEF Merging
  <2>3. \A c \in Conns : feed'[c] = IF c = d /\ d \in conSet \ over
                                   THEN Append(feed[c], front.msg) ELSE feed[c]
    BY <1>0, <1>5 DEF Send
  <2>4. ASSUME NEW c \in conSet \ lossy', NEW s, Aware(s, c)
        PROVE  Aware(s, c)'
    <3>1. CASE c # d
      <4>1. DepthOwed(s, c) => DepthOwed(s, c)'
        BY <2>1, <3>1 DEF DepthOwed, Owed, Walking
      <4>2. UNCHANGED feed[c]
        BY <1>0, <2>3, <3>1
      <4> QED BY <2>1, <2>2, <2>4, <4>1, <4>2, AwareFrame
    <3>2. CASE c = d
      <4>1. c \in conSet \ over
        BY <1>5, <2>4, <3>2 DEF Send
      <4>2. feed'[c] = Append(feed[c], front.msg) /\ feed[c] \in Seq(Package)
        BY <1>0, <2>3, <3>2, <4>1
      <4>3. /\ \A i \in DOMAIN feed[c] : i \in DOMAIN feed'[c] /\ feed'[c][i] = feed[c][i]
            /\ Len(feed[c]) + 1 \in DOMAIN feed'[c] /\ feed'[c][Len(feed[c]) + 1] = front.msg
        BY <1>0, <4>2
      <4>4. s \in FeedSyms(c) \/ s \in front.msg.syms => s \in FeedSyms(c)'
        BY <4>3 DEF FeedSyms
      <4>5. DepthQueued(s) => DepthQueued(s)'
        BY <2>1 DEF DepthQueued
      <4> QED BY <2>4, <4>4, <4>5 DEF Aware, DepthOwed
    <3> QED BY <3>1, <3>2
  <2> QED BY <1>b, <2>1, <2>2, <2>4
<1>6. CASE EndBroadcast
  <2>1. /\ front.at = "walk" /\ front'.at = "idle" /\ front.todo = {}
        /\ UNCHANGED <<fsQueue, processing, symbols, conSet, feed>>
    BY <1>6 DEF EndBroadcast, FrontIdle, stationVars
  <2>2. UNCHANGED Merging /\ \A d, s : ~DepthOwed(s, d)
    BY <2>1 DEF DepthOwed, Owed, Walking, Merging
  <2> QED BY <1>b, <2>1, <2>2, AwareFrame
<1> QED BY <1>1, <1>2, <1>3, <1>4, <1>5, <1>6 DEF FrontStep

\* So do the peers, for a connection that stays in the set.
LEMMA PeersKeepAware ==
  ASSUME IndexInv, WalkInv, DataFollows, Peers
  PROVE  /\ DataFollows'
         /\ \A c \in conSet \cap conSet' : \A s :
               c \notin lossy' => (Aware(s, c) => Aware(s, c)')
         /\ UNCHANGED symbols
<1>0. /\ UNCHANGED <<stationVars, symbols, Merging>>
      /\ feed \in [Conns -> Seq(Package)] /\ front \in FrontState /\ conSet \subseteq Conns
  BY WalkLeavesSymbols DEF IndexInv, TypeOK, FrontTypeOK
<1>1. UNCHANGED <<fsQueue, processing>>
  BY <1>0 DEF stationVars
<1>2. ASSUME NEW d \in Conns, NEW expected, NEW L, DisturbWalk(expected, L),
             expected \ {d} = front.todo \ {d}, NEW c, c # d, c \notin lossy'
      PROVE  \A s : DepthOwed(s, c) => DepthOwed(s, c)'
  <2>1. /\ front'.at = front.at /\ front'.msg = front.msg /\ front'.cur = front.cur
        /\ Walking => (c \in front'.todo <=> c \in expected)
        /\ ~Walking => front' = front
    BY <1>0, <1>2 DEF DisturbWalk, FrontState
  <2>2. c \in expected <=> c \in front.todo
    BY <1>2
  <2>3. Owed(c) => Owed(c)'
    BY <2>1, <2>2 DEF Owed, Walking
  <2> QED BY <2>1, <2>3 DEF DepthOwed
<1>3. ASSUME NEW d \in Conns, OnOpen(d), NEW c \in conSet \cap conSet', c \notin lossy'
      PROVE  UNCHANGED feed[c] /\ \A s : DepthOwed(s, c) => DepthOwed(s, c)'
  <2> DEFINE expected == front.todo \cup (IF d > front.cur THEN {d} ELSE {})
  <2>1. c # d /\ UNCHANGED feed /\ DisturbWalk(expected, lossy \ {d})
    BY <1>3 DEF OnOpen
  <2>2. expected \ {d} = front.todo \ {d}
    OBVIOUS
  <2> HIDE DEF expected
  <2> QED BY <1>2, <1>3, <2>1, <2>2
<1>4. ASSUME NEW d \in Conns, OnClose(d), NEW c \in conSet \cap conSet', c \notin lossy'
      PROVE  UNCHANGED feed[c] /\ \A s : DepthOwed(s, c) => DepthOwed(s, c)'
  <2> DEFINE expected == front.todo \ {d}
  <2>1. c # d /\ feed' = [feed EXCEPT ![d] = <<>>] /\ DisturbWalk(expected, lossy)
    BY <1>4 DEF OnClose
  <2>2. expected \ {d} = front.todo \ {d} /\ UNCHANGED feed[c]
    BY <1>0, <2>1
  <2> HIDE DEF expected
  <2> QED BY <1>2, <1>4, <2>1, <2>2
<1>5. ASSUME NEW d \in Conns, Congest(d) \/ Relieve(d), NEW c
      PROVE  UNCHANGED feed[c] /\ \A s : DepthOwed(s, c) => DepthOwed(s, c)'
  BY <1>5 DEF Congest, Relieve, DepthOwed, Owed, Walking
<1>6. \A c \in conSet \cap conSet' : c \notin lossy' =>
        UNCHANGED feed[c] /\ \A s : DepthOwed(s, c) => DepthOwed(s, c)'
  BY <1>3, <1>4, <1>5 DEF Peers
<1> QED BY <1>0, <1>1, <1>6, AwareFrame

\* The loop thread reads symbols_ after it has put the connection into the
\* set, and greets it with what it has read.
LEMMA MissedStep ==
  ASSUME IndexInv, WalkInv, MissedInv, [Next]_vars
  PROVE  MissedInv'
<1> USE DEF MissedInv
<1>0. /\ loop \in LoopState /\ snapshot \in [Conns -> SUBSET Symbols] /\ conSet \subseteq Conns
      /\ CallbackConn /\ front \in FrontState
  BY DEF IndexInv, TypeOK, FrontTypeOK
<1>a. ASSUME DataFollows', UNCHANGED <<loop, greeted, snapshot, conSet>>, lossy \subseteq lossy',
             \A c \in conSet \ lossy' : \A s : Aware(s, c) => Aware(s, c)',
             \A c : \A s \in symbols' \ symbols : Aware(s, c)'
      PROVE  MissedInv'
  <2>1. ReadingInv'
    BY <1>0, <1>a DEF ReadingInv, CallbackConn
  <2>2. \A c \in greeted' \ lossy' : \A s \in symbols' : s \in snapshot'[c] \/ Aware(s, c)'
    BY <1>0, <1>a, NoSymbolMissedByAware DEF CallbackConn
  <2> QED BY <1>a, <2>1, <2>2 DEF NoSymbolMissed, Known, DepthPending, Aware, FeedSyms,
                                  DepthQueued, DepthOwed
<1>1. CASE StationStep /\ UNCHANGED frontVars
  <2>1. UNCHANGED <<loop, greeted, snapshot, conSet, lossy, feed, front, symbols>>
    BY <1>1 DEF frontVars
  <2>2. DataFollows' /\ \A s : DepthQueued(s) => DepthQueued(s)'
    BY <1>1, StationsKeepDepth
  <2>3. \A c, s : Aware(s, c) => Aware(s, c)'
    BY <2>1, <2>2 DEF Aware, FeedSyms, DepthOwed, Owed, Walking
  <2> QED BY <1>a, <2>1, <2>2, <2>3
<1>2. CASE FrontStep
  <2>1. UNCHANGED <<loop, greeted, snapshot, conSet>> /\ lossy \subseteq lossy'
    BY <1>2 DEF FrontStep, StartMerge, FinishMerge, StartBroadcast, Walk, Send, EndBroadcast
  <2> QED BY <1>2, <1>a, <2>1, FrontKeepsAware
<1>3. ASSUME LoopStep
      PROVE  DataFollows' /\ \A c, s : Aware(s, c) => Aware(s, c)'
  <2>1. UNCHANGED <<fsQueue, processing, symbols, front, feed>>
    BY <1>3 DEF LoopStep, ReadSymbols, Greet, stationVars
  <2>2. UNCHANGED Merging /\ \A c, s : DepthOwed(s, c) => DepthOwed(s, c)'
    BY <2>1 DEF Merging, DepthOwed, Owed, Walking
  <2> QED BY <2>1, <2>2, AwareFrame
<1>4. CASE ReadSymbols
  <2>1. /\ loop'.con = loop.con /\ UNCHANGED <<symbols, greeted, snapshot>>
        /\ loop.con \in lossy' \/ symbols \subseteq loop'.snap
        /\ lossy \subseteq lossy'
    BY <1>0, <1>4 DEF ReadSymbols, LoopState
  <2>2. ReadingInv'
    BY <2>1 DEF ReadingInv
  <2>3. \A c \in greeted' \ lossy' : \A s \in symbols' : s \in snapshot'[c] \/ Aware(s, c)'
    BY <1>3, <1>4, <2>1, NoSymbolMissedByAware DEF LoopStep
  <2> QED BY <1>3, <1>4, <2>2, <2>3 DEF LoopStep, NoSymbolMissed, Known, DepthPending, Aware,
                                       FeedSyms, DepthQueued, DepthOwed
<1>5. CASE Greet
  <2>1. /\ loop.at = "greet" /\ loop'.at = "idle" /\ UNCHANGED symbols /\ lossy \subseteq lossy'
        /\ loop.con \in Conns
    BY <1>0, <1>5 DEF Greet, LoopIdle, CallbackConn
  <2>2. ReadingInv'
    BY <2>1 DEF ReadingInv
  <2>3. ASSUME NEW c \in greeted' \ lossy', NEW s \in symbols'
        PROVE  s \in snapshot'[c] \/ Aware(s, c)'
    <3>1. CASE c = loop.con
      <4>1. c \notin greeted
        BY <1>0, <2>1, <3>1 DEF CallbackConn
      <4>2. c \notin lossy /\ snapshot'[c] = loop.snap
        BY <1>0, <1>5, <2>1, <2>3, <3>1, <4>1 DEF Greet
      <4> QED BY <1>3, <1>5, <2>1, <3>1, <4>2 DEF LoopStep, ReadingInv
    <3>2. CASE c # loop.con
      <4>1. c \in greeted \ lossy /\ snapshot'[c] = snapshot[c]
        <5>1. \/ UNCHANGED <<greeted, snapshot>>
              \/ /\ greeted' = greeted \cup {loop.con}
                 /\ snapshot' = [snapshot EXCEPT ![loop.con] = loop.snap]
          BY <1>5 DEF Greet
        <5>2. c \in greeted
          BY <2>3, <3>2, <5>1
        <5>3. c \in Conns
          BY <1>0, <5>2 DEF CallbackConn
        <5>4. snapshot'[c] = snapshot[c]
          BY <1>0, <3>2, <5>1, <5>3
        <5> QED BY <2>1, <2>3, <5>2, <5>4
      <4> QED BY <1>3, <1>5, <2>1, <4>1, NoSymbolMissedByAware DEF LoopStep
    <3> QED BY <3>1, <3>2
  <2> QED BY <1>3, <1>5, <2>2, <2>3 DEF LoopStep, NoSymbolMissed, Known, DepthPending, Aware,
                                       FeedSyms, DepthQueued, DepthOwed
<1>6. CASE Peers
  <2>1. \A c \in greeted' \ lossy' : /\ c \in greeted \ lossy /\ c \in conSet \cap conSet'
                                    /\ snapshot'[c] = snapshot[c]
    <3>1. ASSUME NEW d \in Conns, OnOpen(d), NEW c \in greeted' \ lossy'
          PROVE  c \in greeted \ lossy /\ c \in conSet \cap conSet' /\ snapshot'[c] = snapshot[c]
      <4>1. /\ d \notin conSet /\ conSet' = conSet \cup {d} /\ UNCHANGED <<greeted, snapshot>>
            /\ lossy \ {d} \subseteq lossy'
        BY <3>1 DEF OnOpen, DisturbWalk
      <4> QED BY <1>0, <3>1, <4>1 DEF CallbackConn
    <3>2. ASSUME NEW d \in Conns, OnClose(d), NEW c \in greeted' \ lossy'
          PROVE  c \in greeted \ lossy /\ c \in conSet \cap conSet' /\ snapshot'[c] = snapshot[c]
      <4>1. /\ conSet' = conSet \ {d} /\ greeted' = greeted \ {d}
            /\ snapshot' = [snapshot EXCEPT ![d] = {}] /\ lossy \subseteq lossy'
        BY <3>2 DEF OnClose, DisturbWalk
      <4> QED BY <1>0, <3>2, <4>1 DEF CallbackConn
    <3>3. ASSUME NEW d \in Conns, Congest(d) \/ Relieve(d), NEW c \in greeted' \ lossy'
          PROVE  c \in greeted \ lossy /\ c \in conSet \cap conSet' /\ snapshot'[c] = snapshot[c]
      BY <1>0, <3>3 DEF Congest, Relieve, CallbackConn
    <3> QED BY <1>6, <3>1, <3>2, <3>3 DEF Peers
  <2>2. /\ DataFollows' /\ UNCHANGED symbols
        /\ \A c \in conSet \cap conSet' : \A s :
              c \notin lossy' => (Aware(s, c) => Aware(s, c)')
    BY <1>6, PeersKeepAware
  <2>3. ReadingInv'
    <3>1. ~(loop'.at = "greet") \/ (UNCHANGED <<loop, conSet>> /\ lossy \subseteq lossy')
      BY <1>6 DEF Peers, OnOpen, OnClose, Congest, Relieve
    <3> QED BY <1>0, <2>2, <3>1 DEF ReadingInv, CallbackConn
  <2>4. \A c \in greeted' \ lossy' : \A s \in symbols' : s \in snapshot'[c] \/ Aware(s, c)'
    BY <2>1, <2>2, NoSymbolMissedByAware
  <2> QED BY <2>2, <2>3, <2>4 DEF NoSymbolMissed, Known, DepthPending, Aware, FeedSyms,
                                  DepthQueued, DepthOwed
<1>7. CASE UNCHANGED vars \/ Rest
  <2>1. UNCHANGED <<loop, greeted, snapshot, conSet, lossy, feed, front, symbols, fsQueue, processing>>
    BY <1>7 DEF vars, Rest, stationVars, frontVars
  <2>2. UNCHANGED Merging /\ \A c, s : DepthOwed(s, c) => DepthOwed(s, c)'
    BY <2>1 DEF Merging, DepthOwed, Owed, Walking
  <2>3. DataFollows' /\ \A c, s : Aware(s, c) => Aware(s, c)'
    BY <2>1, <2>2, AwareFrame
  <2> QED BY <1>a, <2>1, <2>3
<1> QED BY <1>1, <1>2, <1>4, <1>5, <1>6, <1>7 DEF Next, LoopStep

\* A greeted connection that lost nothing knows every symbol of symbols_ or
\* is going to be sent a depth message of it (wb_server.cpp:56-63 and
\* 117-123, front_server.cpp:107-138).
THEOREM NoSymbolMissedCorrect == Spec => []NoSymbolMissed
<1>1. Init => WalkInv /\ MissedInv
  BY DEF Init, StationsInit, WalkInv, MissedInv, DataFollows, ReadingInv, NoSymbolMissed, Walking,
         Merging, SymsOf, SymsUpTo, FrontIdle, LoopIdle
<1>2. Init => Contiguous
  BY DEF Init, Contiguous
<1>3. IndexInv => TypeOK
  BY DEF IndexInv
<1>4. IndexInv /\ WalkInv /\ Contiguous /\ [Next]_vars => (WalkInv /\ Contiguous)'
  BY <1>3, ContiguousStep
<1>5. IndexInv /\ WalkInv /\ MissedInv /\ [Next]_vars => MissedInv'
  BY MissedStep
<1>6. MissedInv => NoSymbolMissed
  BY DEF MissedInv
<1> QED BY IndexInvInit, IndexInvStep, <1>1, <1>2, <1>4, <1>5, <1>6, PTL DEF Spec

-----------------------------------------------------------------------------
(* The pipeline implements a relay, step by step.                          *)

\* A set that has 0 and the successor of each of its elements has all.
LEMMA Induction ==
  ASSUME NEW T, 0 \in T, \A n \in Nat : n \in T => n + 1 \in T
  PROVE  Nat \subseteq T
<1> DEFINE R == OpToRel(<, Nat)
           Missing == Nat \ T
<1>1. \A x, y \in Nat : x < y => <<x, y>> \in R
  BY DEF OpToRel
<1> SUFFICES ASSUME Missing # {} PROVE FALSE
  OBVIOUS
<1>2. IsWellFoundedOn(R, Nat)
  BY NatLessThanWellFounded
<1> HIDE DEF R
<1>3. PICK n \in Missing : \A m \in Missing : ~(<<m, n>> \in R)
  <2>1. Missing \subseteq Nat
    OBVIOUS
  <2> HIDE DEF Missing
  <2> QED BY <1>2, <2>1, WFMin
<1>4. n \in Nat /\ n # 0 /\ n - 1 \in Nat /\ n - 1 < n
  OBVIOUS
<1>5. n - 1 \in T
  BY <1>1, <1>3, <1>4
<1>6. n - 1 + 1 \in T /\ n - 1 + 1 = n
  BY <1>4, <1>5
<1> QED BY <1>6

\* f[i] is what the first i packages of q carry, for i up to n.
Counts(q, n, f) == f = [i \in 0..n |-> IF i = 0 THEN <<>> ELSE Carry(f[i - 1], q[i])]

\* What one package more carries can always be put behind the others.
LEMMA OnePackageMore ==
  ASSUME NEW q, NEW n \in Nat, NEW g, Counts(q, n, g)
  PROVE  \E f : Counts(q, n + 1, f)
<1> DEFINE f == [i \in 0..(n + 1) |-> IF i = n + 1 THEN Carry(g[n], q[n + 1]) ELSE g[i]]
           h == [i \in 0..(n + 1) |-> IF i = 0 THEN <<>> ELSE Carry(f[i - 1], q[i])]
<1>1. ASSUME NEW i \in 0..(n + 1)
      PROVE  f[i] = h[i]
  <2>1. CASE i = n + 1
    <3>1. n \in 0..(n + 1) /\ n # n + 1 /\ n + 1 \in 0..(n + 1) /\ n + 1 # 0 /\ i - 1 = n
      BY <2>1
    <3>2. f[n] = g[n] /\ f[i] = Carry(g[n], q[n + 1])
      BY <2>1, <3>1
    <3>3. h[i] = Carry(f[n], q[n + 1])
      BY <2>1, <3>1
    <3> QED BY <3>2, <3>3
  <2>2. CASE i # n + 1
    <3>1. i \in 0..n /\ (i # 0 => i - 1 \in 0..n /\ i - 1 \in 0..(n + 1) /\ i - 1 # n + 1)
      BY <2>2
    <3>2. g[i] = IF i = 0 THEN <<>> ELSE Carry(g[i - 1], q[i])
      BY <3>1 DEF Counts
    <3> QED BY <2>2, <3>1, <3>2
  <2> QED BY <2>1, <2>2
<1>2. f = h
  BY <1>1
<1> QED BY <1>2 DEF Counts

\* So the recursion that defines Numbers defines something.
LEMMA CountsExist == ASSUME NEW q PROVE \A n \in Nat : \E f : Counts(q, n, f)
<1> DEFINE T == {n \in Nat : \E f : Counts(q, n, f)}
<1>1. 0 \in T
  <2>1. Counts(q, 0, [i \in 0..0 |-> <<>>])
    BY DEF Counts
  <2> QED BY <2>1
<1>2. \A n \in Nat : n \in T => n + 1 \in T
  BY OnePackageMore
<1> HIDE DEF T
<1>3. Nat \subseteq T
  BY <1>1, <1>2, Induction
<1> QED BY <1>3 DEF T

\* What the packages of a queue carry, one after the other.
LEMMA NumbersAre ==
  ASSUME NEW S, NEW q \in Seq(S)
  PROVE  \E f : Counts(q, Len(q), f) /\ Numbers(q) = f[Len(q)]
<1> DEFINE f == CHOOSE f : f = [i \in 0..Len(q) |-> IF i = 0 THEN <<>> ELSE Carry(f[i - 1], q[i])]
<1>1. f = [i \in 0..Len(q) |-> IF i = 0 THEN <<>> ELSE Carry(f[i - 1], q[i])]
  <2>1. Len(q) \in Nat
    OBVIOUS
  <2> QED BY <2>1, CountsExist DEF Counts
<1>2. Numbers(q) = f[Len(q)]
  BY DEF Numbers
<1> HIDE DEF f
<1> QED BY <1>1, <1>2 DEF Counts

\* Each value of such a function follows from the one before it.
LEMMA CountsNext ==
  ASSUME NEW q, NEW n \in Nat, NEW f, Counts(q, n, f)
  PROVE  /\ f[0] = <<>>
         /\ \A i \in 0..(n - 1) : f[i + 1] = Carry(f[i], q[i + 1])
<1>1. \A i \in 0..n : f[i] = IF i = 0 THEN <<>> ELSE Carry(f[i - 1], q[i])
  BY DEF Counts
<1>2. f[0] = <<>>
  BY <1>1
<1>3. ASSUME NEW i \in 0..(n - 1)
      PROVE  f[i + 1] = Carry(f[i], q[i + 1])
  <2>1. i + 1 \in 0..n /\ i + 1 # 0 /\ i + 1 - 1 = i
    OBVIOUS
  <2>2. f[i + 1] = IF i + 1 = 0 THEN <<>> ELSE Carry(f[i + 1 - 1], q[i + 1])
    BY <1>1, <2>1
  <2> QED BY <2>1, <2>2
<1> QED BY <1>2, <1>3

\* Queues that begin alike carry the same as far as they do.
LEMMA CountsAgree ==
  ASSUME NEW q, NEW r, NEW m \in Nat, NEW n \in Nat, NEW f, NEW g, Counts(q, m, f), Counts(r, n, g),
         NEW k \in 0..m, k <= n, \A i \in 1..k : q[i] = r[i]
  PROVE  f[k] = g[k]
<1> DEFINE T == {i \in Nat : i <= k => f[i] = g[i]}
<1>1. 0 \in T
  BY CountsNext
<1>2. \A i \in Nat : i \in T => i + 1 \in T
  <2> SUFFICES ASSUME NEW i \in Nat, i \in T, i + 1 <= k
               PROVE  f[i + 1] = g[i + 1]
    OBVIOUS
  <2>1. i \in 0..(m - 1) /\ i \in 0..(n - 1) /\ i + 1 \in 1..k /\ i <= k
    OBVIOUS
  <2>2. f[i] = g[i]
    BY <2>1
  <2>3. f[i + 1] = Carry(f[i], q[i + 1]) /\ g[i + 1] = Carry(g[i], r[i + 1])
    BY <2>1, CountsNext
  <2> QED BY <2>1, <2>2, <2>3
<1> HIDE DEF T
<1>3. Nat \subseteq T
  BY <1>1, <1>2, Induction
<1> QED BY <1>3 DEF T

\* What the numbers of some packages and of one more are like.
LEMMA CarryIs ==
  ASSUME NEW s \in Seq(Nat), NEW p, p.n \in Nat
  PROVE  /\ Carry(s, p) \in Seq(Nat)
         /\ Carry(s, p) = s \o Carry(<<>>, p)
         /\ \A t \in Seq(Nat) : t \o Carry(s, p) = Carry(t \o s, p)
<1>1. CASE Carries(p)
  <2>1. Carry(s, p) = Append(s, p.n) /\ Carry(<<>>, p) = <<p.n>>
    BY <1>1 DEF Carry
  <2>2. ASSUME NEW t \in Seq(Nat)
        PROVE  t \o Append(s, p.n) = Append(t \o s, p.n)
    OBVIOUS
  <2>3. Append(s, p.n) = s \o <<p.n>> /\ Append(s, p.n) \in Seq(Nat)
    OBVIOUS
  <2> QED BY <1>1, <2>1, <2>2, <2>3 DEF Carry
<1>2. CASE ~Carries(p)
  <2>1. Carry(s, p) = s /\ Carry(<<>>, p) = <<>>
    BY <1>2 DEF Carry
  <2>2. s \o <<>> = s
    OBVIOUS
  <2> QED BY <1>2, <2>1, <2>2 DEF Carry
<1> QED BY <1>1, <1>2

\* They are numbers.
LEMMA NumbersType ==
  ASSUME NEW q \in Seq(Package)
  PROVE  Numbers(q) \in Seq(Nat)
<1> DEFINE n == Len(q)
<1>1. PICK f : Counts(q, n, f) /\ Numbers(q) = f[n]
  BY NumbersAre
<1>2. n \in Nat /\ \A i \in 1..n : q[i].n \in Nat
  <2>1. n \in Nat /\ \A i \in 1..n : q[i] \in Package
    OBVIOUS
  <2>2. \A p \in Package : p.n \in Nat
    BY BoundsAssumption DEF Package
  <2> QED BY <2>1, <2>2
<1> HIDE DEF n
<1> DEFINE T == {i \in Nat : i <= n => f[i] \in Seq(Nat)}
<1>3. 0 \in T
  <2>1. f[0] = <<>>
    BY <1>1, <1>2, CountsNext
  <2>2. <<>> \in Seq(Nat)
    OBVIOUS
  <2>3. f[0] \in Seq(Nat)
    BY <2>1, <2>2
  <2> QED BY <2>3
<1>4. \A i \in Nat : i \in T => i + 1 \in T
  <2> SUFFICES ASSUME NEW i \in Nat, i \in T, i + 1 <= n
               PROVE  f[i + 1] \in Seq(Nat)
    OBVIOUS
  <2>1. i \in 0..(n - 1) /\ i + 1 \in 1..n /\ i <= n
    BY <1>2
  <2>2. f[i + 1] = Carry(f[i], q[i + 1])
    BY <1>1, <1>2, <2>1, CountsNext
  <2>3. f[i] \in Seq(Nat) /\ q[i + 1].n \in Nat
    BY <1>2, <2>1
  <2> QED BY <2>2, <2>3, CarryIs
<1> HIDE DEF T
<1>5. Nat \subseteq T
  BY <1>3, <1>4, Induction
<1>6. n \in T
  BY <1>2, <1>5
<1> QED BY <1>1, <1>2, <1>6 DEF T

\* A queue that nothing is in carries nothing.
LEMMA NumbersNothing == Numbers(<<>>) = <<>>
<1>1. <<>> \in Seq(Nat) /\ Len(<<>>) = 0
  OBVIOUS
<1>2. PICK f : Counts(<<>>, 0, f) /\ Numbers(<<>>) = f[0]
  BY <1>1, NumbersAre
<1> QED BY <1>2, CountsNext

\* A package that is posted comes behind the others.
LEMMA NumbersAppend ==
  ASSUME NEW S, NEW q \in Seq(S), NEW p \in S
  PROVE  Numbers(Append(q, p)) = Carry(Numbers(q), p)
<1> DEFINE r == Append(q, p)
           n == Len(q)
<1>1. n \in Nat /\ r \in Seq(S) /\ Len(r) = n + 1 /\ r[n + 1] = p /\ \A i \in 1..n : q[i] = r[i]
  OBVIOUS
<1>2. PICK f : Counts(q, n, f) /\ Numbers(q) = f[n]
  BY NumbersAre
<1> HIDE DEF r, n
<1>3. PICK g : Counts(r, n + 1, g) /\ Numbers(r) = g[n + 1]
  BY <1>1, NumbersAre
<1>4. f[n] = g[n]
  <2>1. n \in 0..n /\ n <= n + 1 /\ n + 1 \in Nat
    BY <1>1
  <2> QED BY <1>1, <1>2, <1>3, <2>1, CountsAgree
<1>5. g[n + 1] = Carry(g[n], r[n + 1])
  <2>1. n \in 0..(n + 1 - 1) /\ n + 1 \in Nat
    BY <1>1
  <2> QED BY <1>3, <2>1, CountsNext
<1> QED BY <1>1, <1>2, <1>3, <1>4, <1>5 DEF r

\* The package that is taken off a queue came before the others.
LEMMA NumbersTail ==
  ASSUME NEW q \in Seq(Package), q # <<>>
  PROVE  Numbers(q) = Carry(<<>>, Head(q)) \o Numbers(Tail(q))
<1> DEFINE r == Tail(q)
           n == Len(r)
           a == Carry(<<>>, Head(q))
<1>1. /\ n \in Nat /\ r \in Seq(Package) /\ Len(q) = n + 1 /\ Head(q) = q[1]
      /\ \A i \in 1..n : r[i] = q[i + 1] /\ r[i] \in Package
      /\ q[1] \in Package
  OBVIOUS
<1>2. PICK g : Counts(r, n, g) /\ Numbers(r) = g[n]
  BY <1>1, NumbersAre
<1> HIDE DEF r, n
<1>3. PICK f : Counts(q, n + 1, f) /\ Numbers(q) = f[n + 1]
  BY <1>1, NumbersAre
<1>4. \A p \in Package : p.n \in Nat
  BY BoundsAssumption DEF Package
<1>5. a \in Seq(Nat)
  <2>1. <<>> \in Seq(Nat)
    OBVIOUS
  <2> QED BY <1>1, <1>4, <2>1, CarryIs
<1> HIDE DEF a
<1>6. f[0] = <<>> /\ \A i \in 0..n : f[i + 1] = Carry(f[i], q[i + 1])
  <2> DEFINE m == n + 1
  <2>1. m \in Nat /\ \A i \in 0..n : i \in 0..(m - 1)
    BY <1>1
  <2>2. Counts(q, m, f)
    BY <1>3
  <2> HIDE DEF m
  <2> QED BY <2>1, <2>2, CountsNext
<1>7. f[0] = <<>> /\ g[0] = <<>> /\ \A i \in 0..(n - 1) : g[i + 1] = Carry(g[i], r[i + 1])
  BY <1>1, <1>2, <1>3, <1>6, CountsNext
<1> DEFINE T == {i \in Nat : i <= n => g[i] \in Seq(Nat) /\ f[i + 1] = a \o g[i]}
<1>8. 0 \in T
  <2>1. f[0 + 1] = Carry(f[0], q[0 + 1]) /\ 0 + 1 = 1
    BY <1>1, <1>6
  <2>2. f[1] = a
    BY <1>1, <1>7, <2>1 DEF a
  <2>3. a \o <<>> = a /\ <<>> \in Seq(Nat)
    BY <1>5
  <2> QED BY <1>7, <2>1, <2>2, <2>3
<1>9. \A i \in Nat : i \in T => i + 1 \in T
  <2> SUFFICES ASSUME NEW i \in Nat, i \in T, i + 1 <= n
               PROVE  g[i + 1] \in Seq(Nat) /\ f[i + 1 + 1] = a \o g[i + 1]
    OBVIOUS
  <2>1. i \in 0..(n - 1) /\ i + 1 \in 0..n /\ i + 1 \in 1..n /\ i <= n
    BY <1>1
  <2>2. g[i] \in Seq(Nat) /\ f[i + 1] = a \o g[i]
    BY <2>1
  <2>3. g[i + 1] = Carry(g[i], r[i + 1]) /\ f[i + 1 + 1] = Carry(f[i + 1], q[i + 1 + 1])
    BY <1>6, <1>7, <2>1
  <2>4. r[i + 1] = q[i + 1 + 1] /\ r[i + 1].n \in Nat
    BY <1>1, <1>4, <2>1
  <2> HIDE DEF a, T
  <2>5. Carry(g[i], r[i + 1]) \in Seq(Nat) /\ a \o Carry(g[i], r[i + 1]) = Carry(a \o g[i], r[i + 1])
    BY <1>5, <2>2, <2>4, CarryIs
  <2> QED BY <2>2, <2>3, <2>4, <2>5
<1> HIDE DEF T, a
<1>10. Nat \subseteq T
  BY <1>8, <1>9, Induction
<1>11. n \in T
  BY <1>1, <1>10
<1>12. f[n + 1] = a \o g[n]
  BY <1>1, <1>11 DEF T
<1> QED BY <1>2, <1>3, <1>12 DEF a, r

\* One sequence of numbers behind another, and the numbers of the queues:
\* those of fsQueue, a, come out first, those of drQueue, r, last.
Cat(a, b) == a \o b
Line(a, p, d, r) == Cat(Cat(Cat(a, p), d), r)

\* The updates on their way and those that came out.
Backlog == Line(Numbers(fsQueue), Numbers(processing), Numbers(DataTasks), Numbers(drQueue))
Emitted == Numbers(published)

\* Nothing but depth data carries a number: neither a request nor what is
\* merged; and every update that was pushed is on its way or came out.
RelayInv ==
    /\ IndexInv
    /\ \A i \in DOMAIN dpQueue : dpQueue[i].call = "request" => ~Carries(dpQueue[i].pkg)
    /\ front.at = "merge" => ~Carries(front.msg)
    /\ Len(Backlog) + Len(Emitted) = clock

\* What a step may do to them.
Accepting == /\ clock < MaxUpdates /\ clock' = clock + 1
             /\ Backlog' = Append(Backlog, clock + 1) /\ Emitted' = Emitted
Emitting == \E n \in Nat : Backlog = Cat(<<n>>, Backlog') /\ Emitted' = Append(Emitted, n) /\ clock' = clock
Waiting == Backlog' = Backlog /\ Emitted' = Emitted /\ clock' = clock

\* The packages of the tasks of DataProcess.
LEMMA DataTasksAre ==
  ASSUME StationsTypeOK
  PROVE  /\ DataTasks \in Seq(Package)
         /\ \A t \in Task : dpQueue' = Append(dpQueue, t) => DataTasks' = Append(DataTasks, t.pkg)
         /\ dpQueue # <<>> /\ dpQueue' = Tail(dpQueue)
               => /\ DataTasks # <<>> /\ Head(DataTasks) = Head(dpQueue).pkg
                  /\ DataTasks' = Tail(DataTasks)
         /\ dpQueue' = dpQueue => DataTasks' = DataTasks
<1>1. dpQueue \in Seq(Task) /\ \A t \in Task : t.pkg \in Package
  BY DEF StationsTypeOK, Task
<1>2. DataTasks \in Seq(Package) /\ Len(DataTasks) = Len(dpQueue)
      /\ \A i \in 1..Len(dpQueue) : DataTasks[i] = dpQueue[i].pkg
  BY <1>1 DEF DataTasks
<1>3. ASSUME NEW t \in Task, dpQueue' = Append(dpQueue, t)
      PROVE  DataTasks' = Append(DataTasks, t.pkg)
  <2>1. DataTasks' = [i \in 1..(Len(dpQueue) + 1) |-> IF i = Len(dpQueue) + 1 THEN t.pkg ELSE dpQueue[i].pkg]
    BY <1>1, <1>3 DEF DataTasks
  <2>2. Append(DataTasks, t.pkg)
           = [i \in 1..(Len(dpQueue) + 1) |-> IF i = Len(dpQueue) + 1 THEN t.pkg ELSE dpQueue[i].pkg]
    BY <1>1, <1>2
  <2> QED BY <2>1, <2>2
<1>4. ASSUME dpQueue # <<>>, dpQueue' = Tail(dpQueue)
      PROVE  /\ DataTasks # <<>> /\ Head(DataTasks) = Head(dpQueue).pkg
             /\ DataTasks' = Tail(DataTasks)
  <2>1. DataTasks # <<>> /\ Head(DataTasks) = Head(dpQueue).pkg
    BY <1>1, <1>2, <1>4
  <2>2. DataTasks' = [i \in 1..(Len(dpQueue) - 1) |-> dpQueue[i + 1].pkg]
    BY <1>1, <1>4 DEF DataTasks
  <2> DEFINE d == DataTasks
             r == Tail(d)
             n == Len(dpQueue)
  <2>3. d \in Seq(Package) /\ d # <<>> /\ Len(d) = n /\ n \in Nat
        /\ \A i \in 1..n : d[i] = dpQueue[i].pkg
    BY <1>1, <1>2, <2>1
  <2> HIDE DEF d, n
  <2>4. r \in Seq(Package) /\ Len(r) = n - 1 /\ \A i \in 1..(n - 1) : r[i] = d[i + 1]
    BY <2>3
  <2>5. \A i \in 1..(n - 1) : d[i + 1] = dpQueue[i + 1].pkg
    BY <2>3
  <2> HIDE DEF r
  <2>6. r = [i \in 1..(n - 1) |-> r[i]]
    BY <2>4
  <2>7. r = [i \in 1..(n - 1) |-> dpQueue[i + 1].pkg]
    BY <2>4, <2>5, <2>6
  <2> QED BY <2>1, <2>2, <2>7 DEF d, n, r
<1> QED BY <1>2, <1>3, <1>4 DEF DataTasks

\* Sequences put together may be taken together in any order.
LEMMA Together ==
  ASSUME NEW a \in Seq(Nat), NEW b \in Seq(Nat), NEW c \in Seq(Nat)
  PROVE  Cat(Cat(a, b), c) = Cat(a, Cat(b, c))
<1>1. (a \o b) \o c = a \o (b \o c)
  OBVIOUS
<1> QED BY <1>1, Zenon DEF Cat

\* They are a sequence.
LEMMA CatType ==
  ASSUME NEW a \in Seq(Nat), NEW b \in Seq(Nat)
  PROVE  Cat(a, b) \in Seq(Nat)
BY DEF Cat

\* One without elements makes no difference.
LEMMA Nothing ==
  ASSUME NEW a \in Seq(Nat)
  PROVE  Cat(a, <<>>) = a /\ Cat(<<>>, a) = a
<1>1. a \o <<>> = a
  OBVIOUS
<1>2. <<>> \o a \in Seq(Nat) /\ Len(<<>> \o a) = Len(a) /\ \A j \in 1..Len(a) : (<<>> \o a)[j] = a[j]
  <2>1. <<>> \in Seq(Nat) /\ Len(<<>>) = 0
    OBVIOUS
  <2> QED BY <2>1
<1>3. <<>> \o a = a
  BY <1>2
<1> QED BY <1>1, <1>3, Zenon DEF Cat

\* What is carried, c, is the same wherever in the pipeline it is: behind
\* everything, handed from a queue to the next one, or in front of everything.
LEMMA Handed ==
  ASSUME NEW a \in Seq(Nat), NEW p \in Seq(Nat), NEW d \in Seq(Nat), NEW r \in Seq(Nat), NEW c \in Seq(Nat)
  PROVE  /\ Line(a, p, d, Cat(r, c)) = Cat(Line(a, p, d, r), c)
         /\ Line(a, p, d, Cat(c, r)) = Line(a, p, Cat(d, c), r)
         /\ Line(a, <<>>, Cat(c, d), r) = Line(Cat(a, c), <<>>, d, r)
         /\ Line(a, <<>>, Cat(c, d), r) = Line(a, c, d, r)
         /\ Line(a, Cat(c, p), d, r) = Line(Cat(a, c), p, d, r)
         /\ Line(Cat(c, a), p, d, r) = Cat(c, Line(a, p, d, r))
<1>1. Cat(a, p) \in Seq(Nat) /\ Cat(Cat(a, p), d) \in Seq(Nat) /\ Cat(a, c) \in Seq(Nat)
  BY CatType
<1> QED BY <1>1, Together, Nothing DEF Line

\* The sequences that the backlog is made of.
LEMMA RelayTypes ==
  ASSUME TypeOK
  PROVE  /\ Numbers(fsQueue) \in Seq(Nat) /\ Numbers(processing) \in Seq(Nat)
         /\ Numbers(DataTasks) \in Seq(Nat) /\ Numbers(drQueue) \in Seq(Nat)
         /\ Backlog \in Seq(Nat) /\ Emitted \in Seq(Nat)
<1>1. /\ fsQueue \in Seq(Package) /\ processing \in Seq(Package) /\ DataTasks \in Seq(Package)
      /\ drQueue \in Seq(Package) /\ published \in Seq(Package)
  BY DataTasksAre DEF TypeOK, StationsTypeOK, FrontTypeOK
<1>2. /\ Numbers(fsQueue) \in Seq(Nat) /\ Numbers(processing) \in Seq(Nat)
      /\ Numbers(DataTasks) \in Seq(Nat) /\ Numbers(drQueue) \in Seq(Nat) /\ Numbers(published) \in Seq(Nat)
  BY <1>1, NumbersType
<1>3. Backlog \in Seq(Nat)
  BY <1>2, CatType DEF Backlog, Line
<1> QED BY <1>2, <1>3 DEF Emitted

\* What a package carries by itself.
LEMMA Alone ==
  ASSUME NEW p \in Package
  PROVE  /\ Carry(<<>>, p) = IF Carries(p) THEN <<p.n>> ELSE <<>>
         /\ Carry(<<>>, p) \in Seq(Nat) /\ p.n \in Nat
<1>1. p.n \in Nat
  BY BoundsAssumption DEF Package
<1> QED BY <1>1 DEF Carry

\* A package is posted to a queue, or taken from it.
LEMMA Moved ==
  ASSUME NEW q \in Seq(Package)
  PROVE  /\ \A p \in Package : Numbers(Append(q, p)) = Cat(Numbers(q), Carry(<<>>, p))
         /\ q # <<>> => /\ Head(q) \in Package
                        /\ Numbers(q) = Cat(Carry(<<>>, Head(q)), Numbers(Tail(q)))
                        /\ Numbers(Tail(q)) \in Seq(Nat)
<1>1. ASSUME NEW p \in Package
      PROVE  Numbers(Append(q, p)) = Cat(Numbers(q), Carry(<<>>, p))
  <2>1. p.n \in Nat /\ Numbers(q) \in Seq(Nat)
    BY Alone, NumbersType
  <2>2. Numbers(Append(q, p)) = Carry(Numbers(q), p)
    BY NumbersAppend
  <2> DEFINE s == Numbers(q)
  <2> HIDE DEF s
  <2>3. s \in Seq(Nat) /\ Numbers(Append(q, p)) = Carry(s, p)
    BY <2>1, <2>2 DEF s
  <2>4. Carry(s, p) = Cat(s, Carry(<<>>, p))
    BY <2>1, <2>3, CarryIs DEF Cat
  <2> QED BY <2>3, <2>4 DEF s
<1>2. ASSUME q # <<>>
      PROVE  /\ Head(q) \in Package
             /\ Numbers(q) = Cat(Carry(<<>>, Head(q)), Numbers(Tail(q)))
             /\ Numbers(Tail(q)) \in Seq(Nat)
  <2>1. Head(q) \in Package /\ Tail(q) \in Seq(Package)
    BY <1>2
  <2> QED BY <1>2, <2>1, NumbersTail, NumbersType DEF Cat
<1> QED BY <1>1, <1>2

\* The two stations: what is pushed joins the backlog at its end, and what is
\* passed on stays where it is.
LEMMA StationsMove ==
  ASSUME RelayInv, StationStep, UNCHANGED frontVars
  PROVE  Accepting \/ Waiting
<1> DEFINE a == Numbers(fsQueue)
           p == Numbers(processing)
           d == Numbers(DataTasks)
           r == Numbers(drQueue)
<1>1. /\ StationsTypeOK /\ fsQueue \in Seq(Package) /\ processing \in Seq(Package) /\ DataTasks \in Seq(Package)
      /\ drQueue \in Seq(Package) /\ dpQueue \in Seq(Task) /\ clock \in Nat
      /\ a \in Seq(Nat) /\ p \in Seq(Nat) /\ d \in Seq(Nat) /\ r \in Seq(Nat) /\ Backlog \in Seq(Nat)
  BY RelayTypes, DataTasksAre, BoundsAssumption DEF RelayInv, IndexInv, TypeOK, StationsTypeOK
<1>2. /\ Backlog = Line(a, p, d, r)
      /\ Backlog' = Line(Numbers(fsQueue'), Numbers(processing'), Numbers(DataTasks'), Numbers(drQueue'))
  BY DEF Backlog
<1>3. Emitted' = Emitted
  BY DEF frontVars, Emitted
<1>4. \A t \in Task : t.pkg \in Package
  BY DEF Task
<1>5. \A S \in SUBSET Symbols, k \in 0..MaxUpdates, t \in Tids : Pkg(t, S, k) \in Package
  BY DEF Pkg, Package
<1> HIDE DEF a, p, d, r
<1>6. ASSUME NEW s \in Symbols, OnDepth(s)
      PROVE  Accepting
  <2> DEFINE q == Pkg("SDepthData", {s}, clock + 1)
  <2>1. /\ clock < MaxUpdates /\ clock' = clock + 1 /\ drQueue' = Append(drQueue, q)
        /\ UNCHANGED <<dpQueue, processing, fsQueue>>
    BY <1>6 DEF OnDepth
  <2>2. q \in Package /\ Carries(q) /\ q.n = clock + 1
    <3>1. clock + 1 \in 0..MaxUpdates
      BY <1>1, <2>1, BoundsAssumption
    <3> QED BY <1>5, <3>1 DEF Tids, Pkg, Carries
  <2> HIDE DEF q
  <2>3. Numbers(drQueue') = Cat(r, <<clock + 1>>)
    BY <1>1, <2>1, <2>2, Moved, Alone DEF r
  <2>4. DataTasks' = DataTasks
    BY <1>1, <2>1, DataTasksAre
  <2>5. Backlog' = Cat(Backlog, <<clock + 1>>)
    <3> DEFINE c == <<clock + 1>>
    <3>1. c \in Seq(Nat)
      BY <1>1
    <3>2. Backlog' = Line(a, p, d, Cat(r, c))
      BY <1>2, <2>1, <2>3, <2>4 DEF a, p, d
    <3> HIDE DEF c
    <3>3. Line(a, p, d, Cat(r, c)) = Cat(Line(a, p, d, r), c)
      BY <1>1, <3>1, Handed
    <3> QED BY <1>2, <3>2, <3>3 DEF c
  <2>6. Cat(Backlog, <<clock + 1>>) = Append(Backlog, clock + 1)
    BY <1>1 DEF Cat
  <2> QED BY <1>3, <2>1, <2>5, <2>6 DEF Accepting
<1>7. ASSUME NEW q \in Package, ~Carries(q), drQueue' = Append(drQueue, q),
             UNCHANGED <<dpQueue, processing, fsQueue, clock>>
      PROVE  Waiting
  <2>1. Numbers(drQueue') = r
    <3>1. Cat(r, <<>>) = r
      BY <1>1, Nothing
    <3> QED BY <1>1, <1>7, <3>1, Moved, Alone DEF r
  <2>2. DataTasks' = DataTasks
    BY <1>1, <1>7, DataTasksAre
  <2> QED BY <1>2, <1>3, <1>7, <2>1, <2>2 DEF Waiting, a, p, d
<1>8. ASSUME NEW t \in Task, ~Carries(t.pkg), dpQueue' = Append(dpQueue, t),
             UNCHANGED <<drQueue, processing, fsQueue, clock>>
      PROVE  Waiting
  <2>1. DataTasks' = Append(DataTasks, t.pkg) /\ t.pkg \in Package
    BY <1>1, <1>4, <1>8, DataTasksAre
  <2>2. Numbers(DataTasks') = d
    <3>1. Cat(d, <<>>) = d
      BY <1>1, Nothing
    <3> QED BY <1>1, <1>8, <2>1, <3>1, Moved, Alone DEF d
  <2> QED BY <1>2, <1>3, <1>8, <2>2 DEF Waiting, a, p, r
<1>9. CASE HandleDepthData
  <2> DEFINE q == Head(drQueue)
             c == Carry(<<>>, q)
             t == Response(q)
  <2>1. /\ drQueue # <<>> /\ drQueue' = Tail(drQueue) /\ dpQueue' = Append(dpQueue, t)
        /\ UNCHANGED <<clock, processing, fsQueue>>
    BY <1>9 DEF HandleDepthData
  <2>2. q \in Package /\ r = Cat(c, Numbers(drQueue')) /\ Numbers(drQueue') \in Seq(Nat)
    BY <1>1, <2>1, Moved DEF r
  <2>3. t \in Task /\ t.pkg = q /\ c \in Seq(Nat)
    BY <2>2, Alone DEF Response, Task
  <2> HIDE DEF t, q
  <2>4. DataTasks' = Append(DataTasks, q)
    BY <1>1, <2>1, <2>3, DataTasksAre
  <2>5. Numbers(DataTasks') = Cat(d, c)
    BY <1>1, <2>2, <2>4, Moved DEF d
  <2> HIDE DEF c
  <2>6. Line(a, p, d, Cat(c, Numbers(drQueue'))) = Line(a, p, Cat(d, c), Numbers(drQueue'))
    BY <1>1, <2>2, <2>3, Handed
  <2> QED BY <1>2, <1>3, <2>1, <2>2, <2>5, <2>6 DEF Waiting, a, p
<1>10. CASE HandleKlineData
  <2>1. /\ drQueue # <<>> /\ drQueue' = Tail(drQueue) /\ Head(drQueue).tid = "KlineData"
        /\ UNCHANGED <<clock, processing, fsQueue, dpQueue>>
    BY <1>10 DEF HandleKlineData
  <2>2. /\ Head(drQueue) \in Package /\ r = Cat(Carry(<<>>, Head(drQueue)), Numbers(drQueue'))
        /\ Numbers(drQueue') \in Seq(Nat)
    BY <1>1, <2>1, Moved DEF r
  <2>3. Carry(<<>>, Head(drQueue)) = <<>>
    BY <2>1 DEF Carry, Carries
  <2>4. Numbers(drQueue') = r
    BY <2>2, <2>3, Nothing
  <2>5. DataTasks' = DataTasks
    BY <1>1, <2>1, DataTasksAre
  <2> QED BY <1>2, <1>3, <2>1, <2>4, <2>5 DEF Waiting, a, p, d
<1>11. ASSUME dpQueue # <<>>, dpQueue' = Tail(dpQueue)
       PROVE  /\ Head(dpQueue) \in Task /\ Head(dpQueue).pkg \in Package
              /\ d = Cat(Carry(<<>>, Head(dpQueue).pkg), Numbers(DataTasks')) /\ Numbers(DataTasks') \in Seq(Nat)
  <2>1. Head(dpQueue) \in Task
    BY <1>1, <1>11
  <2>2. DataTasks # <<>> /\ Head(DataTasks) = Head(dpQueue).pkg /\ DataTasks' = Tail(DataTasks)
    BY <1>1, <1>11, DataTasksAre
  <2> QED BY <1>1, <1>4, <2>1, <2>2, Moved DEF d
<1>12. CASE HandleRequest
  <2>1. /\ dpQueue # <<>> /\ dpQueue' = Tail(dpQueue) /\ Head(dpQueue).call = "request"
        /\ fsQueue' = Append(fsQueue, Announcement(Stored))
        /\ UNCHANGED <<clock, processing, drQueue>>
    BY <1>12 DEF HandleRequest, NextTaskIs
  <2>2. ~Carries(Head(dpQueue).pkg)
    <3>1. Head(dpQueue) = dpQueue[1] /\ 1 \in DOMAIN dpQueue
      BY <1>1, <2>1
    <3> QED BY <2>1, <3>1 DEF RelayInv
  <2>3. Numbers(DataTasks') = d
    <3>1. Carry(<<>>, Head(dpQueue).pkg) = <<>>
      BY <2>2 DEF Carry
    <3> QED BY <1>11, <2>1, <3>1, Nothing
  <2>4. Announcement(Stored) \in Package /\ ~Carries(Announcement(Stored))
    <3>1. Stored \in SUBSET Symbols /\ 0 \in 0..MaxUpdates
      BY BoundsAssumption DEF Stored
    <3> QED BY <1>5, <3>1 DEF Announcement, Tids, Pkg, Carries
  <2>5. Numbers(fsQueue') = a
    <3>1. Cat(a, <<>>) = a
      BY <1>1, Nothing
    <3> QED BY <1>1, <2>1, <2>4, <3>1, Moved, Alone DEF a
  <2> QED BY <1>2, <1>3, <2>1, <2>3, <2>5 DEF Waiting, p, r
<1>13. CASE PassOn
  <2> DEFINE q == Head(dpQueue).pkg
             c == Carry(<<>>, q)
  <2>1. /\ dpQueue # <<>> /\ dpQueue' = Tail(dpQueue) /\ processing = <<>>
        /\ fsQueue' = Append(fsQueue, q) /\ UNCHANGED <<clock, processing, drQueue>>
    BY <1>13 DEF PassOn, NextTaskIs
  <2>2. q \in Package /\ d = Cat(c, Numbers(DataTasks')) /\ Numbers(DataTasks') \in Seq(Nat)
    BY <1>11, <2>1
  <2> HIDE DEF q
  <2>3. Numbers(fsQueue') = Cat(a, c) /\ c \in Seq(Nat)
    BY <1>1, <2>1, <2>2, Moved, Alone DEF a
  <2>4. p = <<>> /\ Numbers(processing') = <<>>
    BY <2>1, NumbersNothing DEF p
  <2> HIDE DEF c
  <2>5. Line(a, <<>>, Cat(c, Numbers(DataTasks')), r) = Line(Cat(a, c), <<>>, Numbers(DataTasks'), r)
    BY <1>1, <2>2, <2>3, Handed
  <2> QED BY <1>2, <1>3, <2>1, <2>2, <2>3, <2>4, <2>5 DEF Waiting, r
<1>14. CASE ProcessSDepth
  <2> DEFINE q == Head(dpQueue).pkg
             e == EnhancedDepth(q)
             c == Carry(<<>>, q)
             new == q.syms \ Stored
  <2>1. /\ dpQueue # <<>> /\ dpQueue' = Tail(dpQueue) /\ processing = <<>> /\ q.tid = "SDepthData"
        /\ processing' = <<e>> /\ (fsQueue' = fsQueue \/ fsQueue' = Append(fsQueue, Announcement(new)))
        /\ UNCHANGED <<clock, drQueue>>
    BY <1>14 DEF ProcessSDepth, NextTaskIs, Announce, ToDeliver
  <2>2. q \in Package /\ d = Cat(c, Numbers(DataTasks')) /\ Numbers(DataTasks') \in Seq(Nat)
    BY <1>11, <2>1
  <2>3. q.syms \in SUBSET Symbols /\ q.n \in 0..MaxUpdates
    <3> HIDE DEF q
    <3> QED BY <2>2 DEF Package
  <2> HIDE DEF q
  <2>4. new \in SUBSET Symbols
    BY <2>3
  <2> HIDE DEF new
  <2>5. Announcement(new) \in Package /\ ~Carries(Announcement(new))
    <3>1. 0 \in 0..MaxUpdates
      BY BoundsAssumption
    <3> QED BY <1>5, <2>4, <3>1 DEF Announcement, Tids, Pkg, Carries
  <2>6. Numbers(fsQueue') = a
    <3>1. Cat(a, <<>>) = a
      BY <1>1, Nothing
    <3> QED BY <1>1, <2>1, <2>5, <3>1, Moved, Alone DEF a
  <2>7. c \in Seq(Nat)
    BY <2>2, Alone
  <2>8. p = <<>> /\ Numbers(processing') = c
    <3>1. e \in Package /\ e.n = q.n /\ Carries(e)
      BY <1>5, <2>3 DEF EnhancedDepth, Tids, Pkg, Carries
    <3>2. c = Carry(<<>>, e)
      BY <2>1, <3>1 DEF Carry, Carries
    <3> HIDE DEF e, c
    <3>3. <<e>> = Append(<<>>, e) /\ <<>> \in Seq(Package)
      OBVIOUS
    <3>4. Numbers(<<e>>) = Cat(Numbers(<<>>), Carry(<<>>, e))
      BY <3>1, <3>3, Moved
    <3>5. Cat(<<>>, c) = c
      BY <2>7, Nothing
    <3> QED BY <2>1, <3>2, <3>4, <3>5, NumbersNothing DEF p
  <2> HIDE DEF c, e
  <2>9. Line(a, <<>>, Cat(c, Numbers(DataTasks')), r) = Line(a, c, Numbers(DataTasks'), r)
    BY <1>1, <2>2, <2>7, Handed
  <2> QED BY <1>2, <1>3, <2>1, <2>2, <2>6, <2>8, <2>9 DEF Waiting, r
<1>15. CASE DeliverDepth
  <2> DEFINE q == Head(processing)
             c == Carry(<<>>, q)
  <2>1. /\ processing # <<>> /\ processing' = Tail(processing) /\ fsQueue' = Append(fsQueue, q)
        /\ UNCHANGED <<clock, dpQueue, drQueue>>
    BY <1>15 DEF DeliverDepth
  <2>2. q \in Package /\ p = Cat(c, Numbers(processing')) /\ Numbers(processing') \in Seq(Nat)
    BY <1>1, <2>1, Moved DEF p
  <2> HIDE DEF q
  <2>3. Numbers(fsQueue') = Cat(a, c) /\ c \in Seq(Nat)
    BY <1>1, <2>1, <2>2, Moved, Alone DEF a
  <2>4. DataTasks' = DataTasks
    BY <1>1, <2>1, DataTasksAre
  <2> HIDE DEF c
  <2>5. Line(a, Cat(c, Numbers(processing')), d, r) = Line(Cat(a, c), Numbers(processing'), d, r)
    BY <1>1, <2>2, <2>3, Handed
  <2> QED BY <1>2, <1>3, <2>1, <2>2, <2>3, <2>4, <2>5 DEF Waiting, d, r
<1>16. CASE Launch
  <2>1. UNCHANGED <<clock, drQueue, dpQueue, processing, fsQueue>>
    BY <1>16 DEF Launch, LaunchReceive, LaunchProcess, LaunchFront
  <2>2. DataTasks' = DataTasks
    BY <1>1, <2>1, DataTasksAre
  <2> QED BY <1>2, <1>3, <2>1, <2>2 DEF Waiting, a, p, d, r
<1>17. ASSUME NEW s \in Symbols, OnKline(s)
       PROVE  Waiting
  <2> DEFINE q == Pkg("KlineData", {s}, 0)
  <2>1. q \in Package /\ ~Carries(q)
    <3>1. {s} \in SUBSET Symbols /\ 0 \in 0..MaxUpdates
      BY BoundsAssumption
    <3> QED BY <1>5, <3>1 DEF Tids, Pkg, Carries
  <2>2. drQueue' = Append(drQueue, q) /\ UNCHANGED <<dpQueue, processing, fsQueue, clock>>
    BY <1>17 DEF OnKline
  <2> HIDE DEF q
  <2> QED BY <1>7, <2>1, <2>2
<1>18. CASE TestMain
  <2> DEFINE t == Response(Pkg("RtnDepth", {}, 0))
  <2>1. t \in Task /\ ~Carries(t.pkg)
    <3>1. Pkg("RtnDepth", {}, 0) \in Package
      BY <1>5, BoundsAssumption DEF Tids
    <3> QED BY <3>1 DEF Response, Task, Pkg, Carries
  <2>2. dpQueue' = Append(dpQueue, t) /\ UNCHANGED <<drQueue, processing, fsQueue, clock>>
    BY <1>18 DEF TestMain
  <2> HIDE DEF t
  <2> QED BY <1>8, <2>1, <2>2
<1>19. CASE RequestAllSymbol
  <2>1. SymbolRequest \in Task /\ ~Carries(SymbolRequest.pkg)
    <3>1. Pkg("SymbolData", {}, 0) \in Package
      BY <1>5, BoundsAssumption DEF Tids
    <3> QED BY <3>1 DEF SymbolRequest, Task, Pkg, Carries
  <2>2. dpQueue' = Append(dpQueue, SymbolRequest) /\ UNCHANGED <<drQueue, processing, fsQueue, clock>>
    BY <1>19 DEF RequestAllSymbol
  <2> QED BY <1>8, <2>1, <2>2
<1> QED
  BY <1>6, <1>9, <1>10, <1>12, <1>13, <1>14, <1>15, <1>16, <1>17, <1>18, <1>19
  DEF StationStep, Environment, DataReceiveStep, DataProcessStep

\* What is broadcast comes out behind what came out before.
LEMMA Broadcasts ==
  ASSUME TypeOK
  PROVE  \A q \in Package : published' = Append(published, q) => Emitted' = Cat(Emitted, Carry(<<>>, q))
<1>1. published \in Seq(Package)
  BY DEF TypeOK, FrontTypeOK
<1> SUFFICES ASSUME NEW q \in Package, published' = Append(published, q)
             PROVE  Emitted' = Cat(Emitted, Carry(<<>>, q))
  OBVIOUS
<1> QED BY <1>1, Moved DEF Emitted

\* The front server and the peers: a depth message that is broadcast leaves
\* the backlog at its front, and nothing else changes anything.
LEMMA FrontMoves ==
  ASSUME RelayInv, FrontStep \/ LoopStep \/ Peers \/ UNCHANGED vars
  PROVE  Emitting \/ Waiting
<1> DEFINE a == Numbers(fsQueue)
           p == Numbers(processing)
           d == Numbers(DataTasks)
           r == Numbers(drQueue)
<1>1. /\ TypeOK /\ StationsTypeOK /\ fsQueue \in Seq(Package) /\ front.msg \in Package
      /\ a \in Seq(Nat) /\ p \in Seq(Nat) /\ d \in Seq(Nat) /\ r \in Seq(Nat)
      /\ Backlog \in Seq(Nat) /\ Emitted \in Seq(Nat)
  BY RelayTypes DEF RelayInv, IndexInv, TypeOK, StationsTypeOK, FrontTypeOK, FrontState
<1>2. /\ Backlog = Line(a, p, d, r)
      /\ Backlog' = Line(Numbers(fsQueue'), Numbers(processing'), Numbers(DataTasks'), Numbers(drQueue'))
  BY DEF Backlog
<1> HIDE DEF a, p, d, r
<1>3. ASSUME UNCHANGED <<drQueue, dpQueue, processing>>
      PROVE  Backlog' = Line(Numbers(fsQueue'), p, d, r)
  <2>1. DataTasks' = DataTasks
    BY <1>1, <1>3, DataTasksAre
  <2> QED BY <1>2, <1>3, <2>1 DEF p, d, r
<1>4. ASSUME UNCHANGED <<clock, drQueue, dpQueue, processing, fsQueue, published>>
      PROVE  Waiting
  <2>1. Emitted' = Emitted
    BY <1>4 DEF Emitted
  <2>2. Backlog' = Line(a, p, d, r)
    BY <1>3, <1>4 DEF a
  <2> QED BY <1>2, <1>4, <2>1, <2>2 DEF Waiting
<1>5. ASSUME fsQueue # <<>>, fsQueue' = Tail(fsQueue)
      PROVE  /\ Head(fsQueue) \in Package
             /\ a = Cat(Carry(<<>>, Head(fsQueue)), Numbers(fsQueue')) /\ Numbers(fsQueue') \in Seq(Nat)
  BY <1>1, <1>5, Moved DEF a
<1>6. CASE StartMerge
  <2>1. /\ fsQueue # <<>> /\ fsQueue' = Tail(fsQueue) /\ Head(fsQueue).tid = "SymbolData"
        /\ UNCHANGED <<clock, drQueue, dpQueue, processing, published>>
    BY <1>6 DEF StartMerge
  <2>2. Carry(<<>>, Head(fsQueue)) = <<>>
    BY <2>1 DEF Carry, Carries
  <2>3. Numbers(fsQueue') = a
    BY <1>5, <2>1, <2>2, Nothing
  <2>4. Emitted' = Emitted
    BY <2>1 DEF Emitted
  <2>5. Backlog' = Line(a, p, d, r)
    BY <1>3, <2>1, <2>3
  <2> QED BY <1>2, <2>1, <2>4, <2>5 DEF Waiting
<1>7. CASE FinishMerge
  <2> DEFINE q == LeftBehind(front.msg)
  <2>1. /\ published' = Append(published, q) /\ front.at = "merge"
        /\ UNCHANGED <<clock, drQueue, dpQueue, processing, fsQueue>>
    BY <1>7 DEF FinishMerge, Broadcast, stationVars
  <2>2. q \in Package /\ ~Carries(q)
    <3>1. ~Carries(front.msg)
      BY <2>1 DEF RelayInv
    <3> QED BY <1>1, <3>1 DEF LeftBehind, Pkg, Package, Carries
  <2> HIDE DEF q
  <2>3. Carry(<<>>, q) = <<>>
    BY <2>2 DEF Carry
  <2>4. Emitted' = Emitted
    BY <1>1, <2>1, <2>2, <2>3, Broadcasts, Nothing
  <2>5. Backlog' = Line(a, p, d, r)
    BY <1>3, <2>1 DEF a
  <2> QED BY <1>2, <2>1, <2>4, <2>5 DEF Waiting
<1>8. CASE StartBroadcast
  <2> DEFINE q == Head(fsQueue)
             c == Carry(<<>>, q)
             b == Numbers(fsQueue')
  <2>1. /\ fsQueue # <<>> /\ fsQueue' = Tail(fsQueue) /\ published' = Append(published, q)
        /\ UNCHANGED <<clock, drQueue, dpQueue, processing>>
    BY <1>8 DEF StartBroadcast, Broadcast
  <2>2. q \in Package /\ a = Cat(c, b) /\ b \in Seq(Nat)
    BY <1>5, <2>1
  <2> HIDE DEF q
  <2>3. /\ c = IF Carries(q) THEN <<q.n>> ELSE <<>>
        /\ c \in Seq(Nat) /\ q.n \in Nat
    BY <2>2, Alone
  <2>4. Emitted' = Cat(Emitted, c)
    BY <1>1, <2>1, <2>2, Broadcasts
  <2>5. Backlog' = Line(b, p, d, r)
    BY <1>3, <2>1
  <2> HIDE DEF c, b
  <2>6. Line(Cat(c, b), p, d, r) = Cat(c, Line(b, p, d, r))
    <3>1. b \in Seq(Nat) /\ c \in Seq(Nat) /\ p \in Seq(Nat) /\ d \in Seq(Nat) /\ r \in Seq(Nat)
      BY <1>1, <2>2, <2>3
    <3> QED BY <3>1, Handed
  <2>7. Backlog = Cat(c, Backlog')
    BY <1>2, <2>2, <2>5, <2>6
  <2>8. CASE Carries(q)
    <3>1. c = <<q.n>>
      BY <2>3, <2>8
    <3>2. Cat(Emitted, <<q.n>>) = Append(Emitted, q.n)
      BY <1>1, <2>3 DEF Cat
    <3>3. Backlog = Cat(<<q.n>>, Backlog') /\ Emitted' = Append(Emitted, q.n)
      BY <2>4, <2>7, <3>1, <3>2
    <3> QED BY <2>1, <2>3, <3>3 DEF Emitting
  <2>9. CASE ~Carries(q)
    <3>1. c = <<>>
      BY <2>3, <2>9
    <3>2. Backlog' = Line(a, p, d, r)
      BY <1>1, <2>2, <2>5, <3>1, Nothing
    <3>3. Emitted' = Emitted
      BY <1>1, <2>4, <3>1, Nothing
    <3> QED BY <1>2, <2>1, <3>2, <3>3 DEF Waiting
  <2> QED BY <2>8, <2>9
<1>9. CASE Walk \/ Send \/ EndBroadcast
  BY <1>4, <1>9 DEF Walk, Send, EndBroadcast, stationVars
<1>10. CASE LoopStep
  BY <1>4, <1>10 DEF LoopStep, ReadSymbols, Greet, stationVars
<1>11. CASE Peers
  <2> SUFFICES ASSUME NEW c \in Conns, OnOpen(c) \/ OnClose(c) \/ Congest(c) \/ Relieve(c)
               PROVE  UNCHANGED <<clock, drQueue, dpQueue, processing, fsQueue, published>>
    BY <1>4, <1>11 DEF Peers
  <2> QED BY DEF OnOpen, OnClose, Congest, Relieve, stationVars
<1>12. CASE UNCHANGED vars
  BY <1>4, <1>12 DEF vars, stationVars, frontVars
<1> QED BY <1>6, <1>7, <1>8, <1>9, <1>10, <1>11, <1>12 DEF FrontStep

\* Requests carry nothing, and what is merged carries nothing.
LEMMA CarriersStep ==
  ASSUME RelayInv, [Next]_vars
  PROVE  /\ \A i \in DOMAIN dpQueue' : dpQueue'[i].call = "request" => ~Carries(dpQueue'[i].pkg)
         /\ front'.at = "merge" => ~Carries(front'.msg)
<1> DEFINE Silent(t) == t.call = "request" => ~Carries(t.pkg)
<1>1. /\ dpQueue \in Seq(Task) /\ front \in FrontState
      /\ \A i \in DOMAIN dpQueue : Silent(dpQueue[i])
      /\ front.at = "merge" => ~Carries(front.msg)
  BY DEF RelayInv, IndexInv, TypeOK, StationsTypeOK, FrontTypeOK
<1>2. \/ dpQueue' = dpQueue
      \/ dpQueue # <<>> /\ dpQueue' = Tail(dpQueue)
      \/ \E pkg : dpQueue' = Append(dpQueue, Response(pkg))
      \/ dpQueue' = Append(dpQueue, SymbolRequest)
  BY DEF Next, vars, stationVars, StationStep, Launch, LaunchReceive, LaunchProcess, LaunchFront, Environment,
         OnDepth, OnKline, TestMain, RequestAllSymbol, DataReceiveStep, HandleDepthData, HandleKlineData,
         DataProcessStep, HandleRequest, PassOn, ProcessSDepth, NextTaskIs, DeliverDepth,
         FrontStep, StartMerge, FinishMerge, StartBroadcast, Walk, Send, EndBroadcast,
         LoopStep, ReadSymbols, Greet, Peers, OnOpen, OnClose, Congest, Relieve, Rest
<1>3. (\A pkg : Silent(Response(pkg))) /\ Silent(SymbolRequest)
  BY DEF Response, SymbolRequest, Pkg, Carries
<1> HIDE DEF Silent
<1>4. \A i \in DOMAIN dpQueue' : Silent(dpQueue'[i])
  <2>1. CASE dpQueue' = dpQueue
    BY <1>1, <2>1
  <2>2. CASE dpQueue # <<>> /\ dpQueue' = Tail(dpQueue)
    <3>1. \A i \in DOMAIN dpQueue' : i + 1 \in DOMAIN dpQueue /\ dpQueue'[i] = dpQueue[i + 1]
      BY <1>1, <2>2
    <3> QED BY <1>1, <3>1
  <2>3. ASSUME NEW t, Silent(t), dpQueue' = Append(dpQueue, t)
        PROVE  \A i \in DOMAIN dpQueue' : Silent(dpQueue'[i])
    <3>1. \A i \in DOMAIN dpQueue' : (i \in DOMAIN dpQueue /\ dpQueue'[i] = dpQueue[i]) \/ dpQueue'[i] = t
      BY <1>1, <2>3
    <3> QED BY <1>1, <2>3, <3>1
  <2> QED BY <1>2, <1>3, <2>1, <2>2, <2>3
<1>5. front'.at = "merge" => ~Carries(front'.msg)
  <2>1. CASE StartMerge
    BY <2>1 DEF StartMerge, FrontIdle, Carries
  <2>2. CASE FinishMerge \/ StartBroadcast
    BY <2>2 DEF FinishMerge, StartBroadcast, Broadcast
  <2>3. CASE Walk \/ Send \/ EndBroadcast
    <3>1. CASE Walk
      BY <1>1, <3>1 DEF Walk, FrontState
    <3>2. CASE Send
      BY <1>1, <3>2 DEF Send, FrontState
    <3>3. CASE EndBroadcast
      BY <3>3 DEF EndBroadcast, FrontIdle
    <3> QED BY <2>3, <3>1, <3>2, <3>3
  <2>4. CASE front' = front
    BY <1>1, <2>4
  <2>5. CASE Peers
    <3>1. front'.at = front.at /\ front'.msg = front.msg
      BY <1>1, <2>5 DEF Peers, OnOpen, OnClose, Congest, Relieve, DisturbWalk, FrontState
    <3> QED BY <1>1, <3>1
  <2> QED BY <2>1, <2>2, <2>3, <2>4, <2>5
          DEF Next, FrontStep, frontVars, LoopStep, ReadSymbols, Greet, Rest, vars
<1> QED BY <1>4, <1>5 DEF Silent

\* Every step accepts an update, emits one or does neither.
LEMMA RelayStep ==
  ASSUME RelayInv, [Next]_vars
  PROVE  Accepting \/ Emitting \/ Waiting
<1>1. CASE StationStep /\ UNCHANGED frontVars
  BY <1>1, StationsMove
<1>2. CASE FrontStep \/ LoopStep \/ Peers \/ UNCHANGED vars
  BY <1>2, FrontMoves
<1> QED BY <1>1, <1>2 DEF Next, Rest

\* So they are after a step.
LEMMA RelayTypesNext ==
  ASSUME TypeOK'
  PROVE  Backlog' \in Seq(Nat) /\ Emitted' \in Seq(Nat)
<1>1. /\ fsQueue' \in Seq(Package) /\ processing' \in Seq(Package) /\ drQueue' \in Seq(Package)
      /\ published' \in Seq(Package) /\ dpQueue' \in Seq(Task)
  BY DEF TypeOK, StationsTypeOK, FrontTypeOK
<1>2. DataTasks' \in Seq(Package)
  <2>1. \A t \in Task : t.pkg \in Package
    BY DEF Task
  <2>2. DataTasks' = [i \in 1..Len(dpQueue') |-> dpQueue'[i].pkg]
        /\ Len(dpQueue') \in Nat /\ \A i \in 1..Len(dpQueue') : dpQueue'[i] \in Task
    BY <1>1 DEF DataTasks
  <2> QED BY <2>1, <2>2
<1>3. /\ Numbers(fsQueue') \in Seq(Nat) /\ Numbers(processing') \in Seq(Nat)
      /\ Numbers(DataTasks') \in Seq(Nat) /\ Numbers(drQueue') \in Seq(Nat)
      /\ Numbers(published') \in Seq(Nat)
  BY <1>1, <1>2, NumbersType
<1>4. Backlog' = Line(Numbers(fsQueue'), Numbers(processing'), Numbers(DataTasks'), Numbers(drQueue'))
      /\ Emitted' = Numbers(published')
  BY DEF Backlog, Emitted
<1> QED BY <1>3, <1>4, CatType DEF Line

\* RelayInv holds at the start and no step breaks it.
LEMMA RelayInvInit ==
  ASSUME Init
  PROVE  RelayInv /\ Backlog = <<>> /\ Emitted = <<>>
<1>1. IndexInv
  BY IndexInvInit
<1>2. dpQueue = <<>> /\ front.at = "idle" /\ clock = 0 /\ fsQueue = <<>> /\ processing = <<>> /\ drQueue = <<>>
      /\ published = <<>>
  BY DEF Init, StationsInit, FrontIdle
<1>3. DataTasks = <<>>
  BY <1>2 DEF DataTasks
<1>4. Cat(<<>>, <<>>) = <<>>
  <2>1. <<>> \in Seq(Nat)
    OBVIOUS
  <2> QED BY <2>1, Nothing
<1>5. Backlog = <<>> /\ Emitted = <<>>
  BY <1>2, <1>3, <1>4, NumbersNothing DEF Backlog, Emitted, Line
<1>6. Len(Backlog) + Len(Emitted) = clock
  BY <1>2, <1>5
<1>7. \A i \in DOMAIN dpQueue : dpQueue[i].call = "request" => ~Carries(dpQueue[i].pkg)
  BY <1>2
<1> QED BY <1>1, <1>2, <1>5, <1>6, <1>7 DEF RelayInv

\* See above.
LEMMA RelayInvStep ==
  ASSUME RelayInv, [Next]_vars
  PROVE  RelayInv'
<1>1. IndexInv'
  BY IndexInvStep DEF RelayInv
<1>2. /\ \A i \in DOMAIN dpQueue' : dpQueue'[i].call = "request" => ~Carries(dpQueue'[i].pkg)
      /\ front'.at = "merge" => ~Carries(front'.msg)
  BY CarriersStep
<1>3. Len(Backlog') + Len(Emitted') = clock'
  <2> DEFINE b == Backlog
             e == Emitted
             c == Backlog'
             f == Emitted'
  <2>1. b \in Seq(Nat) /\ e \in Seq(Nat) /\ Len(b) + Len(e) = clock /\ clock \in Nat
    BY RelayTypes, BoundsAssumption DEF RelayInv, IndexInv, TypeOK, StationsTypeOK
  <2>2. c \in Seq(Nat) /\ f \in Seq(Nat)
    BY <1>1, RelayTypesNext DEF IndexInv
  <2>3. \/ clock' = clock + 1 /\ c = Append(b, clock + 1) /\ f = e
        \/ \E n \in Nat : b = <<n>> \o c /\ f = Append(e, n) /\ clock' = clock
        \/ c = b /\ f = e /\ clock' = clock
    BY RelayStep DEF Accepting, Emitting, Waiting, Cat
  <2> HIDE DEF b, c, e, f
  <2>4. Len(c) + Len(f) = clock'
    <3>1. CASE clock' = clock + 1 /\ c = Append(b, clock + 1) /\ f = e
      BY <2>1, <3>1
    <3>2. ASSUME NEW n \in Nat, b = <<n>> \o c, f = Append(e, n), clock' = clock
          PROVE  Len(c) + Len(f) = clock'
      <4>1. Len(b) = 1 + Len(c) /\ Len(f) = Len(e) + 1 /\ Len(c) \in Nat /\ Len(e) \in Nat
        BY <2>1, <2>2, <3>2
      <4> QED BY <2>1, <3>2, <4>1
    <3>3. CASE c = b /\ f = e /\ clock' = clock
      BY <2>1, <3>3
    <3> QED BY <2>3, <3>1, <3>2, <3>3
  <2> QED BY <2>4 DEF c, f
<1> QED BY <1>1, <1>2, <1>3 DEF RelayInv

\* What Relay's variables stand for.
LEMMA RelayBacklog ==
  /\ Numbers(fsQueue) \o Numbers(processing) \o Numbers(DataTasks) \o Numbers(drQueue) = Backlog
  /\ Numbers(fsQueue') \o Numbers(processing') \o Numbers(DataTasks') \o Numbers(drQueue') = Backlog'
  /\ Numbers(published) = Emitted /\ Numbers(published') = Emitted'
BY DEF Backlog, Line, Cat, Emitted

\* Every step of the pipeline is a step of the relay or leaves it as it is.
LEMMA RelayNext ==
  ASSUME RelayInv, [Next]_vars
  PROVE  [relay!Next]_(relay!rvars)
<1> DEFINE b == Backlog
           e == Emitted
           c == Backlog'
           f == Emitted'
<1>1. b \in Seq(Nat) /\ e \in Seq(Nat) /\ Len(b) + Len(e) = clock /\ clock \in Nat
  BY RelayTypes, BoundsAssumption DEF RelayInv, IndexInv, TypeOK, StationsTypeOK
<1>2. c \in Seq(Nat)
  <2>1. TypeOK'
    BY RelayInvStep DEF RelayInv, IndexInv
  <2> QED BY <2>1, RelayTypesNext
<1>3. \/ clock < MaxUpdates /\ c = Append(b, clock + 1) /\ f = e
      \/ \E n \in Nat : b = <<n>> \o c /\ f = Append(e, n)
      \/ c = b /\ f = e
  BY RelayStep DEF Accepting, Emitting, Waiting, Cat
<1> HIDE DEF b, c, e, f
<1>4. \/ Len(b) + Len(e) < MaxUpdates /\ c = Append(b, Len(b) + Len(e) + 1) /\ f = e
      \/ b # <<>> /\ f = Append(e, Head(b)) /\ c = Tail(b)
      \/ c = b /\ f = e
  <2>1. ASSUME NEW n \in Nat, b = <<n>> \o c
        PROVE  b # <<>> /\ Head(b) = n /\ c = Tail(b)
    <3>1. Len(b) = Len(c) + 1 /\ b[1] = n /\ \A i \in 1..Len(c) : b[i + 1] = c[i]
      BY <1>2, <2>1
    <3>2. b # <<>> /\ Head(b) = n
      BY <1>1, <1>2, <3>1
    <3> DEFINE t == Tail(b)
    <3>3. t \in Seq(Nat) /\ Len(t) = Len(c) /\ \A i \in 1..Len(c) : t[i] = c[i]
      BY <1>1, <1>2, <3>1, <3>2
    <3> HIDE DEF t
    <3>4. c = t
      BY <1>2, <3>3
    <3> QED BY <3>2, <3>4 DEF t
  <2> QED BY <1>1, <1>3, <2>1
<1> QED BY <1>4, RelayBacklog DEF b, c, e, f, relay!Next, relay!Accept, relay!Accepted, relay!Emit, relay!rvars

\* The pipeline relays the updates: each comes out exactly once, in the order
\* in which the hub pushed them, whatever the threads do.
THEOREM RelayCorrect == Spec => relay!Init /\ [][relay!Next]_(relay!rvars)
<1>1. Init => RelayInv /\ relay!Init
  BY RelayInvInit, RelayBacklog DEF relay!Init
<1>2. RelayInv /\ [Next]_vars => RelayInv'
  BY RelayInvStep
<1>3. RelayInv /\ [Next]_vars => [relay!Next]_(relay!rvars)
  BY RelayNext
<1> QED BY <1>1, <1>2, <1>3, PTL DEF Spec
=============================================================================
