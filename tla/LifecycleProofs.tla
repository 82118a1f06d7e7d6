-------------------------- MODULE LifecycleProofs --------------------------
(***************************************************************************)
(* Proofs about the process and the loop of its websocket server: types,   *)
(* the exchange of the deferred callbacks, which is a first-in first-out   *)
(* relay, what keeps clients from bringing the process down, and that      *)
(* ports that were not read are reported.                                  *)
(***************************************************************************)
EXTENDS Lifecycle, TLAPS

(***************************************************************************)
(* The loop.                                                               *)
(***************************************************************************)

\* What the exchange of the queues keeps.  NoWakeupLost alone is not
\* inductive: that nothing is left in the queue that is neither walked nor
\* appended to is what makes the exchange safe.
LoopInv == LoopTypeOK /\ DrainedAlone /\ NoWakeupLost

\* The steps of the loop and of those who defer.
LoopMoves == \/ \E t \in Deferrers : Defer(t) \/ WakeUp(t)
             \/ Swap \/ RunCallback \/ Clear

(* The loop starts with empty queues.                                      *)
LEMMA LoopStarts == LoopInit => LoopInv
  BY DEF LoopInit, LoopInv, LoopTypeOK, DrainedAlone, NoWakeupLost, NoQueue

(* Sequences are equal when their elements are.                            *)
LEMMA SeqEqual ==
    ASSUME NEW S, NEW s \in Seq(S), NEW t \in Seq(S), Len(s) = Len(t),
           \A i \in 1..Len(s) : s[i] = t[i]
    PROVE  s = t
  OBVIOUS

(* What is still to run has the type of the queue it is part of, and is    *)
(* there exactly when fewer callbacks than the queue holds were called.    *)
LEMMA UndrainedFacts ==
    ASSUME LoopTypeOK, DrainedAlone
    PROVE  /\ Undrained \in Seq(Nat)
           /\ draining = NoQueue => Undrained = <<>>
           /\ draining # NoQueue => /\ Len(Undrained) = Len(queues[draining]) - done
                                    /\ \A i \in 1..Len(Undrained) : Undrained[i] = queues[draining][done + i]
  <1>1. CASE draining = NoQueue
    BY <1>1 DEF Undrained
  <1>2. CASE draining # NoQueue
    <2> DEFINE q == queues[draining]
    <2>1. q \in Seq(Nat) /\ done \in Nat /\ done <= Len(q)
      BY <1>2 DEF LoopTypeOK, DrainedAlone, NoQueue
    <2>2. Undrained = SubSeq(q, done + 1, Len(q))
      BY <1>2 DEF Undrained
    <2> HIDE DEF q
    <2>3. Undrained \in Seq(Nat) /\ Len(Undrained) = Len(q) - done
      BY <2>1, <2>2
    <2>4. \A i \in 1..Len(Undrained) : Undrained[i] = q[done + i]
      BY <2>1, <2>2, <2>3
    <2> QED
      BY <1>2, <2>3, <2>4 DEF q
  <1> QED
    BY <1>1, <1>2

(* deferring appends to the queue that is not walked, and someone is going *)
(* to wake the loop.                                                       *)
LEMMA DeferKeeps ==
    ASSUME LoopInv, NEW t \in Deferrers, Defer(t)
    PROVE  LoopInv'
  <1>1. Deferred \in Nat
    <2>1. Pending \in Seq(Nat)
      BY UndrainedFacts DEF LoopInv, LoopTypeOK, Pending
    <2> QED
      BY <2>1 DEF Deferred, LoopInv, LoopTypeOK
  <1>2. Append(queues[current], Deferred + 1) \in Seq(Nat)
    BY <1>1 DEF LoopInv, LoopTypeOK
  <1>3. LoopTypeOK'
    BY <1>2 DEF LoopInv, LoopTypeOK, Defer
  <1>4. \A q \in 0..1 : q # current => queues'[q] = queues[q]
    BY DEF LoopInv, LoopTypeOK, Defer
  <1>5. DrainedAlone'
    BY <1>4 DEF LoopInv, LoopTypeOK, DrainedAlone, Defer, NoQueue
  <1>6. NoWakeupLost'
    BY DEF Defer, NoWakeupLost
  <1> QED
    BY <1>3, <1>5, <1>6 DEF LoopInv

(* Waking the loop up touches no queue.                                    *)
LEMMA WakeUpKeeps ==
    ASSUME LoopInv, NEW t \in Deferrers, WakeUp(t)
    PROVE  LoopInv'
  BY DEF LoopInv, LoopTypeOK, DrainedAlone, NoWakeupLost, WakeUp

(* There are two queues: one is the other's successor.                     *)
LEMMA OtherQueue == ASSUME NEW q \in 0..1 PROVE (q + 1) % 2 = 1 - q
  <1>1. q = 0 \/ q = 1
    OBVIOUS
  <1> QED
    BY <1>1

(* After the exchange, callbacks are appended to a queue that is empty.    *)
LEMMA SwapKeeps ==
    ASSUME LoopInv, Swap
    PROVE  LoopInv'
  <1>1. current \in 0..1 /\ queues \in [0..1 -> Seq(Nat)] /\ draining = NoQueue
    BY DEF LoopInv, LoopTypeOK, Swap
  <1>2. current' = 1 - current
    BY <1>1, OtherQueue DEF Swap
  <1>3. queues'[current'] = <<>> /\ current' \in 0..1 /\ current' # current
    BY <1>1, <1>2 DEF LoopInv, DrainedAlone, Swap
  <1>4. queues[current] \in Seq(Nat)
    BY <1>1
  <1>5. 0 <= Len(queues[current])
    BY <1>4
  <1>6. LoopTypeOK'
    <2>1. current \in {0, 1}
      BY <1>1
    <2> QED
      BY <1>1, <1>3, <2>1 DEF LoopInv, LoopTypeOK, Swap
  <1>7. DrainedAlone'
    BY <1>1, <1>3, <1>5 DEF DrainedAlone, Swap, NoQueue
  <1>8. NoWakeupLost'
    BY <1>3 DEF NoWakeupLost
  <1> QED
    BY <1>6, <1>7, <1>8 DEF LoopInv

(* A callback is called only as long as one is left.                       *)
LEMMA RunCallbackKeeps ==
    ASSUME LoopInv, RunCallback
    PROVE  LoopInv'
  <1>1. /\ draining # NoQueue
        /\ Undrained \in Seq(Nat)
        /\ Len(Undrained) = Len(queues[draining]) - done
    BY UndrainedFacts DEF LoopInv, RunCallback
  <1>2. queues[draining] \in Seq(Nat) /\ done \in Nat
    BY <1>1 DEF LoopInv, LoopTypeOK, NoQueue
  <1>3. done + 1 <= Len(queues[draining]) /\ Head(Undrained) \in Nat
    BY <1>1, <1>2 DEF RunCallback
  <1>4. LoopTypeOK'
    BY <1>3 DEF LoopInv, LoopTypeOK, RunCallback
  <1>5. DrainedAlone' /\ NoWakeupLost'
    BY <1>3 DEF LoopInv, DrainedAlone, NoWakeupLost, RunCallback
  <1> QED
    BY <1>4, <1>5 DEF LoopInv

(* Only the queue that was walked is cleared.                              *)
LEMMA ClearKeeps ==
    ASSUME LoopInv, Clear
    PROVE  LoopInv'
  <1>1. draining = 1 - current /\ draining \in 0..1 /\ current \in 0..1
    BY DEF LoopInv, LoopTypeOK, DrainedAlone, Clear, NoQueue
  <1>2. /\ queues'[1 - current] = <<>>
        /\ queues'[current] = queues[current]
        /\ queues' \in [0..1 -> Seq(Nat)]
    BY <1>1 DEF LoopInv, LoopTypeOK, Clear
  <1> QED
    BY <1>1, <1>2 DEF LoopInv, LoopTypeOK, DrainedAlone, NoWakeupLost, Clear, NoQueue

(* No step of the loop or of those who defer breaks what the exchange of   *)
(* the queues rests on.                                                    *)
LEMMA LoopMovesKeep ==
    ASSUME LoopInv, LoopMoves
    PROVE  LoopInv'
  BY DeferKeeps, WakeUpKeeps, SwapKeeps, RunCallbackKeeps, ClearKeeps DEF LoopMoves

(***************************************************************************)
(* The loop as a relay.                                                    *)
(***************************************************************************)

RelayStep == deferRelay!Next \/ UNCHANGED <<Pending, ran>>

(* The queued callbacks are a sequence.                                    *)
LEMMA PendingType == ASSUME LoopInv PROVE Pending \in Seq(Nat)
  BY UndrainedFacts DEF LoopInv, LoopTypeOK, Pending

(* defer is the relay's Accept.                                            *)
LEMMA DeferAccepts ==
    ASSUME LoopInv, NEW t \in Deferrers, Defer(t)
    PROVE  deferRelay!Accept
  <1>1. Undrained \in Seq(Nat) /\ queues[current] \in Seq(Nat) /\ ran \in Seq(Nat)
    BY UndrainedFacts DEF LoopInv, LoopTypeOK
  <1>2. Undrained' = Undrained
    <2>1. draining' = draining /\ done' = done
      BY DEF Defer
    <2>2. draining # NoQueue => queues'[draining] = queues[draining]
      BY DEF LoopInv, LoopTypeOK, DrainedAlone, Defer, NoQueue
    <2> QED
      BY <2>1, <2>2 DEF Undrained
  <1>3. queues'[current'] = Append(queues[current], Deferred + 1)
    BY DEF LoopInv, LoopTypeOK, Defer
  <1>4. Deferred \in Nat /\ Deferred = Len(Pending) + Len(ran)
    BY <1>1, PendingType DEF Deferred
  <1>5. Pending' = Append(Pending, Deferred + 1)
    <2> DEFINE u == Undrained
               q == queues[current]
               d == Deferred + 1
    <2>1. Pending' = u \o Append(q, d) /\ Pending = u \o q
      BY <1>2, <1>3 DEF Pending
    <2>2. u \in Seq(Nat) /\ q \in Seq(Nat) /\ d \in Nat
      BY <1>1, <1>4
    <2> HIDE DEF u, q, d
    <2>3. u \o Append(q, d) = Append(u \o q, d)
      BY <2>2
    <2> QED
      BY <2>1, <2>3 DEF d
  <1> QED
    BY <1>4, <1>5 DEF Defer, deferRelay!Accept, deferRelay!Accepted

(* Exchanging the queues changes nothing that can be seen from outside.    *)
LEMMA SwapStutters ==
    ASSUME LoopInv, Swap
    PROVE  UNCHANGED <<Pending, ran>>
  <1>1. /\ current' = 1 - current /\ draining' = current /\ done' = 0 /\ queues' = queues
        /\ queues[1 - current] = <<>> /\ draining' # NoQueue
    BY OtherQueue DEF LoopInv, LoopTypeOK, DrainedAlone, Swap, NoQueue
  <1> DEFINE q == queues[current]
  <1>2. q \in Seq(Nat)
    BY DEF LoopInv, LoopTypeOK
  <1>3. Undrained = <<>> /\ Undrained' = SubSeq(q, 1, Len(q))
    BY <1>1 DEF Undrained, Swap
  <1>4. Pending = <<>> \o q /\ Pending' = SubSeq(q, 1, Len(q)) \o <<>>
    BY <1>1, <1>3 DEF Pending
  <1> HIDE DEF q
  <1>5. SubSeq(q, 1, Len(q)) = q
    BY <1>2
  <1> QED
    BY <1>2, <1>4, <1>5 DEF Swap

(* Calling a callback is the relay's Emit.                                 *)
LEMMA RunCallbackEmits ==
    ASSUME LoopInv, RunCallback
    PROVE  deferRelay!Emit
  <1> DEFINE u == Undrained
             q == queues[current]
             z == queues[draining]
  <1>1. /\ draining # NoQueue
        /\ u \in Seq(Nat) /\ q \in Seq(Nat)
        /\ u # <<>>
    BY UndrainedFacts DEF LoopInv, LoopTypeOK, RunCallback
  <1>2. z \in Seq(Nat) /\ done \in Nat /\ done <= Len(z)
    BY <1>1 DEF LoopInv, LoopTypeOK, DrainedAlone, NoQueue
  <1>3. u = SubSeq(z, done + 1, Len(z)) /\ Undrained' = SubSeq(z, done + 2, Len(z))
    <2>1. done' = done + 1 /\ done' + 1 = done + 2
      BY <1>2 DEF RunCallback
    <2>2. Undrained' = SubSeq(z, done' + 1, Len(z))
      BY <1>1 DEF Undrained, RunCallback
    <2> QED
      BY <1>1, <2>1, <2>2 DEF Undrained
  <1>4. Pending = u \o q /\ Pending' = Undrained' \o q
    BY DEF Pending, RunCallback
  <1>5. ran' = Append(ran, Head(u))
    BY DEF RunCallback
  <1> HIDE DEF u, q, z
  <1>6. Undrained' = Tail(u)
    <2>1. Len(u) = Len(z) - done /\ Len(u) > 0
      BY <1>1, <1>2, <1>3
    <2>2. /\ Undrained' \in Seq(Nat) /\ Len(Undrained') = Len(z) - done - 1
          /\ \A i \in 1..Len(Undrained') : Undrained'[i] = z[done + 1 + i]
      BY <1>2, <1>3, <2>1
    <2>3. /\ Tail(u) \in Seq(Nat) /\ Len(Tail(u)) = Len(u) - 1
          /\ \A i \in 1..Len(Tail(u)) : Tail(u)[i] = u[i + 1]
      BY <1>1
    <2>4. \A i \in 1..Len(u) : u[i] = z[done + i]
      BY <1>2, <1>3
    <2>5. \A i \in 1..Len(Tail(u)) : Tail(u)[i] = Undrained'[i]
      <3> TAKE i \in 1..Len(Tail(u))
      <3>1. Len(u) \in Nat /\ i \in Nat /\ i + 1 \in 1..Len(u) /\ i \in 1..Len(Undrained')
        BY <1>1, <1>2, <2>1, <2>2, <2>3
      <3>2. Tail(u)[i] = u[i + 1] /\ u[i + 1] = z[done + (i + 1)]
        BY <2>3, <2>4, <3>1
      <3>3. Undrained'[i] = z[done + 1 + i] /\ done + 1 + i = done + (i + 1)
        BY <1>2, <2>2, <3>1
      <3> QED
        BY <3>2, <3>3
    <2> QED
      BY <2>1, <2>2, <2>3, <2>5, SeqEqual
  <1>7. Head(u \o q) = Head(u) /\ Tail(u \o q) = Tail(u) \o q /\ u \o q # <<>>
    BY <1>1
  <1> QED
    BY <1>4, <1>5, <1>6, <1>7 DEF deferRelay!Emit

(* Clearing the queue that was walked changes nothing that can be seen     *)
(* from outside.                                                           *)
LEMMA ClearStutters ==
    ASSUME LoopInv, Clear
    PROVE  UNCHANGED <<Pending, ran>>
  <1>1. queues'[current] = queues[current] /\ current' = current
    BY DEF LoopInv, LoopTypeOK, DrainedAlone, Clear, NoQueue
  <1>2. Undrained = <<>> /\ Undrained' = <<>>
    BY DEF Clear, Undrained
  <1> QED
    BY <1>1, <1>2 DEF Pending, Clear

(* Waking up changes nothing that can be seen from outside.                *)
LEMMA WakeUpStutters ==
    ASSUME NEW t \in Deferrers, WakeUp(t)
    PROVE  UNCHANGED <<Pending, ran>>
  BY DEF WakeUp, Pending, Undrained

(* Every step of the loop is one of the relay, or changes nothing there.   *)
LEMMA LoopMovesRelay ==
    ASSUME LoopInv, LoopMoves
    PROVE  RelayStep
  <1>1. ASSUME NEW t \in Deferrers, Defer(t) PROVE RelayStep
    BY <1>1, DeferAccepts DEF RelayStep, deferRelay!Next
  <1>2. ASSUME NEW t \in Deferrers, WakeUp(t) PROVE RelayStep
    BY <1>2, WakeUpStutters DEF RelayStep
  <1>3. CASE Swap
    BY <1>3, SwapStutters DEF RelayStep
  <1>4. CASE RunCallback
    BY <1>4, RunCallbackEmits DEF RelayStep, deferRelay!Next
  <1>5. CASE Clear
    BY <1>5, ClearStutters DEF RelayStep
  <1> QED
    BY <1>1, <1>2, <1>3, <1>4, <1>5 DEF LoopMoves

(* A loop nobody moves looks the same from outside.                        *)
LEMMA LoopStill == UNCHANGED loopVars => UNCHANGED <<Pending, ran>>
  BY DEF loopVars, Pending, Undrained

(***************************************************************************)
(* The process.                                                            *)
(***************************************************************************)

(* Deferring needs a thread that runs; what the loop sees of the process   *)
(* is one of its own moves, or nothing.                                    *)
LEMMA LoopOfStep == [Next]_vars => LoopMoves \/ UNCHANGED loopVars
  <1>1. Next => LoopMoves \/ UNCHANGED loopVars
    BY DEF Next, LoopMoves
  <1> QED
    BY <1>1 DEF vars

(* The exchange of the deferred callbacks is safe in whatever the process  *)
(* goes through.                                                           *)
LEMMA LoopAlwaysSafe == Spec => []LoopInv
  <1>1. Init => LoopInv
    BY LoopStarts DEF Init
  <1>2. LoopInv /\ [Next]_vars => LoopInv'
    <2>1. LoopInv /\ UNCHANGED loopVars => LoopInv'
      BY DEF LoopInv, loopVars, LoopTypeOK, DrainedAlone, NoWakeupLost
    <2> QED
      BY <2>1, LoopOfStep, LoopMovesKeep
  <1> QED
    BY <1>1, <1>2, PTL DEF Spec

(* The loop never sleeps on a deferred callback: while one is queued it    *)
(* has a wakeup to handle or is about to get one, however defer and        *)
(* wakeupCb interleave (Loop.h), for any threads that defer.               *)
THEOREM NoWakeupLostCorrect == Spec => []NoWakeupLost
  <1>1. LoopInv => NoWakeupLost
    BY DEF LoopInv
  <1> QED
    BY <1>1, LoopAlwaysSafe, PTL

(* wakeupCb never walks the queue that defer appends to, and nothing is    *)
(* left in a queue that is neither walked nor appended to (Loop.h).        *)
THEOREM DrainedAloneCorrect == Spec => []DrainedAlone
  <1>1. LoopInv => DrainedAlone
    BY DEF LoopInv
  <1> QED
    BY <1>1, LoopAlwaysSafe, PTL

(* Seen from outside, defer and the loop are a first-in first-out relay    *)
(* that calls every callback at most once, in the order in which the       *)
(* threads got the mutex: the two queues and their exchange refine it.     *)
THEOREM DeferRelayCorrect == Spec => DeferRelay
  <1>1. Init => deferRelay!Init
    <2> SUFFICES ASSUME Init PROVE deferRelay!Init
      OBVIOUS
    <2>1. queues[current] = <<>> /\ draining = NoQueue /\ ran = <<>>
      BY DEF Init, LoopInit
    <2>2. Pending = <<>> \o <<>>
      BY <2>1 DEF Pending, Undrained
    <2> QED
      BY <2>1, <2>2 DEF deferRelay!Init
  <1>2. LoopInv /\ [Next]_vars => [deferRelay!Next]_(deferRelay!rvars)
    <2>1. RelayStep => [deferRelay!Next]_(deferRelay!rvars)
      BY DEF RelayStep, deferRelay!rvars
    <2>2. UNCHANGED loopVars => [deferRelay!Next]_(deferRelay!rvars)
      BY LoopStill DEF deferRelay!rvars
    <2> QED
      BY <2>1, <2>2, LoopOfStep, LoopMovesRelay
  <1> QED
    BY <1>1, <1>2, LoopAlwaysSafe, PTL DEF Spec, DeferRelay

\* What keeps clients from bringing the process down: the App of the rest
\* server is bound to the loop of main, and main never runs it.
Deaf == /\ app["rest"] \in {"none", "main"}
        /\ loop["main"] # "running"
        /\ SurvivesClients

\* Servers have their ports from a configuration that was loaded, or that
\* somebody heard about.
PortsKnown ==
    /\ PortsReported
    /\ main \in {"signals", "ws_server"} => \A s \in Servers : port[s] = "none"
    /\ main \notin {"signals", "ws_server"} => Servers \subseteq config.ports \/ config.reported

LifeInv == LifeTypeOK /\ Deaf /\ PortsKnown

(* The process starts before anything is constructed.                      *)
LEMMA LifeStarts == LifeInit => LifeInv
  <1> SUFFICES ASSUME LifeInit PROVE LifeInv
    OBVIOUS
  <1>1. LifeTypeOK
    BY DEF LifeInit, LifeTypeOK, Threads, Servers
  <1>2. Deaf
    BY DEF LifeInit, Deaf, SurvivesClients, Threads, Servers
  <1>3. PortsKnown
    BY DEF LifeInit, PortsKnown, PortsReported
  <1> QED
    BY <1>1, <1>2, <1>3 DEF LifeInv

(* Getting the loop of a thread runs no loop.                              *)
LEMMA GotLoopFacts ==
    ASSUME LifeTypeOK, NEW t \in Threads
    PROVE  /\ GotLoop(t) \in [Threads -> {"none", "idle", "running", "freed"}]
           /\ \A x \in Threads : GotLoop(t)[x] = "running" => loop[x] = "running"
  BY DEF LifeTypeOK, GotLoop

(* Whatever the file is like, an entry that was not read was reported.     *)
LEMMA LoadConfigFacts ==
    ASSUME NEW file \in Files
    PROVE  /\ LoadConfig(file) \in [loaded: BOOLEAN, ports: SUBSET Servers, reported: BOOLEAN]
           /\ Servers \subseteq LoadConfig(file).ports \/ LoadConfig(file).reported
  <1> DEFINE read == IF file.hub = "wrong" THEN {} ELSE IF file.ws = "wrong" THEN {} ELSE {"ws", "rest"}
             complete == file.hub = "there" /\ file.ws = "there" /\ file.rest = "there"
             ports == {s \in read : file[s] = "there"}
  <1>1. file \in File
    BY LifecycleAssumption
  <1>2. ports \subseteq Servers
    BY DEF Servers
  <1>3. complete => read = Servers /\ \A s \in Servers : file[s] = "there"
    BY DEF Servers
  <1>4. complete => Servers \subseteq ports
    BY <1>3
  <1>5. CASE ~file.opens \/ ~file.parses
    <2>1. LoadConfig(file) = [loaded |-> TRUE, ports |-> {}, reported |-> TRUE]
      BY <1>5 DEF LoadConfig
    <2> QED
      BY <2>1
  <1>6. CASE ~(~file.opens \/ ~file.parses)
    <2>1. LoadConfig(file) = [loaded |-> TRUE, ports |-> ports, reported |-> ~complete]
      BY <1>6 DEF LoadConfig
    <2>2. (~complete) \in BOOLEAN
      OBVIOUS
    <2> HIDE DEF ports, complete
    <2>3. LoadConfig(file) \in [loaded: BOOLEAN, ports: SUBSET Servers, reported: BOOLEAN]
      BY <1>2, <2>1, <2>2
    <2>4. CASE complete
      BY <1>4, <2>1, <2>3, <2>4
    <2>5. CASE ~complete
      <3>1. LoadConfig(file).reported = ~complete
        BY <2>1
      <3> QED
        BY <2>3, <2>5, <3>1
    <2> QED
      BY <2>3, <2>4, <2>5
  <1> QED
    BY <1>5, <1>6

(* The steps of main.                                                      *)
LEMMA MainKeeps ==
    ASSUME LifeInv, MainStep
    PROVE  LifeInv'
  <1> USE DEF LifeInv, LifeTypeOK, Deaf, SurvivesClients, PortsKnown, PortsReported, MainAt
  <1>1. CASE SetupSignals
    BY <1>1 DEF SetupSignals
  <1>2. CASE NewWBServer
    <2>1. PICK file \in Files : config' = LoadConfig(file)
      BY <1>2 DEF NewWBServer
    <2>2. /\ config' \in [loaded: BOOLEAN, ports: SUBSET Servers, reported: BOOLEAN]
          /\ Servers \subseteq config'.ports \/ config'.reported
      BY <2>1, LoadConfigFacts
    <2>3. /\ loop' \in [Threads -> {"none", "idle", "running", "freed"}]
          /\ loop'["main"] # "running"
      BY <1>2, GotLoopFacts DEF NewWBServer, Threads
    <2>4. port' = [port EXCEPT !["ws"] = IF "ws" \in config'.ports THEN "read" ELSE "uninitialised"]
      BY <1>2 DEF NewWBServer, PortOf
    <2>5. /\ port' \in [Servers -> {"none", "read", "uninitialised"}]
          /\ port'["ws"] = "uninitialised" => "ws" \notin config'.ports
          /\ port'["rest"] = "none"
      BY <1>2, <2>4 DEF NewWBServer, Servers
    <2>6. (\E s \in Servers : port'[s] = "uninitialised") => config'.reported
      BY <2>2, <2>5 DEF Servers
    <2> QED
      BY <1>2, <2>2, <2>3, <2>5, <2>6 DEF NewWBServer
  <1>3. CASE NewRestServer
    <2>1. /\ loop' \in [Threads -> {"none", "idle", "running", "freed"}]
          /\ loop'["main"] # "running"
      BY <1>3, GotLoopFacts DEF NewRestServer, Threads
    <2>2. port' = [port EXCEPT !["rest"] = IF "rest" \in config.ports THEN "read" ELSE "uninitialised"]
      BY <1>3 DEF NewRestServer
    <2>3. /\ port' \in [Servers -> {"none", "read", "uninitialised"}]
          /\ port'["ws"] = port["ws"]
          /\ port'["rest"] = "uninitialised" => "rest" \notin config.ports
      BY <2>2 DEF Servers
    <2>4. Servers \subseteq config.ports \/ config.reported
      BY <1>3 DEF NewRestServer
    <2>5. (\E s \in Servers : port'[s] = "uninitialised") => config.reported
      BY <2>3, <2>4 DEF Servers
    <2>6. app' \in [Servers -> Threads \cup {"none"}] /\ app'["rest"] = "main"
      BY <1>3 DEF NewRestServer, Servers, Threads
    <2> QED
      BY <1>3, <2>1, <2>3, <2>4, <2>5, <2>6 DEF NewRestServer
  <1>4. CASE LaunchStations
    BY <1>4 DEF LaunchStations, Threads
  <1>5. CASE SetFrontServer
    BY <1>5 DEF SetFrontServer
  <1>6. CASE LaunchWs
    BY <1>6 DEF LaunchWs, Threads
  <1>7. CASE LaunchRest
    BY <1>7 DEF LaunchRest, Threads
  <1> QED
    BY <1>1, <1>2, <1>3, <1>4, <1>5, <1>6, <1>7 DEF MainStep

(* The thread of the websocket server makes its App.                       *)
LEMMA WsAppKeeps ==
    ASSUME LifeInv, WsApp
    PROVE  LifeInv'
  <1> USE DEF LifeInv, LifeTypeOK, Deaf, SurvivesClients, PortsKnown, PortsReported
  <1>1. /\ loop' \in [Threads -> {"none", "idle", "running", "freed"}]
        /\ loop'["main"] # "running"
    BY GotLoopFacts DEF WsApp, Threads
  <1>2. app' \in [Servers -> Threads \cup {"none"}] /\ app'["rest"] = app["rest"]
    BY DEF WsApp, Servers, Threads
  <1> QED
    BY <1>1, <1>2 DEF WsApp

(* The threads of the servers: only their own loops run, and a client of   *)
(* the rest server is served by none of them.                              *)
LEMMA ServerKeeps ==
    ASSUME LifeInv, NEW s \in Servers, ServerStep(s)
    PROVE  LifeInv'
  <1> USE DEF LifeInv, LifeTypeOK, Deaf, SurvivesClients, PortsKnown, PortsReported
  <1>1. s \in Threads /\ s # "main"
    BY DEF Servers, Threads
  <1>2. ASSUME NEW works \in BOOLEAN, Listen(s, works) PROVE LifeInv'
    <2>1. GotLoop(s) \in [Threads -> {"none", "idle", "running", "freed"}] /\ GotLoop(s)["main"] # "running"
      BY <1>1, GotLoopFacts DEF Threads
    <2>2. loop' \in [Threads -> {"none", "idle", "running", "freed"}] /\ loop'["main"] # "running"
      BY <1>1, <1>2, <2>1 DEF Listen, Threads
    <2>3. listening' \subseteq Servers
      BY <1>2 DEF Listen
    <2> QED
      BY <1>2, <2>2, <2>3 DEF Listen
  <1>3. CASE ReturnFromRun(s)
    <2>1. loop' \in [Threads -> {"none", "idle", "running", "freed"}] /\ loop'["main"] # "running"
      BY <1>1, <1>3 DEF ReturnFromRun
    <2> QED
      BY <1>3, <2>1 DEF ReturnFromRun
  <1>4. CASE ServeClient(s)
    <2>1. s = "ws"
      <3>1. SUFFICES ASSUME s = "rest" PROVE FALSE
        BY DEF Servers
      <3>2. app["rest"] = "main"
        BY <1>4, <3>1 DEF ServeClient, Runs, Threads
      <3> QED
        BY <1>4, <3>1, <3>2 DEF ServeClient
    <2>2. process' = process
      BY <1>4, <2>1 DEF ServeClient, Handled
    <2> QED
      BY <1>4, <2>2 DEF ServeClient
  <1> QED
    BY <1>2, <1>3, <1>4 DEF ServerStep

(* Clients and signals.                                                    *)
LEMMA OutsideKeeps ==
    ASSUME LifeInv,
           (\E s \in Servers : Connect(s) \/ Leave(s)) \/ Signal \/ HandleSignal \/ Exit
    PROVE  LifeInv'
  <1> USE DEF LifeInv, LifeTypeOK, Deaf, SurvivesClients, PortsKnown, PortsReported
  <1>1. ASSUME NEW s \in Servers, Connect(s) \/ Leave(s) PROVE LifeInv'
    BY <1>1 DEF Connect, Leave
  <1>2. ASSUME NEW p \in {"handling", "exiting", "stuck", "gone", "killed"}, Becomes(p) PROVE LifeInv'
    BY <1>2 DEF Becomes, Ended
  <1>3. Signal => Becomes("killed") \/ Becomes("handling") \/ Becomes("stuck")
    BY DEF Signal
  <1>4. HandleSignal => Becomes("exiting") \/ Becomes("killed")
    BY DEF HandleSignal
  <1>5. Exit => Becomes("gone") \/ Becomes("killed") \/ Becomes("stuck")
    BY DEF Exit
  <1> QED
    BY <1>1, <1>2, <1>3, <1>4, <1>5

(* What holds of the process at every moment.                              *)
LEMMA LifeAlwaysRight == Spec => []LifeInv
  <1>1. Init => LifeInv
    BY LifeStarts DEF Init
  <1>2. LifeInv /\ [Next]_vars => LifeInv'
    <2> SUFFICES ASSUME LifeInv, [Next]_vars PROVE LifeInv'
      OBVIOUS
    <2>1. CASE Life
      BY <2>1, MainKeeps, WsAppKeeps, ServerKeeps, OutsideKeeps DEF Life
    <2>2. CASE UNCHANGED lifeVars
      BY <2>2 DEF lifeVars, LifeInv, LifeTypeOK, Deaf, SurvivesClients, PortsKnown, PortsReported
    <2> QED
      BY <2>1, <2>2 DEF Next, vars
  <1> QED
    BY <1>1, <1>2, PTL DEF Spec

(* Every variable of the process and of its websocket server's loop keeps  *)
(* its type, for any configuration files and any threads that defer.       *)
THEOREM LifecycleTypeCorrect == Spec => []TypeOK
  <1>1. LifeInv /\ LoopInv => TypeOK
    BY DEF LifeInv, LoopInv, TypeOK
  <1> QED
    BY <1>1, LifeAlwaysRight, LoopAlwaysSafe, PTL

(* No client brings the process down: its rest server, whose handlers      *)
(* HttpContext would answer with terminate, never serves one, because its  *)
(* App is bound to the loop of main (rest_server.cpp).                     *)
THEOREM SurvivesClientsCorrect == Spec => []SurvivesClients
  <1>1. LifeInv => SurvivesClients
    BY DEF LifeInv, Deaf
  <1> QED
    BY <1>1, LifeAlwaysRight, PTL

(* A server never uses a port that was not read without that having been   *)
(* reported, whatever the configuration file is like (Config).             *)
THEOREM PortsReportedCorrect == Spec => []PortsReported
  <1>1. LifeInv => PortsReported
    BY DEF LifeInv, PortsKnown
  <1> QED
    BY <1>1, LifeAlwaysRight, PTL

=============================================================================
