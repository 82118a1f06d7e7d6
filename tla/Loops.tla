------------------------------- MODULE Loops -------------------------------
(***************************************************************************)
(* How a uWS::Loop runs what other threads ask of it (Loop.h): defer puts  *)
(* a callback into one of two queues under a mutex and wakes the loop up,  *)
(* and the loop exchanges the queues and runs what the old one holds.      *)
(* Callbacks are numbered in the order in which they get the mutex.        *)
(***************************************************************************)
EXTENDS Integers, Sequences

CONSTANTS
    Deferrers,      \* the threads that call defer, the loop's own one included
    Owner,          \* the loop's own thread
    MaxDeferred     \* bound: callbacks deferred

ASSUME LoopAssumption == Owner \in Deferrers /\ MaxDeferred \in Nat

VARIABLES
    queues,         \* LoopData::deferQueues
    current,        \* currentDeferQueue
    draining,       \* the queue wakeupCb is walking, or NoQueue
    done,           \* how many of its callbacks have been called
    waking,         \* threads between the mutex and us_wakeup_loop
    woken,          \* the loop has a wakeup to handle
    ran             \* the callbacks that were called, in that order

loopVars == <<queues, current, draining, done, waking, woken, ran>>

NoQueue == 2

LoopInit ==
    /\ queues = [q \in 0..1 |-> <<>>]
    /\ current = 0
    /\ draining = NoQueue
    /\ done = 0
    /\ waking = {}
    /\ woken = FALSE
    /\ ran = <<>>

\* The part of the drained queue that is still to run.
Undrained == IF draining = NoQueue THEN <<>>
             ELSE SubSeq(queues[draining], done + 1, Len(queues[draining]))

Pending == Undrained \o queues[current]

Deferred == Len(ran) + Len(Pending)

\* defer, under the mutex.  The loop's own thread calls it from a callback.
Defer(t) ==
    /\ t \notin waking
    /\ t = Owner => draining # NoQueue /\ done > 0
    /\ Deferred < MaxDeferred
    /\ queues' = [queues EXCEPT ![current] = Append(@, Deferred + 1)]
    /\ waking' = waking \cup {t}
    /\ UNCHANGED <<current, draining, done, woken, ran>>

\* mutant: a loop that is draining is not woken up.
WakeUpIdle(t) ==
    /\ t \in waking
    /\ waking' = waking \ {t}
    /\ woken' = (woken \/ draining = NoQueue)
    /\ UNCHANGED <<queues, current, draining, done, ran>>
\* defer, after the mutex.
WakeUp(t) ==
    /\ t \in waking
    /\ waking' = waking \ {t}
    /\ woken' = TRUE
    /\ UNCHANGED <<queues, current, draining, done, ran>>

\* wakeupCb, under the mutex.
Swap ==
    /\ woken /\ draining = NoQueue
    /\ woken' = FALSE
    /\ draining' = current
    /\ current' = (current + 1) % 2
    /\ done' = 0
    /\ UNCHANGED <<queues, waking, ran>>

\* wakeupCb: the next callback is called; it must have returned from defer.
RunCallback ==
    /\ Undrained # <<>>
    /\ Owner \notin waking
    /\ ran' = Append(ran, Head(Undrained))
    /\ done' = done + 1
    /\ UNCHANGED <<queues, current, draining, waking, woken>>

\* mutant: both queues are cleared.
ClearBoth ==
    /\ draining # NoQueue /\ Undrained = <<>>
    /\ Owner \notin waking
    /\ queues' = [q \in 0..1 |-> <<>>]
    /\ draining' = NoQueue
    /\ done' = 0
    /\ UNCHANGED <<current, waking, woken, ran>>
\* wakeupCb: the queue is cleared once all of it was called.
Clear ==
    /\ draining # NoQueue /\ Undrained = <<>>
    /\ Owner \notin waking
    /\ queues' = [queues EXCEPT ![draining] = <<>>]
    /\ draining' = NoQueue
    /\ done' = 0
    /\ UNCHANGED <<current, waking, woken, ran>>

\* Anyone defers; the loop's thread handles its wakeups.
AskLoop == \E t \in Deferrers \ {Owner} : Defer(t) \/ WakeUp(t)
RunLoop == Swap \/ RunCallback \/ Clear \/ WakeUp(Owner)
LoopNext == AskLoop \/ Defer(Owner) \/ RunLoop

LoopSpec == LoopInit /\ [][LoopNext]_loopVars

-----------------------------------------------------------------------------

LoopTypeOK ==
    /\ queues \in [0..1 -> Seq(Nat)]
    /\ current \in 0..1
    /\ draining \in {0, 1, NoQueue}
    /\ done \in Nat
    /\ waking \subseteq Deferrers
    /\ woken \in BOOLEAN
    /\ ran \in Seq(Nat)

(* The queue wakeupCb walks is not the one defer appends to, so no         *)
(* callback is added to a vector while it is iterated, and nothing is left *)
(* in a queue that is neither (Loop.h, wakeupCb and defer).                *)
DrainedAlone ==
    /\ draining # current
    /\ draining # NoQueue => done <= Len(queues[draining])
    /\ draining = NoQueue => queues[1 - current] = <<>>

(* The loop never sleeps on a callback: while one is queued, it has a      *)
(* wakeup to handle, or a thread is about to wake it.                      *)
NoWakeupLost == queues[current] # <<>> => woken \/ waking # {}

(* Seen from outside, defer and the loop are a first-in first-out relay:   *)
(* every callback is called exactly once, in the order in which the        *)
(* threads got the mutex.                                                  *)
deferRelay == INSTANCE Relay WITH MaxUpdates <- MaxDeferred, backlog <- Pending, emitted <- ran

DeferRelay == deferRelay!Init /\ [][deferRelay!Next]_deferRelay!rvars

=============================================================================
