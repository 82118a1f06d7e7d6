-------------------------------- MODULE Relay --------------------------------
(***************************************************************************)
(* What the market data pipeline promises the clients, seen as a whole: a  *)
(* first-in first-out relay.  Updates are numbered in the order in which   *)
(* the hub pushes them, and each is emitted exactly once, in that order,   *)
(* some time after it was pushed.                                          *)
(***************************************************************************)
EXTENDS Integers, Sequences

CONSTANT MaxUpdates    \* bound: updates pushed

VARIABLES backlog, emitted

rvars == <<backlog, emitted>>

Accepted == Len(backlog) + Len(emitted)

Init == backlog = <<>> /\ emitted = <<>>

Accept ==
    /\ Accepted < MaxUpdates
    /\ backlog' = Append(backlog, Accepted + 1)
    /\ UNCHANGED emitted

Emit ==
    /\ backlog # <<>>
    /\ emitted' = Append(emitted, Head(backlog))
    /\ backlog' = Tail(backlog)

Next == Accept \/ Emit

\* A relay does not keep an update for ever.
Spec == Init /\ [][Next]_rvars /\ WF_rvars(Emit)
=============================================================================
