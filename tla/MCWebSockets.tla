---------------------------- MODULE MCWebSockets ----------------------------
(* Instances of WebSockets for TLC.                                        *)
EXTENDS WebSockets, TLC

CONSTANTS c1, c2

OneSocket == {c1}
TwoSockets == {c1, c2}

\* Connections are alike.
SocketSymmetry == Permutations(TwoSockets)
=============================================================================
