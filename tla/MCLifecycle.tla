---------------------------- MODULE MCLifecycle ----------------------------
EXTENDS Lifecycle

HubAndLoop == {"hub", "ws"}

Entries(h, w, r) == [opens |-> TRUE, parses |-> TRUE, hub |-> h, ws |-> w, rest |-> r]

SomeFiles == {
    Entries("there", "there", "there"),
    Entries("missing", "there", "there"),
    Entries("there", "missing", "there"),
    Entries("wrong", "there", "there"),
    Entries("there", "there", "wrong"),
    [Entries("there", "there", "there") EXCEPT !.opens = FALSE],
    [Entries("there", "there", "there") EXCEPT !.parses = FALSE]}

=============================================================================
