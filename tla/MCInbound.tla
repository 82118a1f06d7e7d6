----------------------------- MODULE MCInbound -----------------------------
EXTENDS Inbound

\* Segments: a, b, a name that begins with a digit, :id and *; there is NoSegment too.
a == <<"=", 5>>
b == <<"=", 6>>
digit == <<"=", 2>>
id == <<":", 3>>
any == <<"*", 1>>

Registered(methods, pattern, priority, does) ==
    [methods |-> methods, pattern |-> pattern, priority |-> priority, does |-> does]

SomeRoutes == {
    Registered(<<"get">>, <<any>>, HIGH_PRIORITY, "upgrade"),
    Registered(<<"get">>, <<a, id>>, MEDIUM_PRIORITY, "end"),
    Registered(<<"get">>, <<id, b>>, MEDIUM_PRIORITY, "end"),
    Registered(<<"get">>, <<a, digit>>, MEDIUM_PRIORITY, "end"),
    Registered(<<"get">>, <<a, any>>, MEDIUM_PRIORITY, "end"),
    Registered(<<"get">>, <<a, NoSegment>>, MEDIUM_PRIORITY, "end"),
    Registered(<<"get", "post">>, <<any>>, LOW_PRIORITY, "end")}

SomeUrls == UNION {[1..n -> {a, b, digit, NoSegment}] : n \in 0..2} \cup {<<a, b, a>>, <<b, b, a>>}

Kinds == <<"end", "read", "early", "later", "try", "close", "nothing">>
To(does) == <<"=", 10 + (CHOOSE i \in 1..Len(Kinds) : Kinds[i] = does)>>

By(does) == CASE does = "end" -> <<"get", "post">>
              [] does \in {"read", "early"} -> <<"post">>
              [] OTHER -> <<"get">>

AllRoutes == <<Registered(<<"get">>, <<any>>, HIGH_PRIORITY, "upgrade")>>
             \o [i \in 1..Len(Kinds) |-> Registered(By(Kinds[i]), <<To(Kinds[i])>>, MEDIUM_PRIORITY, Kinds[i])]

Req(head, sound, does, key, body) ==
    [head |-> head, sound |-> sound, method |-> IF body = NoBody THEN "get" ELSE "post",
     url |-> <<To(does)>>, key |-> key, body |-> body]

Simple == {Req(2, TRUE, "end", FALSE, NoBody), Req(3, TRUE, "later", FALSE, NoBody),
           Req(2, TRUE, "read", FALSE, 3), Req(3, TRUE, "early", FALSE, 1), Req(2, TRUE, "end", FALSE, 2),
           Req(2, TRUE, "read", FALSE, 0), Req(3, TRUE, "try", FALSE, NoBody)}

Odd == {Req(2, TRUE, "close", FALSE, NoBody), Req(2, TRUE, "nothing", FALSE, NoBody),
        [Req(2, TRUE, "end", FALSE, NoBody) EXCEPT !.url = <<b>>], Req(5, TRUE, "end", FALSE, NoBody),
        Req(2, FALSE, "end", FALSE, 4), Req(2, TRUE, "end", TRUE, NoBody)}

Requests == {<<>>} \cup {<<q>> : q \in Odd} \cup {<<q, r>> : q \in Simple, r \in Simple}

Fr(op, fin, header, len, sound) ==
    [op |-> op, fin |-> fin, rsv |-> FALSE, header |-> header, len |-> len, sound |-> sound]

Frames == {
    \* a message in fragments, with a ping and a pong in between
    <<Fr(1, FALSE, 6, 3, TRUE), Fr(9, TRUE, 6, 2, TRUE), Fr(0, FALSE, 6, 0, TRUE), Fr(0, TRUE, 8, 3, TRUE)>>,
    <<Fr(2, FALSE, 6, 2, TRUE), Fr(10, TRUE, 6, 1, TRUE), Fr(0, TRUE, 6, 5, TRUE)>>,
    \* an extended length, and a close frame with and without a code
    <<Fr(2, TRUE, 14, 5, FALSE), Fr(1, TRUE, 6, 0, TRUE), Fr(8, TRUE, 6, 3, TRUE), Fr(9, TRUE, 6, 1, TRUE)>>,
    <<Fr(1, TRUE, 8, 6, TRUE), Fr(8, TRUE, 6, 1, FALSE)>>,
    <<Fr(1, FALSE, 6, 2, TRUE), Fr(8, TRUE, 6, 2, FALSE)>>,
    \* texts that are not UTF-8, messages and frames that are too long
    <<Fr(1, FALSE, 6, 2, TRUE), Fr(0, TRUE, 6, 1, FALSE), Fr(9, TRUE, 6, 0, TRUE)>>,
    <<Fr(1, FALSE, 6, 4, TRUE), Fr(0, TRUE, 6, 4, TRUE)>>,
    <<Fr(2, TRUE, 6, 8, TRUE)>>,
    \* what consume and consumeMessage refuse, and what they should
    <<[Fr(1, TRUE, 14, 2, TRUE) EXCEPT !.rsv = TRUE]>>,
    <<Fr(1, TRUE, 6, 1, TRUE), Fr(3, TRUE, 8, 2, TRUE)>>,
    <<Fr(12, TRUE, 6, 1, TRUE)>>,
    <<Fr(9, FALSE, 6, 1, TRUE), Fr(0, TRUE, 6, 1, TRUE)>>,
    <<Fr(9, TRUE, 8, 2, TRUE)>>,
    <<Fr(0, TRUE, 6, 2, TRUE)>>,
    <<Fr(1, FALSE, 6, 2, TRUE), Fr(1, TRUE, 6, 2, TRUE)>>,
    <<Fr(1, FALSE, 6, 1, TRUE), Fr(2, FALSE, 6, 1, TRUE), Fr(9, TRUE, 6, 1, TRUE)>>}

=============================================================================
