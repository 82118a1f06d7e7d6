-------------------------- MODULE HttpConnection --------------------------
(***************************************************************************)
(* One connection of an App before it becomes a websocket: HttpParser      *)
(* finds the requests in the chunks the kernel delivers, HttpContext hands *)
(* them to the handler the router finds, whichever that is, and it answers *)
(* through HttpResponse, at once or later.  A step is one turn of the      *)
(* parser's loop, or one callback of the loop.                             *)
(*                                                                         *)
(* A byte of the stream is <<r, i>>: the i-th byte of the body of request  *)
(* r when i > 0, and a byte of its head when i <= 0.                       *)
(***************************************************************************)
EXTENDS Integers, Sequences

CONSTANTS
    HttpStreams,    \* the sequences of requests the peer may send
    HandlerOf(_),   \* what the handler of a request does; "none" without one
    MaxFallback,    \* HttpParser::MAX_FALLBACK_SIZE
    ReplySize       \* the bytes a handler answers with, of which it may write one first

VARIABLES
    requests,   \* the requests this peer sends
    sending,    \* their bytes that have not been delivered yet
    chunk,      \* what is left of the bytes on_data was called with
    stage,      \* where consumePostPadded is; "idle" between callbacks
    http,       \* the socket, HttpResponseData and HttpParser
    log         \* what the handlers were told, and what they answered

httpVars == <<requests, sending, chunk, stage, http, log>>

\* A head of so many bytes; sound: getHeaders can read it; key: it has a
\* sec-websocket-key; body: the content-length, NoBody without that header.
NoBody == -1
Request == [head: Nat \ {0}, sound: BOOLEAN, method: STRING, url: Seq(STRING \X Int),
            key: BOOLEAN, body: Nat \cup {NoBody}]

ASSUME HttpAssumption ==
    /\ HttpStreams \subseteq Seq(Request)
    /\ MaxFallback \in Nat \ {0}
    /\ ReplySize \in Nat \ {0}

BodySize(q) == IF q.body = NoBody THEN 0 ELSE q.body

BytesOf(qs, r) == [i \in 1..(qs[r].head + BodySize(qs[r])) |-> <<r, i - qs[r].head>>]

RequestBytes(qs) ==
    LET bytes[r \in 0..Len(qs)] == IF r = 0 THEN <<>> ELSE bytes[r - 1] \o BytesOf(qs, r)
    IN  bytes[Len(qs)]

\* Where a connection starts: on_open arms the timeout.
HttpInit ==
    /\ requests \in HttpStreams
    /\ sending = RequestBytes(requests)
    /\ chunk = <<>>
    /\ stage = "idle"
    /\ http = [state |-> "open", timer |-> TRUE, fallback |-> <<>>, streaming |-> 0,
               current |-> 0, pending |-> FALSE, calls |-> {}, offset |-> 0,
               onAborted |-> 0, onWritable |-> 0, inStream |-> 0]
    /\ log = [seen |-> <<>>, body |-> [r \in DOMAIN requests |-> <<>>],
              fins |-> [r \in DOMAIN requests |-> 0], out |-> <<>>,
              aborted |-> [r \in DOMAIN requests |-> 0]]

Open == http.state = "open"

-----------------------------------------------------------------------------
(* HttpResponse.  A connection is [http, log] in what follows.             *)

Conn == [http |-> http, log |-> log]

\* A piece of the answer; bytes first..last if it is data, and the length
\* that last says if it is one.
Piece(c, kind, first, last) ==
    [c EXCEPT !.log.out = Append(@, [r |-> c.http.current, kind |-> kind, first |-> first, last |-> last])]
Mark(c, kind) == Piece(c, kind, 0, 0)

Timer(c, armed) == [c EXCEPT !.http.timer = armed]

\* on_close: a request that is waited for learns of it, and the data of the
\* connection is destructed.
Close(c) ==
    LET r == c.http.onAborted
    IN  [c EXCEPT !.http.state = "closed", !.http.timer = FALSE, !.http.onAborted = 0,
                  !.http.inStream = 0, !.http.onWritable = 0, !.http.fallback = <<>>,
                  !.http.streaming = 0,
                  !.log.aborted = [q \in DOMAIN @ |-> IF q = r THEN @[q] + 1 ELSE @[q]]]

\* mutant: onAborted is left attached.
MarkDoneAttached(c) == [c EXCEPT !.http.pending = FALSE, !.http.onWritable = 0]
\* markDone: the response is complete.
MarkDone(c) == [c EXCEPT !.http.pending = FALSE, !.http.onAborted = 0, !.http.onWritable = 0]

WriteStatus(c) == IF "status" \in c.http.calls THEN c
                  ELSE [Mark(c, "status") EXCEPT !.http.calls = @ \cup {"status"}]

\* Bytes first..last of the body of the answer.
Data(c, first, last) == IF last < first THEN c ELSE Piece(c, "data", first, last)

\* mutant: the length is written each time.
WriteLengthAgain(c, total) == [Piece(c, "length", 0, total) EXCEPT !.http.calls = @ \cup {"end"}]
WriteLength(c, total) == IF "end" \in c.http.calls THEN c
                         ELSE [Piece(c, "length", 0, total) EXCEPT !.http.calls = @ \cup {"end"}]

\* write: one chunk of the answer; it never fails for lack of room, which
\* only starts the timeout.
WriteChunk(c, first, last, failed) ==
    LET begun == IF "write" \in c.http.calls THEN WriteStatus(c)
                 ELSE [Mark(WriteStatus(c), "chunked") EXCEPT !.http.calls = @ \cup {"write"}]
        written == Data(begun, first, last)
    IN  IF last < first THEN WriteStatus(c) ELSE Timer(written, c.http.timer \/ failed)

\* internalEnd with bytes first..last of an answer of total bytes, of which
\* the socket took the first n (all of them unless optional, see tryEnd).
InternalEnd(c, first, last, total, n) ==
    LET begun == WriteStatus(c)
        chunked == MarkDone(Mark(Data(begun, first, last), "last"))
        sent == [Data(WriteLength(begun, total), first, first + n - 1) EXCEPT !.http.offset = @ + n]
        atEnd == sent.http.offset = total
        success == n = last - first + 1
        timed == Timer(sent, sent.http.timer \/ ~success \/ atEnd)
    IN  IF "write" \in c.http.calls THEN Timer(chunked, TRUE)
        ELSE IF atEnd THEN MarkDone(timed) ELSE timed

End(c, first) == InternalEnd(c, first, ReplySize, ReplySize - first + 1, ReplySize - first + 1)

\* tryEnd with what has not been written yet, as onWritable is asked to.
TryEnd(c, n) == InternalEnd(c, c.http.offset + 1, ReplySize, ReplySize, n)

-----------------------------------------------------------------------------
(* Routing.  The handlers are what a program may do with a request:        *)
(*   upgrade  App::ws, which yields unless the request has the key         *)
(*   end      answers at once                                              *)
(*   read     reads the body and answers when it is there                  *)
(*   early    reads the body but answers at once                           *)
(*   later    answers from another callback, perhaps in chunks             *)
(*   try      tryEnd, and again whenever the socket is writable            *)
(*   close    closes the connection                                        *)
(* or nothing at all, as the handlers of RestServer do.                    *)

Does(r) == HandlerOf(requests[r])

Attached(c, r) == [c EXCEPT !.http.onAborted = r]
Reading(c, r) == [c EXCEPT !.http.inStream = r]

\* upgrade: 101 goes out, and the connection is not HTTP's any more.
Upgrade(c) == [Mark(WriteStatus(c), "switching") EXCEPT !.http.state = "upgraded", !.http.pending = FALSE]

\* A handler that does so with request r; n is what the socket takes of a
\* first tryEnd.
Handle(c, r, n, does) ==
    CASE does = "upgrade" -> Upgrade(c)
      [] does = "end"     -> End(c, 1)
      [] does = "read"    -> Reading(Attached(c, r), r)
      [] does = "early"   -> End(Reading(c, r), 1)
      [] does = "later"   -> Attached(c, r)
      [] does = "try"     -> TryEnd([Attached(c, r) EXCEPT !.http.onWritable = r], n)
      [] does = "close"   -> Close(c)
      [] OTHER            -> c

\* A handler that neither answers nor asks to learn of an abort terminates
\* the process.  While the server waits for a body, the timeout runs.
Settled(handled) ==
    IF handled.http.state # "open" \/ ~handled.http.pending THEN handled
    ELSE IF handled.http.onAborted = 0 THEN [handled EXCEPT !.http.state = "terminated"]
    ELSE Timer(handled, handled.http.timer \/ handled.http.inStream # 0)

\* The requestHandler of HttpContext: a request that comes before the last
\* one is answered, or that no route takes, closes the connection.
RequestHandler(c, r, n) ==
    LET reset == [Timer(c, FALSE) EXCEPT !.http.offset = 0]
        begun == [reset EXCEPT !.http.pending = TRUE, !.http.calls = {}, !.http.current = r]
        told == [begun EXCEPT !.log.seen = Append(@, r)]
    IN  IF c.http.pending THEN Close(reset)
        ELSE IF Does(r) = "none" THEN Close(begun)
        ELSE Settled(Handle(told, r, n, Does(r)))

\* mutant: the timeout is disabled whatever the chunk.
DataHandlerHangs(c, bytes, fin) ==
    LET r == c.http.inStream
        told == [Timer(c, FALSE) EXCEPT !.log.body[r] = @ \o bytes, !.log.fins[r] = IF fin THEN @ + 1 ELSE @]
        answered == IF fin /\ Does(r) = "read" THEN End(told, 1) ELSE told
    IN  IF r = 0 THEN c ELSE IF fin THEN [answered EXCEPT !.http.inStream = 0] ELSE answered
\* mutant: the reader stays attached behind the end of the body.
DataHandlerKept(c, bytes, fin) ==
    LET r == c.http.inStream
        told == [Timer(c, ~fin) EXCEPT !.log.body[r] = @ \o bytes, !.log.fins[r] = IF fin THEN @ + 1 ELSE @]
    IN  IF r = 0 THEN c ELSE IF fin /\ Does(r) = "read" THEN End(told, 1) ELSE told
\* The dataHandler of HttpContext: the reader is told, and with the end of
\* the body it is detached.
DataHandler(c, bytes, fin) ==
    LET r == c.http.inStream
        told == [Timer(c, ~fin) EXCEPT !.log.body[r] = @ \o bytes, !.log.fins[r] = IF fin THEN @ + 1 ELSE @]
        answered == IF fin /\ Does(r) = "read" THEN End(told, 1) ELSE told
    IN  IF r = 0 THEN c ELSE IF fin THEN [answered EXCEPT !.http.inStream = 0] ELSE answered

-----------------------------------------------------------------------------
(* HttpParser.                                                             *)

First(n, bytes) == SubSeq(bytes, 1, n)
After(n, bytes) == SubSeq(bytes, n + 1, Len(bytes))
Least(a, b) == IF a < b THEN a ELSE b

\* getHeaders: the length of the head that begins here, or 0 when it is not
\* complete, cannot be read, or no head begins here.
GetHeaders(bytes) ==
    IF bytes = <<>> THEN 0
    ELSE LET q == requests[bytes[1][1]]
         IN  IF q.sound /\ bytes[1][2] = 1 - q.head /\ q.head <= Len(bytes) THEN q.head ELSE 0

\* A step ends with connection c; the parser goes on with the bytes left, at
\* the next stage, unless the connection is not HTTP's any more.
Becomes(c, left, next) ==
    /\ http' = c.http
    /\ log' = c.log
    /\ chunk' = IF c.http.state = "open" THEN left ELSE <<>>
    /\ stage' = IF c.http.state = "open" THEN next ELSE "idle"
    /\ UNCHANGED <<requests, sending>>

\* on_data with n bytes.
HttpData(n) ==
    /\ Open /\ stage = "idle"
    /\ n \in 1..Len(sending)
    /\ chunk' = First(n, sending)
    /\ sending' = After(n, sending)
    /\ stage' = IF http.streaming > 0 THEN "stream" ELSE IF http.fallback # <<>> THEN "join" ELSE "parse"
    /\ UNCHANGED <<requests, http, log>>

\* The body that is being read goes on with this chunk.
StreamBody ==
    LET n == Least(http.streaming, Len(chunk))
    IN  /\ stage = "stream"
        /\ Becomes(DataHandler([Conn EXCEPT !.http.streaming = @ - n], First(n, chunk), n = http.streaming),
                   After(n, chunk), "parse")

\* The head that had begun is put together in the fallback, as far as it has
\* room, and this one request is handled; if its body follows, it is read
\* from the chunk.  A head that does not fit closes the connection.
JoinFallback(n) ==
    LET joined == http.fallback \o First(Least(MaxFallback - Len(http.fallback), Len(chunk)), chunk)
        head == GetHeaders(joined)
        asked == RequestHandler(Conn, joined[1][1], n)
        body == requests[joined[1][1]].body
        told == IF body = NoBody THEN DataHandler(asked, <<>>, TRUE) ELSE [asked EXCEPT !.http.streaming = body]
    IN  /\ stage = "join"
        /\ \/ head > 0 /\ Becomes(IF asked.http.state # "open" THEN asked ELSE [told EXCEPT !.http.fallback = <<>>],
                                  After(head - Len(http.fallback), chunk), IF body > 0 THEN "stream" ELSE "parse")
           \/ head = 0 /\ Becomes(IF Len(joined) = MaxFallback THEN Close(Conn)
                                  ELSE [Conn EXCEPT !.http.fallback = joined], <<>>, "end")

\* A whole head is in the chunk: its request is handled, and as much of its
\* body as the chunk holds; without a body the reader is told the end.
ParseRequest(n) ==
    LET head == GetHeaders(chunk)
        rest == After(head, chunk)
        body == requests[chunk[1][1]].body
        m == Least(BodySize(requests[chunk[1][1]]), Len(rest))
        asked == RequestHandler(Conn, chunk[1][1], n)
        told == [DataHandler(asked, First(m, rest), m = body \/ body = NoBody)
                    EXCEPT !.http.streaming = IF body = NoBody THEN 0 ELSE body - m]
    IN  /\ stage = "parse" /\ head > 0
        /\ Becomes(IF asked.http.state # "open" THEN asked ELSE told, After(m, rest), "parse")

\* mutant: the rest is kept however long it is.
KeepRestAll ==
    /\ stage = "parse" /\ GetHeaders(chunk) = 0
    /\ Becomes([Conn EXCEPT !.http.fallback = @ \o chunk], <<>>, "end")
\* What is left of the chunk is the beginning of a head, if it is not as
\* long as a head may be.
KeepRest ==
    /\ stage = "parse" /\ GetHeaders(chunk) = 0
    /\ Becomes(IF Len(chunk) < MaxFallback THEN [Conn EXCEPT !.http.fallback = @ \o chunk] ELSE Close(Conn),
               <<>>, "end")

\* The rest of on_data: the cork buffer is flushed, which may fail.
UncorkHttp(failed) ==
    /\ stage = "end"
    /\ Becomes(Timer(Conn, http.timer \/ failed), <<>>, "idle")

-----------------------------------------------------------------------------
(* Other callbacks of the loop.                                            *)

Between == Open /\ stage = "idle"

\* A handler that answers later does so, in one piece or with a chunk first.
AnswerChunk(failed) ==
    /\ Between /\ http.pending /\ Does(http.current) = "later" /\ "write" \notin http.calls
    /\ Becomes(WriteChunk(Conn, 1, 1, failed), <<>>, "idle")

Answer ==
    /\ Between /\ http.pending /\ Does(http.current) = "later"
    /\ Becomes(End(Conn, IF "write" \in http.calls THEN 2 ELSE 1), <<>>, "idle")

\* on_writable: the handler may go on, or else the buffer is drained.
HttpWritable(n) ==
    /\ Between
    /\ Becomes(IF http.onWritable = 0 THEN Timer(Conn, TRUE) ELSE TryEnd(Timer(Conn, FALSE), n), <<>>, "idle")

\* on_timeout, on_end, or the peer is gone.
HttpTimeout == Between /\ http.timer /\ Becomes(Close(Conn), <<>>, "idle")
HttpGone == Between /\ Becomes(Close(Conn), <<>>, "idle")

Taken == 0..(ReplySize - http.offset)

HttpStep ==
    \/ \E n \in 1..Len(sending) : HttpData(n)
    \/ StreamBody
    \/ \E n \in 0..ReplySize : JoinFallback(n)
    \/ \E n \in 0..ReplySize : ParseRequest(n)
    \/ KeepRest
    \/ \E failed \in BOOLEAN : UncorkHttp(failed)
    \/ \E failed \in BOOLEAN : AnswerChunk(failed)
    \/ Answer
    \/ \E n \in Taken : HttpWritable(n)
    \/ HttpTimeout
    \/ HttpGone

HttpSpec == HttpInit /\ [][HttpStep]_httpVars

-----------------------------------------------------------------------------

(* The parser keeps no more than MAX_FALLBACK_SIZE bytes of a head, and    *)
(* none while it reads a body.                                             *)
FallbackBounded ==
    /\ Len(http.fallback) <= MaxFallback
    /\ http.fallback # <<>> => http.streaming = 0

Told == {log.seen[i] : i \in DOMAIN log.seen}

\* A reader of a body that was announced to be empty is not told its end
\* when the head was put together in the fallback, and stays attached.
EmptyBodyRead == \E r \in DOMAIN requests : requests[r].body = 0 /\ Does(r) \in {"read", "early"}

Body(r) == [i \in 1..BodySize(requests[r]) |-> <<r, i>>]

(* However the stream is cut into chunks, requests are handled in order,   *)
(* once each, and a handler that reads is given its own body, whole, in    *)
(* order and with one end; and when everything has arrived and the         *)
(* connection is still there, nothing of it is stuck in the parser.        *)
BodiesWhole ==
    ~EmptyBodyRead =>
        /\ log.seen = [i \in 1..Len(log.seen) |-> i]
        /\ \A r \in DOMAIN requests :
              /\ log.body[r] = First(Len(log.body[r]), Body(r))
              /\ log.fins[r] \in 0..1
              /\ log.fins[r] = 1 => log.body[r] = Body(r)
        /\ (Between /\ sending = <<>> /\ \A r \in DOMAIN requests : requests[r].sound) =>
              /\ Len(log.seen) = Len(requests)
              /\ \A r \in DOMAIN requests : Does(r) \in {"read", "early"} => log.fins[r] = 1

\* The handlers that wait, for the body, for the socket or for an answer
\* from elsewhere, ask to learn of an abort.
Asks(r) == Does(r) \in {"read", "later", "try"}

Wrote(out, r, kind) == \E i \in DOMAIN out : out[i].r = r /\ out[i].kind = kind

\* The chunks were ended, or all of the bytes announced were written.
Answered(out, r) ==
    \/ Wrote(out, r, "last")
    \/ /\ Wrote(out, r, "length")
       /\ \E i \in DOMAIN out : out[i].r = r /\ out[i].kind = "data" /\ out[i].last = ReplySize

(* A handler that waits hears of its request exactly once: it has answered *)
(* it, or it is told that the request was aborted, and never both, also    *)
(* when the peer goes away in the middle of an answer.                     *)
AnsweredOrAborted ==
    \A r \in Told :
        IF ~Asks(r) THEN log.aborted[r] = 0
        ELSE log.aborted[r] + (IF Answered(log.out, r) THEN 1 ELSE 0)
                = IF Open /\ http.pending /\ http.current = r THEN 0 ELSE 1

(* "slow loris protection": between callbacks, a connection that waits for *)
(* the peer, for a request, for the rest of a body or to read the rest of  *)
(* an answer, has its timeout armed.  (Not so after a handler has answered *)
(* before the body it reads: the end of the body disables the timeout with *)
(* nothing pending.)                                                       *)
IdleHasTimeout ==
    (Between /\ ~\E r \in Told : Does(r) = "early")
        => (~http.pending \/ http.inStream # 0 \/ http.onWritable # 0 => http.timer)

\* Piece b may come right behind piece a in out: the status begins an answer
\* behind all others, then comes its length and all of the bytes, or chunks
\* and their end.
MayFollow(out, a, b) ==
    IF b.kind = "status" THEN a.r < b.r
    ELSE /\ a.r = b.r
         /\ b.kind \in {"length", "chunked", "switching"} => a.kind = "status"
         /\ b.kind = "data" => \/ a.kind \in {"length", "chunked"} /\ b.first = 1
                               \/ a.kind = "data" /\ b.first = a.last + 1
         /\ b.kind = "last" => a.kind = "data" /\ Wrote(out, b.r, "chunked")

(* Every answer is well formed and carries its bytes once and in order,    *)
(* whether it was written at once, in chunks, or in parts as the socket    *)
(* had room; and answers do not mix.                                       *)
AnswersWhole ==
    \A i \in DOMAIN log.out :
        /\ IF i = 1 THEN log.out[1].kind = "status" ELSE MayFollow(log.out, log.out[i - 1], log.out[i])
        /\ log.out[i].kind = "length" => log.out[i].last = ReplySize
        /\ log.out[i].kind = "data" => log.out[i].first <= log.out[i].last /\ log.out[i].last <= ReplySize

=============================================================================
