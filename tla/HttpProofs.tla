---------------------------- MODULE HttpProofs ----------------------------
(***************************************************************************)
(* Proofs about an HTTP connection, for any requests, any handlers and any *)
(* chunks: what the parser keeps, whom it hands which bytes, and what the  *)
(* handlers answer and are told.                                           *)
(***************************************************************************)
EXTENDS HttpConnection, WellFoundedInduction, TLAPS

-----------------------------------------------------------------------------
(* The state.                                                              *)

Count == Len(requests)
Size(r) == BodySize(requests[r])
Reads(r) == Does(r) \in {"read", "early"}

Bytes == (DOMAIN requests) \X Int
Owner == {0} \cup DOMAIN requests
PieceKinds == {"status", "length", "chunked", "switching", "data", "last"}
Pieces == [r: Int, kind: PieceKinds, first: Int, last: Int]

Https == [state: {"open", "closed", "upgraded", "terminated"}, timer: BOOLEAN,
          fallback: Seq(Bytes), streaming: Nat, current: Owner, pending: BOOLEAN,
          calls: SUBSET {"status", "write", "end"}, offset: Nat,
          onAborted: Owner, onWritable: Owner, inStream: Owner]
Logs == [seen: Seq(DOMAIN requests), body: [DOMAIN requests -> Seq(Bytes)],
         fins: [DOMAIN requests -> Nat], out: Seq(Pieces), aborted: [DOMAIN requests -> Nat]]
Conns == [http: Https, log: Logs]

-----------------------------------------------------------------------------
(* What is left of the stream.                                             *)

\* The byte that comes behind byte p.
NextByte(p) == IF p[2] < Size(p[1]) THEN <<p[1], p[2] + 1>> ELSE <<p[1] + 1, 1 - requests[p[1] + 1].head>>

\* Bytes that come one behind the other, up to the last one of all.
Chain(s) ==
    /\ \A j \in 1..(Len(s) - 1) : s[j + 1] = NextByte(s[j])
    /\ s # <<>> => s[Len(s)] = <<Count, Size(Count)>>

\* s comes when all of request r was parsed but the last bytes of its body.
Begins(s, r, left) ==
    IF left > 0 THEN s # <<>> /\ s[1] = <<r, Size(r) - left + 1>>
    ELSE IF r < Count THEN s # <<>> /\ s[1] = <<r + 1, 1 - requests[r + 1].head>>
    ELSE s = <<>>

Stream(s, r, left) == Chain(s) /\ Begins(s, r, left)

-----------------------------------------------------------------------------
(* The answers.                                                            *)

WellFormed(out) ==
    \A i \in DOMAIN out :
        /\ IF i = 1 THEN out[1].kind = "status" ELSE MayFollow(out, out[i - 1], out[i])
        /\ out[i].kind = "length" => out[i].last = ReplySize
        /\ out[i].kind = "data" => out[i].first <= out[i].last /\ out[i].last <= ReplySize

\* What request q has had of its answer: nothing, the status, the length and
\* its bytes up to o, or a chunk.
Below(out, q) == WellFormed(out) /\ \A i \in DOMAIN out : out[i].r < q

AtStatus(out, q) ==
    /\ WellFormed(out) /\ \A i \in DOMAIN out : out[i].r <= q
    /\ out # <<>> /\ out[Len(out)].r = q /\ out[Len(out)].kind = "status"
    /\ \A i \in DOMAIN out : out[i].r = q => out[i].kind = "status"

AtByte(out, q, o) ==
    /\ WellFormed(out) /\ \A i \in DOMAIN out : out[i].r <= q
    /\ out # <<>> /\ out[Len(out)].r = q /\ Wrote(out, q, "length")
    /\ \/ out[Len(out)].kind = "length" /\ o = 0
       \/ out[Len(out)].kind = "data" /\ out[Len(out)].last = o
    /\ \A i \in DOMAIN out : out[i].r = q =>
          out[i].kind # "last" /\ (out[i].kind = "data" => out[i].last <= o)

AtChunk(out, q, o) ==
    /\ WellFormed(out) /\ \A i \in DOMAIN out : out[i].r <= q
    /\ out # <<>> /\ out[Len(out)].r = q /\ out[Len(out)].kind = "data" /\ out[Len(out)].last = o
    /\ Wrote(out, q, "chunked")
    /\ \A i \in DOMAIN out : out[i].r = q => out[i].kind \notin {"last", "length"}

\* The same of the current request of a connection that is waited for.
Fresh(c) == c.http.calls = {} /\ c.http.offset = 0 /\ Below(c.log.out, c.http.current)
Partial(c) ==
    /\ c.http.calls = {"status", "end"} /\ c.http.offset < ReplySize
    /\ AtByte(c.log.out, c.http.current, c.http.offset)
Chunked(c) == c.http.calls = {"status", "write"} /\ c.http.offset = 0 /\ AtChunk(c.log.out, c.http.current, 1)

\* A request is answered, unless it is the one that is pending.
Answers(c) ==
    /\ WellFormed(c.log.out)
    /\ \A i \in DOMAIN c.log.out : c.log.out[i].r <= c.http.current
    /\ \A r \in 1..c.http.current : Asks(r) =>
          (Answered(c.log.out, r) <=> ~(c.http.pending /\ c.http.current = r))

\* What a pending request waits for.
Waits(c) ==
    IF c.http.pending
    THEN /\ c.http.current # 0 /\ c.http.onAborted = c.http.current
         /\ \/ Does(c.http.current) = "read" /\ Fresh(c) /\ c.http.onWritable = 0 /\ c.http.inStream = c.http.current
            \/ Does(c.http.current) = "later" /\ (Fresh(c) \/ Chunked(c)) /\ c.http.onWritable = 0
            \/ Does(c.http.current) = "try" /\ Partial(c) /\ c.http.onWritable = c.http.current
    ELSE c.http.onAborted = 0 /\ c.http.onWritable = 0

\* A reader that is attached is a request that was seen; one that has not
\* answered is the current one.
Attaches(c) ==
    c.http.inStream # 0 =>
        /\ c.http.inStream <= c.http.current
        /\ Does(c.http.inStream) = "early"
           \/ (Does(c.http.inStream) = "read" /\ c.http.pending /\ c.http.inStream = c.http.current)

Times(c) ==
    (\A r \in 1..c.http.current : Does(r) # "early")
        => (~c.http.pending \/ c.http.inStream # 0 \/ c.http.onWritable # 0 => c.http.timer)

\* The requests were seen in order, and none was aborted.
Tells(c) ==
    /\ c.log.seen = [i \in 1..c.http.current |-> i]
    /\ \A r \in DOMAIN requests : c.log.aborted[r] = 0

\* A connection that is open, between two calls of a handler.
Ready(c) ==
    /\ c \in Conns /\ c.http.state = "open"
    /\ Answers(c) /\ Waits(c) /\ Attaches(c) /\ Times(c) /\ Tells(c)

\* The readers were given their bodies: the current one the first n bytes,
\* and the end if fin.
Bodies(c, n, fin) ==
    /\ \A r \in DOMAIN requests :
          IF r > c.http.current \/ ~Reads(r) THEN c.log.body[r] = <<>> /\ c.log.fins[r] = 0
          ELSE IF r < c.http.current THEN c.log.body[r] = Body(r) /\ c.log.fins[r] = 1
          ELSE c.log.body[r] = First(n, Body(r)) /\ c.log.fins[r] = IF fin THEN 1 ELSE 0
    /\ c.http.inStream = IF c.http.current # 0 /\ Reads(c.http.current) /\ ~fin THEN c.http.current ELSE 0

-----------------------------------------------------------------------------
(* What stays when the connection is not HTTP's any more.                  *)

SeenOf(c) == {c.log.seen[i] : i \in DOMAIN c.log.seen}

Heard(c) ==
    \A r \in SeenOf(c) :
        IF ~Asks(r) THEN c.log.aborted[r] = 0
        ELSE c.log.aborted[r] + (IF Answered(c.log.out, r) THEN 1 ELSE 0) = 1

\* No body is wrong as far as it was read.
BodyParts(c) ==
    \A r \in DOMAIN requests :
        /\ c.log.body[r] = First(Len(c.log.body[r]), Body(r))
        /\ c.log.fins[r] \in 0..1
        /\ c.log.fins[r] = 1 => c.log.body[r] = Body(r)

Over(c) ==
    /\ c \in Conns /\ c.http.state # "open"
    /\ WellFormed(c.log.out) /\ Heard(c)
    /\ c.log.seen = [i \in 1..Len(c.log.seen) |-> i]

-----------------------------------------------------------------------------
(* The inductive invariant.                                                *)

HttpTypes ==
    /\ requests \in Seq(Request) /\ sending \in Seq(Bytes) /\ chunk \in Seq(Bytes)
    /\ stage \in {"idle", "parse", "stream", "join", "end"}

\* The bytes of a body, none before the first request.
Whole(r) == IF r = 0 THEN 0 ELSE Size(r)

Keeps(h) ==
    /\ Len(h.fallback) <= MaxFallback
    /\ h.fallback # <<>> => h.streaming = 0

\* Where consumePostPadded is: at stage at with the bytes left of a chunk,
\* and more to come.
Parses(h, left, more, at) ==
    /\ Stream(h.fallback \o left \o more, h.current, h.streaming)
    /\ h.streaming <= Whole(h.current)
    /\ Keeps(h)
    /\ h.fallback # <<>> => GetHeaders(h.fallback) = 0
    /\ at \in {"parse", "stream"} => h.fallback = <<>>
    /\ at = "join" => h.fallback # <<>>
    /\ at = "stream" => h.streaming > 0
    /\ at = "parse" => h.streaming = 0 \/ left = <<>>
    /\ at \in {"idle", "end"} => left = <<>>

Holds(c, left, more, at) ==
    IF c.http.state = "open"
    THEN /\ Ready(c) /\ Parses(c.http, left, more, at)
         /\ ~EmptyBodyRead => Bodies(c, Whole(c.http.current) - c.http.streaming, c.http.streaming = 0)
    ELSE Over(c) /\ Keeps(c.http) /\ at = "idle" /\ (~EmptyBodyRead => BodyParts(c))

HttpInv == HttpTypes /\ Holds(Conn, chunk, sending, stage)

-----------------------------------------------------------------------------
(* Sequences.                                                              *)

(* The first bytes of some.                                                *)
LEMMA FirstIs ==
    ASSUME NEW S, NEW s \in Seq(S), NEW k \in 0..Len(s)
    PROVE  /\ First(k, s) \in Seq(S) /\ Len(First(k, s)) = k
           /\ \A j \in 1..k : First(k, s)[j] = s[j]
  BY DEF First

(* What comes behind them.                                                 *)
LEMMA AfterIs ==
    ASSUME NEW S, NEW s \in Seq(S), NEW k \in 0..Len(s)
    PROVE  /\ After(k, s) \in Seq(S) /\ Len(After(k, s)) = Len(s) - k
           /\ \A j \in 1..(Len(s) - k) : After(k, s)[j] = s[k + j]
  BY DEF After

(* Sequences with the same elements are the same.                          *)
LEMMA SameSeq ==
    ASSUME NEW S, NEW s \in Seq(S), NEW t \in Seq(S), Len(s) = Len(t), \A j \in 1..Len(s) : s[j] = t[j]
    PROVE  s = t
  OBVIOUS

(* One sequence behind another.                                            *)
LEMMA ConcatIs ==
    ASSUME NEW S, NEW s \in Seq(S), NEW t \in Seq(S)
    PROVE  /\ s \o t \in Seq(S) /\ Len(s \o t) = Len(s) + Len(t)
           /\ \A j \in 1..Len(s) : (s \o t)[j] = s[j]
           /\ \A j \in 1..Len(t) : (s \o t)[Len(s) + j] = t[j]
  OBVIOUS

(* A sequence is cut in two.                                               *)
LEMMA Cut ==
    ASSUME NEW S, NEW s \in Seq(S), NEW k \in 0..Len(s)
    PROVE  First(k, s) \o After(k, s) = s
  <1> DEFINE f == First(k, s)
             a == After(k, s)
             n == Len(s)
  <1>0. n \in Nat /\ k \in 0..n
    OBVIOUS
  <1>1. f \in Seq(S) /\ Len(f) = k /\ \A j \in 1..k : f[j] = s[j]
    BY FirstIs
  <1>2. a \in Seq(S) /\ Len(a) = n - k /\ \A j \in 1..(n - k) : a[j] = s[k + j]
    BY AfterIs
  <1> HIDE DEF f, a
  <1>3. f \o a \in Seq(S) /\ Len(f \o a) = n
    BY <1>0, <1>1, <1>2
  <1>4. ASSUME NEW j \in 1..n PROVE (f \o a)[j] = s[j]
    <2>1. CASE j <= k
      BY <1>0, <1>1, <1>2, <2>1
    <2>2. CASE j > k
      <3>1. (f \o a)[j] = a[j - k]
        BY <1>0, <1>1, <1>2, <2>2
      <3>2. j - k \in 1..(n - k) /\ k + (j - k) = j
        BY <1>0, <2>2
      <3> QED
        BY <1>2, <3>1, <3>2
    <2>3. j <= k \/ j > k
      BY <1>0
    <2> QED
      BY <2>1, <2>2, <2>3
  <1>5. f \o a = s
    BY <1>3, <1>4, SameSeq
  <1> QED
    BY <1>5 DEF f, a

(* What was put behind stays behind.                                       *)
LEMMA AfterConcat ==
    ASSUME NEW S, NEW s \in Seq(S), NEW t \in Seq(S), NEW k \in 0..Len(s)
    PROVE  After(k, s) \o t = After(k, s \o t)
  <1> DEFINE a == After(k, s)
             b == After(k, s \o t)
             n == Len(s) + Len(t)
             m == Len(s)
  <1>1. s \o t \in Seq(S) /\ Len(s \o t) = n /\ k \in 0..n /\ n \in Nat /\ m \in Nat /\ k \in 0..m
    OBVIOUS
  <1>2. b \in Seq(S) /\ Len(b) = n - k /\ \A j \in 1..(n - k) : b[j] = (s \o t)[k + j]
    <2> DEFINE u == s \o t
    <2>1. u \in Seq(S) /\ Len(u) = n /\ k \in 0..Len(u)
      BY <1>1
    <2>2. b = After(k, u)
      OBVIOUS
    <2> HIDE DEF u, b
    <2>3. b \in Seq(S) /\ Len(b) = Len(u) - k /\ \A j \in 1..(Len(u) - k) : b[j] = u[k + j]
      BY <2>1, <2>2, AfterIs
    <2>4. b \in Seq(S) /\ Len(b) = n - k /\ \A j \in 1..(n - k) : b[j] = u[k + j]
      BY <2>1, <2>3
    <2> QED
      BY <2>4 DEF u
  <1>3. a \in Seq(S) /\ Len(a) = m - k /\ \A j \in 1..(m - k) : a[j] = s[k + j]
    BY AfterIs
  <1> HIDE DEF a, b
  <1>4. a \o t \in Seq(S) /\ Len(a \o t) = n - k
    <2>0. a \in Seq(S)
      BY <1>3
    <2>1. a \o t \in Seq(S) /\ Len(a \o t) = Len(a) + Len(t)
      BY <2>0
    <2>2. Len(t) \in Nat
      OBVIOUS
    <2> QED
      BY <1>1, <1>3, <2>1, <2>2
  <1>5. ASSUME NEW j \in 1..(n - k) PROVE (a \o t)[j] = b[j]
    <2>1. b[j] = (s \o t)[k + j]
      BY <1>2
    <2>2. CASE j <= m - k
      <3>1. (a \o t)[j] = a[j] /\ j \in 1..(m - k)
        BY <1>1, <1>3, <2>2
      <3>2. (s \o t)[k + j] = s[k + j]
        BY <1>1, <2>2
      <3> QED
        BY <1>3, <2>1, <3>1, <3>2
    <2>3. CASE j > m - k
      <3>1. (a \o t)[j] = t[j - (m - k)]
        BY <1>1, <1>3, <2>3
      <3>2. (s \o t)[k + j] = t[(k + j) - m] /\ (k + j) - m = j - (m - k)
        BY <1>1, <2>3
      <3> QED
        BY <2>1, <3>1, <3>2
    <2>4. j <= m - k \/ j > m - k
      BY <1>1
    <2> QED
      BY <2>2, <2>3, <2>4
  <1>6. a \o t = b
    BY <1>2, <1>4, <1>5, SameSeq
  <1> QED
    BY <1>6 DEF a, b

(* What follows later is the same when it is cut off in two steps.         *)
LEMMA AfterAfter ==
    ASSUME NEW S, NEW s \in Seq(S), NEW k \in 0..Len(s), NEW m \in 0..(Len(s) - k)
    PROVE  After(m, After(k, s)) = After(k + m, s)
  <1> DEFINE c == After(k, s)
             a == After(m, c)
             b == After(k + m, s)
             n == Len(s)
  <1>0. n \in Nat /\ k \in 0..n /\ m \in 0..(n - k) /\ k + m \in 0..n
    OBVIOUS
  <1>1. c \in Seq(S) /\ Len(c) = n - k /\ \A j \in 1..(n - k) : c[j] = s[k + j]
    BY AfterIs
  <1> HIDE DEF c
  <1>2. a \in Seq(S) /\ Len(a) = n - k - m /\ \A j \in 1..(n - k - m) : a[j] = c[m + j]
    <2>1. m \in 0..Len(c)
      BY <1>0, <1>1
    <2>2. a \in Seq(S) /\ Len(a) = Len(c) - m /\ \A j \in 1..(Len(c) - m) : a[j] = c[m + j]
      BY <1>1, <2>1, AfterIs
    <2> QED
      BY <1>1, <2>2
  <1>3. b \in Seq(S) /\ Len(b) = n - (k + m) /\ \A j \in 1..(n - (k + m)) : b[j] = s[(k + m) + j]
    BY <1>0, AfterIs
  <1> HIDE DEF a, b
  <1>4. ASSUME NEW j \in 1..(n - k - m) PROVE a[j] = b[j]
    <2>1. m + j \in 1..(n - k) /\ k + (m + j) = (k + m) + j /\ j \in 1..(n - (k + m))
      BY <1>0
    <2> QED
      BY <1>1, <1>2, <1>3, <2>1
  <1>5. Len(a) = Len(b)
    BY <1>0, <1>2, <1>3
  <1>6. a = b
    BY <1>2, <1>3, <1>4, <1>5, SameSeq
  <1> QED
    BY <1>6 DEF a, b, c

-----------------------------------------------------------------------------
(* The stream.                                                             *)

\* A set that has 0 and the successor of each of its elements has all.
LEMMA Induction ==
    ASSUME NEW T, 0 \in T, \A n \in Nat : n \in T => n + 1 \in T
    PROVE  Nat \subseteq T
  <1> DEFINE R == OpToRel(<, Nat)
             Missing == Nat \ T
  <1>1. \A x, y \in Nat : x < y => <<x, y>> \in R
    BY DEF OpToRel
  <1> SUFFICES ASSUME Missing # {} PROVE FALSE
    OBVIOUS
  <1>2. IsWellFoundedOn(R, Nat)
    BY NatLessThanWellFounded
  <1> HIDE DEF R
  <1>3. PICK n \in Missing : \A m \in Missing : ~(<<m, n>> \in R)
    <2>1. Missing \subseteq Nat
      OBVIOUS
    <2> HIDE DEF Missing
    <2> QED
      BY <1>2, <2>1, WFMin
  <1>4. n \in Nat /\ n # 0 /\ n - 1 \in Nat /\ n - 1 < n
    OBVIOUS
  <1>5. n - 1 \in T
    BY <1>1, <1>3, <1>4
  <1>6. n - 1 + 1 \in T /\ n - 1 + 1 = n
    BY <1>4, <1>5
  <1> QED
    BY <1>6

(* The fields of a request.                                                *)
LEMMA RequestType ==
    ASSUME requests \in Seq(Request), NEW r \in DOMAIN requests
    PROVE  /\ requests[r].head \in Nat /\ requests[r].head >= 1
           /\ requests[r].body \in Nat \cup {NoBody} /\ requests[r].sound \in BOOLEAN
           /\ Size(r) \in Nat /\ r \in Nat /\ r >= 1 /\ r <= Count /\ Count \in Nat
           /\ requests[r].body # NoBody => Size(r) = requests[r].body
           /\ requests[r].body = NoBody => Size(r) = 0
  <1>1. requests[r] \in Request
    OBVIOUS
  <1>2. requests[r].head \in Nat \ {0} /\ requests[r].body \in Nat \cup {NoBody} /\ requests[r].sound \in BOOLEAN
    BY <1>1 DEF Request
  <1>3. r \in 1..Len(requests)
    OBVIOUS
  <1>4. Size(r) \in Nat /\ (requests[r].body # NoBody => Size(r) = requests[r].body)
        /\ (requests[r].body = NoBody => Size(r) = 0)
    BY <1>2 DEF Size, BodySize
  <1> QED
    BY <1>2, <1>3, <1>4 DEF Count

\* The bytes s are what is left of the stream from byte i of request r on.
From(s, r, i) ==
    /\ requests \in Seq(Request) /\ r \in DOMAIN requests /\ i \in Int /\ i <= Size(r)
    /\ s \in Seq(Bytes) /\ Chain(s) /\ s # <<>> /\ s[1] = <<r, i>>

(* It goes on with the bytes of this request.                              *)
LEMMA Run ==
    ASSUME NEW s, NEW r, NEW i, From(s, r, i)
    PROVE  \A k \in Nat : k < Len(s) /\ i + k <= Size(r) => s[k + 1] = <<r, i + k>>
  <1> DEFINE T == {k \in Nat : k < Len(s) /\ i + k <= Size(r) => s[k + 1] = <<r, i + k>>}
  <1>0. i \in Int /\ Size(r) \in Nat /\ Len(s) \in Nat /\ s[1] = <<r, i>>
    BY RequestType DEF From
  <1>1. 0 \in T
    BY <1>0
  <1>2. ASSUME NEW k \in Nat, k \in T PROVE k + 1 \in T
    <2> SUFFICES ASSUME k + 1 < Len(s), i + (k + 1) <= Size(r) PROVE s[(k + 1) + 1] = <<r, i + (k + 1)>>
      OBVIOUS
    <2>1. s[k + 1] = <<r, i + k>>
      BY <1>0, <1>2
    <2>2. k + 1 \in 1..(Len(s) - 1)
      BY <1>0
    <2>3. s[(k + 1) + 1] = NextByte(s[k + 1])
      BY <2>2 DEF From, Chain
    <2>4. NextByte(<<r, i + k>>) = <<r, (i + k) + 1>>
      BY <1>0 DEF NextByte
    <2> QED
      BY <1>0, <2>1, <2>3, <2>4
  <1> HIDE DEF T
  <1>3. Nat \subseteq T
    BY <1>1, <1>2, Induction
  <1> QED
    BY <1>3 DEF T

(* All of its bytes are there.                                             *)
LEMMA Enough ==
    ASSUME NEW s, NEW r, NEW i, From(s, r, i)
    PROVE  Len(s) >= Size(r) - i + 1
  <1>0. i \in Int /\ Size(r) \in Nat /\ Len(s) \in Nat /\ Len(s) >= 1
    BY RequestType DEF From
  <1> SUFFICES ASSUME Len(s) < Size(r) - i + 1 PROVE FALSE
    BY <1>0
  <1> DEFINE k == Len(s) - 1
  <1>1. k \in Nat /\ k < Len(s) /\ i + k <= Size(r) /\ k + 1 = Len(s)
    BY <1>0
  <1>2. s[k + 1] = <<r, i + k>>
    BY <1>1, Run
  <1>3. s[Len(s)] = <<Count, Size(Count)>>
    BY DEF From, Chain
  <1>4. r = Count /\ i + k = Size(Count)
    BY <1>1, <1>2, <1>3
  <1> QED
    BY <1>0, <1>1, <1>4

(* What is left when part of them was taken.                               *)
LEMMA Onward ==
    ASSUME NEW s, NEW r, NEW i, From(s, r, i), NEW k \in Nat, k <= Size(r) - i + 1
    PROVE  Stream(After(k, s), r, Size(r) - (i + k) + 1)
  <1> DEFINE t == After(k, s)
             n == Len(s)
             left == Size(r) - (i + k) + 1
  <1>0. /\ i \in Int /\ Size(r) \in Nat /\ n \in Nat /\ n >= 1 /\ s \in Seq(Bytes) /\ i <= Size(r)
        /\ requests \in Seq(Request) /\ r \in DOMAIN requests
        /\ Count \in Nat /\ r \in 1..Count /\ DOMAIN requests = 1..Count
    BY RequestType DEF From, Count
  <1>1. n >= Size(r) - i + 1 /\ k \in 0..n
    BY <1>0, Enough
  <1>2. t \in Seq(Bytes) /\ Len(t) = n - k /\ \A j \in 1..(n - k) : t[j] = s[k + j]
    BY <1>0, <1>1, AfterIs
  <1>3. \A j \in 1..(n - 1) : s[j + 1] = NextByte(s[j])
    BY DEF From, Chain
  <1>4. s[n] = <<Count, Size(Count)>>
    BY DEF From, Chain
  <1> HIDE DEF t
  <1>5. Chain(t)
    <2>1. ASSUME NEW j \in 1..(Len(t) - 1) PROVE t[j + 1] = NextByte(t[j])
      <3>1. j \in 1..(n - k) /\ j + 1 \in 1..(n - k) /\ k + j \in 1..(n - 1) /\ k + (j + 1) = (k + j) + 1
        BY <1>0, <1>1, <1>2
      <3>2. t[j] = s[k + j] /\ t[j + 1] = s[(k + j) + 1]
        BY <1>2, <3>1
      <3> QED
        BY <1>3, <3>1, <3>2
    <2>2. ASSUME t # <<>> PROVE t[Len(t)] = <<Count, Size(Count)>>
      <3>1. Len(t) \in 1..(n - k) /\ k + Len(t) = n
        BY <1>0, <1>1, <1>2, <2>2
      <3> QED
        BY <1>2, <1>4, <3>1
    <2> QED
      BY <2>1, <2>2 DEF Chain
  <1>6. left \in Nat
    BY <1>0
  <1>7. CASE left > 0
    <2>1. k < n /\ i + k <= Size(r)
      BY <1>0, <1>1, <1>7
    <2>2. s[k + 1] = <<r, i + k>>
      BY <2>1, Run
    <2>3. 1 \in 1..(n - k) /\ Len(t) # 0
      BY <1>0, <1>1, <1>2, <2>1
    <2>4. t # <<>> /\ t[1] = s[k + 1]
      BY <1>2, <2>3
    <2>5. Size(r) - left + 1 = i + k
      BY <1>0
    <2>6. Begins(t, r, left)
      BY <1>7, <2>2, <2>4, <2>5 DEF Begins
    <2> QED
      BY <1>5, <2>6 DEF t, Stream
  <1>8. CASE left = 0
    <2>1. k - 1 \in Nat /\ k - 1 < n /\ i + (k - 1) = Size(r) /\ (k - 1) + 1 = k
      BY <1>0, <1>1, <1>8
    <2>2. s[k] = <<r, Size(r)>>
      <3>1. i + (k - 1) <= Size(r)
        BY <1>0, <2>1
      <3>2. s[(k - 1) + 1] = <<r, i + (k - 1)>>
        BY <2>1, <3>1, Run
      <3> QED
        BY <2>1, <3>2
    <2>3. ~(Size(r) < Size(r))
      BY <1>0
    <2>4. NextByte(s[k]) = <<r + 1, 1 - requests[r + 1].head>>
      BY <2>2, <2>3 DEF NextByte
    <2>5. ASSUME k < n PROVE 1 \in 1..(n - k) /\ t # <<>> /\ t[1] = <<r + 1, 1 - requests[r + 1].head>>
      <3>1. 1 \in 1..(n - k) /\ k \in 1..(n - 1) /\ Len(t) # 0
        BY <1>0, <1>2, <2>1, <2>5
      <3>2. t[1] = s[k + 1] /\ t # <<>>
        BY <1>2, <3>1
      <3> QED
        BY <1>3, <2>4, <3>1, <3>2
    <2>6. CASE r < Count
      <3>1. k # n
        BY <1>0, <1>4, <2>2, <2>6
      <3>2. k < n
        BY <1>0, <1>1, <3>1
      <3>3. Begins(t, r, left)
        BY <1>8, <2>5, <2>6, <3>2 DEF Begins
      <3> QED
        BY <1>5, <3>3 DEF t, Stream
    <2>7. CASE ~(r < Count)
      <3>1. r = Count
        BY <1>0, <2>7
      <3>2. ~(k < n)
        <4> SUFFICES ASSUME k < n PROVE FALSE
          OBVIOUS
        <4>1. t[1] \in Bytes /\ t[1] = <<r + 1, 1 - requests[r + 1].head>>
          BY <1>2, <2>5
        <4>2. r + 1 \in 1..Count
          BY <1>0, <4>1 DEF Bytes
        <4> QED
          BY <1>0, <3>1, <4>2
      <3>3. Len(t) = 0
        BY <1>0, <1>1, <1>2, <3>2
      <3>4. t = <<>>
        BY <1>2, <3>3
      <3>5. Begins(t, r, left)
        BY <1>8, <2>7, <3>4 DEF Begins
      <3> QED
        BY <1>5, <3>5 DEF t, Stream
    <2> QED
      BY <2>6, <2>7
  <1> QED
    BY <1>6, <1>7, <1>8

(* Behind a request comes the head of the next one, and its body.          *)
LEMMA HeadNext ==
    ASSUME requests \in Seq(Request), NEW s \in Seq(Bytes), NEW q \in 0..(Count - 1), Stream(s, q, 0)
    PROVE  /\ q + 1 \in DOMAIN requests
           /\ s # <<>> /\ s[1] = <<q + 1, 1 - requests[q + 1].head>>
           /\ Len(s) >= requests[q + 1].head + Size(q + 1)
           /\ \A j \in 1..Size(q + 1) : s[requests[q + 1].head + j] = <<q + 1, j>>
           /\ \A m \in 0..Size(q + 1) : Stream(After(requests[q + 1].head + m, s), q + 1, Size(q + 1) - m)
  <1> DEFINE r == q + 1
             h == requests[r].head
             i == 1 - h
  <1>1. Count \in Nat /\ r \in DOMAIN requests /\ q < Count
    BY DEF Count
  <1>2. h \in Nat /\ h >= 1 /\ Size(r) \in Nat
    BY <1>1, RequestType
  <1>3. s # <<>> /\ s[1] = <<r, i>> /\ Chain(s)
    BY <1>1 DEF Stream, Begins
  <1> HIDE DEF r, h
  <1>4. From(s, r, i)
    BY <1>1, <1>2, <1>3 DEF From
  <1> HIDE DEF i
  <1>5. Len(s) >= Size(r) - i + 1
    BY <1>4, Enough
  <1>6. Len(s) >= h + Size(r)
    BY <1>2, <1>5 DEF i
  <1>7. ASSUME NEW j \in 1..Size(r) PROVE s[h + j] = <<r, j>>
    <2>1. h + j - 1 \in Nat /\ h + j - 1 < Len(s) /\ i + (h + j - 1) <= Size(r)
          /\ (h + j - 1) + 1 = h + j /\ i + (h + j - 1) = j
      BY <1>2, <1>6 DEF i
    <2>2. s[(h + j - 1) + 1] = <<r, i + (h + j - 1)>>
      BY <1>4, <2>1, Run
    <2> QED
      BY <2>1, <2>2
  <1>8. ASSUME NEW m \in 0..Size(r) PROVE Stream(After(h + m, s), r, Size(r) - m)
    <2>1. h + m \in Nat /\ h + m <= Size(r) - i + 1 /\ Size(r) - (i + (h + m)) + 1 = Size(r) - m
      BY <1>2 DEF i
    <2>2. Stream(After(h + m, s), r, Size(r) - (i + (h + m)) + 1)
      BY <1>4, <2>1, Onward
    <2> QED
      BY <2>1, <2>2
  <1> QED
    BY <1>1, <1>3, <1>6, <1>7, <1>8 DEF r, h, i

(* A body goes on with its next byte.                                      *)
LEMMA BodyNext ==
    ASSUME requests \in Seq(Request), NEW s \in Seq(Bytes), NEW r \in DOMAIN requests,
           NEW left \in 1..Size(r), Stream(s, r, left)
    PROVE  /\ Len(s) >= left
           /\ \A j \in 1..left : s[j] = <<r, Size(r) - left + j>>
           /\ \A m \in 0..left : Stream(After(m, s), r, left - m)
  <1> DEFINE i == Size(r) - left + 1
  <1>1. Size(r) \in Nat /\ left \in Nat /\ left >= 1 /\ left <= Size(r)
    BY RequestType
  <1>2. s # <<>> /\ s[1] = <<r, i>> /\ Chain(s)
    BY <1>1 DEF Stream, Begins
  <1>3. From(s, r, i)
    BY <1>1, <1>2 DEF From
  <1> HIDE DEF i
  <1>4. Len(s) >= Size(r) - i + 1
    BY <1>3, Enough
  <1>5. Len(s) >= left
    BY <1>1, <1>4 DEF i
  <1>6. ASSUME NEW j \in 1..left PROVE s[j] = <<r, Size(r) - left + j>>
    <2>1. j - 1 \in Nat /\ j - 1 < Len(s) /\ i + (j - 1) <= Size(r)
          /\ (j - 1) + 1 = j /\ i + (j - 1) = Size(r) - left + j
      BY <1>1, <1>5 DEF i
    <2>2. s[(j - 1) + 1] = <<r, i + (j - 1)>>
      BY <1>3, <2>1, Run
    <2> QED
      BY <2>1, <2>2
  <1>7. ASSUME NEW m \in 0..left PROVE Stream(After(m, s), r, left - m)
    <2>1. m \in Nat /\ m <= Size(r) - i + 1 /\ Size(r) - (i + m) + 1 = left - m
      BY <1>1 DEF i
    <2>2. Stream(After(m, s), r, Size(r) - (i + m) + 1)
      BY <1>3, <2>1, Onward
    <2> QED
      BY <2>1, <2>2
  <1> QED
    BY <1>5, <1>6, <1>7

\* h[r] is the bytes of the first r requests of qs, for r up to n.
BytesUpTo(qs, n, h) == h = [r \in 0..n |-> IF r = 0 THEN <<>> ELSE h[r - 1] \o BytesOf(qs, r)]

(* The bytes of one request more can always be put behind the others.      *)
LEMMA OneRequestMore ==
    ASSUME NEW qs, NEW n \in Nat, NEW g, BytesUpTo(qs, n, g)
    PROVE  \E h : BytesUpTo(qs, n + 1, h)
  <1> DEFINE h == [r \in 0..(n + 1) |-> IF r = n + 1 THEN g[n] \o BytesOf(qs, n + 1) ELSE g[r]]
             k == [r \in 0..(n + 1) |-> IF r = 0 THEN <<>> ELSE h[r - 1] \o BytesOf(qs, r)]
  <1>1. ASSUME NEW r \in 0..(n + 1) PROVE h[r] = k[r]
    <2>1. CASE r = n + 1
      <3>1. n \in 0..(n + 1) /\ n # n + 1 /\ n + 1 \in 0..(n + 1) /\ n + 1 # 0 /\ r - 1 = n
        BY <2>1
      <3>2. h[n] = g[n] /\ h[r] = g[n] \o BytesOf(qs, n + 1)
        BY <2>1, <3>1
      <3>3. k[r] = h[n] \o BytesOf(qs, n + 1)
        BY <2>1, <3>1
      <3> QED
        BY <3>2, <3>3
    <2>2. CASE r # n + 1
      <3>1. r \in 0..n /\ (r # 0 => r - 1 \in 0..n /\ r - 1 \in 0..(n + 1) /\ r - 1 # n + 1)
        BY <2>2
      <3>2. g[r] = IF r = 0 THEN <<>> ELSE g[r - 1] \o BytesOf(qs, r)
        BY <3>1 DEF BytesUpTo
      <3> QED
        BY <2>2, <3>1, <3>2
    <2> QED
      BY <2>1, <2>2
  <1>2. h = k
    BY <1>1
  <1> QED
    BY <1>2 DEF BytesUpTo

(* So the recursion that defines RequestBytes defines something.           *)
LEMMA BytesExist == ASSUME NEW qs PROVE \A n \in Nat : \E h : BytesUpTo(qs, n, h)
  <1> DEFINE T == {n \in Nat : \E h : BytesUpTo(qs, n, h)}
  <1>1. 0 \in T
    <2>1. BytesUpTo(qs, 0, [r \in 0..0 |-> <<>>])
      BY DEF BytesUpTo
    <2> QED
      BY <2>1
  <1>2. \A n \in Nat : n \in T => n + 1 \in T
    BY OneRequestMore
  <1> HIDE DEF T
  <1>3. Nat \subseteq T
    BY <1>1, <1>2, Induction
  <1> QED
    BY <1>3 DEF T

\* The bytes b of the first r requests.
Upto(b, r) ==
    /\ b \in Seq(Bytes)
    /\ \A j \in 1..(Len(b) - 1) : b[j + 1] = NextByte(b[j])
    /\ IF r = 0 THEN b = <<>>
       ELSE b # <<>> /\ b[1] = <<1, 1 - requests[1].head>> /\ b[Len(b)] = <<r, Size(r)>>

(* The bytes of one request come one behind the other.                     *)
LEMMA BytesOfIs ==
    ASSUME requests \in Seq(Request), NEW r \in DOMAIN requests
    PROVE  /\ BytesOf(requests, r) \in Seq(Bytes)
           /\ Len(BytesOf(requests, r)) = requests[r].head + Size(r)
           /\ \A j \in 1..(requests[r].head + Size(r)) : BytesOf(requests, r)[j] = <<r, j - requests[r].head>>
  <1> DEFINE n == requests[r].head + Size(r)
  <1>1. requests[r].head \in Nat /\ n \in Nat
    BY RequestType
  <1>2. BytesOf(requests, r) = [j \in 1..n |-> <<r, j - requests[r].head>>]
    BY DEF BytesOf, Size
  <1>3. \A j \in 1..n : <<r, j - requests[r].head>> \in Bytes
    BY <1>1 DEF Bytes
  <1> HIDE DEF n
  <1>4. BytesOf(requests, r) \in Seq(Bytes) /\ Len(BytesOf(requests, r)) = n
        /\ \A j \in 1..n : BytesOf(requests, r)[j] = <<r, j - requests[r].head>>
    BY <1>1, <1>2, <1>3
  <1> QED
    BY <1>4 DEF n

(* And they come behind those of the requests before it.                   *)
LEMMA UptoNext ==
    ASSUME requests \in Seq(Request), NEW b, NEW r \in Nat, r + 1 \in DOMAIN requests, Upto(b, r)
    PROVE  Upto(b \o BytesOf(requests, r + 1), r + 1)
  <1> DEFINE q == r + 1
             t == BytesOf(requests, q)
             h == requests[q].head
             n == h + Size(q)
             m == Len(b)
             s == b \o t
  <1>1. h \in Nat /\ h >= 1 /\ Size(q) \in Nat /\ n \in Nat /\ n >= 1 /\ q \in DOMAIN requests
    BY RequestType
  <1>2. t \in Seq(Bytes) /\ Len(t) = n /\ \A j \in 1..n : t[j] = <<q, j - h>>
    BY <1>1, BytesOfIs
  <1>3. b \in Seq(Bytes) /\ m \in Nat
    BY DEF Upto
  <1> HIDE DEF t, h
  <1>4. s \in Seq(Bytes) /\ Len(s) = m + n
    <2>0. b \in Seq(Bytes) /\ t \in Seq(Bytes)
      BY <1>2, <1>3
    <2>1. s \in Seq(Bytes) /\ Len(s) = Len(b) + Len(t)
      BY <2>0
    <2> QED
      BY <1>2, <2>1
  <1>5. /\ \A j \in 1..m : s[j] = b[j]
        /\ \A j \in 1..n : s[m + j] = <<q, j - h>>
    <2>1. \A j \in 1..m : s[j] = b[j]
      BY <1>2, <1>3
    <2>2. ASSUME NEW j \in 1..n PROVE s[m + j] = <<q, j - h>>
      <3>1. s[m + j] = t[j]
        BY <1>2, <1>3, <1>1
      <3> QED
        BY <1>2, <3>1
    <2> QED
      BY <2>1, <2>2
  <1> HIDE DEF s
  <1>6. r = 0 => m = 0
    BY DEF Upto
  <1>7. r # 0 => m >= 1 /\ b[1] = <<1, 1 - requests[1].head>> /\ b[m] = <<r, Size(r)>>
    BY <1>3 DEF Upto
  <1>8. s # <<>> /\ s[Len(s)] = <<q, Size(q)>>
    <2>1. n \in 1..n /\ n - h = Size(q)
      BY <1>1
    <2> QED
      BY <1>1, <1>3, <1>4, <1>5, <2>1
  <1>9. s[1] = <<1, 1 - requests[1].head>>
    <2>1. CASE r = 0
      <3>1. 1 \in 1..n /\ m + 1 = 1 /\ q = 1
        BY <1>1, <1>6, <2>1
      <3> QED
        BY <1>5, <3>1 DEF h
    <2>2. CASE r # 0
      BY <1>5, <1>7, <1>3, <2>2
    <2> QED
      BY <2>1, <2>2
  <1>10. ASSUME NEW j \in 1..(Len(s) - 1) PROVE s[j + 1] = NextByte(s[j])
    <2>1. CASE j < m
      <3>1. j \in 1..(m - 1) /\ j \in 1..m /\ j + 1 \in 1..m
        BY <1>3, <2>1
      <3>2. b[j + 1] = NextByte(b[j])
        BY <3>1 DEF Upto
      <3> QED
        BY <1>5, <3>1, <3>2
    <2>2. CASE j = m
      <3>1. r # 0 /\ j \in 1..m /\ 1 \in 1..n
        BY <1>1, <1>6, <2>2
      <3>2. s[j] = <<r, Size(r)>> /\ s[j + 1] = <<q, 1 - h>>
        BY <1>5, <1>7, <2>2, <3>1
      <3>3. r \in DOMAIN requests /\ Size(r) \in Nat
        <4>1. r \in DOMAIN requests
          BY <3>1
        <4> QED
          BY <4>1, RequestType
      <3>4. NextByte(<<r, Size(r)>>) = <<q, 1 - h>>
        BY <3>3 DEF NextByte, h
      <3> QED
        BY <3>2, <3>4
    <2>3. CASE j > m
      <3> DEFINE i == j - m
      <3>1. i \in 1..(n - 1) /\ i \in 1..n /\ i + 1 \in 1..n /\ m + i = j /\ m + (i + 1) = j + 1
        BY <1>1, <1>3, <1>4, <2>3
      <3>2. s[j] = <<q, i - h>> /\ s[j + 1] = <<q, (i + 1) - h>>
        BY <1>5, <3>1
      <3>3. i - h < Size(q) /\ (i - h) + 1 = (i + 1) - h
        BY <1>1, <3>1
      <3>4. NextByte(<<q, i - h>>) = <<q, (i - h) + 1>>
        BY <3>3 DEF NextByte
      <3> QED
        BY <3>2, <3>3, <3>4
    <2> QED
      BY <1>3, <2>1, <2>2, <2>3
  <1>11. q # 0 /\ Upto(s, q)
    BY <1>4, <1>8, <1>9, <1>10 DEF Upto
  <1> QED
    BY <1>11 DEF s, t

(* What the peer sends is a stream that begins with the first head.        *)
LEMMA StreamStarts ==
    ASSUME requests \in Seq(Request)
    PROVE  RequestBytes(requests) \in Seq(Bytes) /\ Stream(RequestBytes(requests), 0, 0)
  <1> DEFINE h == CHOOSE h : h = [r \in 0..Len(requests) |-> IF r = 0 THEN <<>> ELSE h[r - 1] \o BytesOf(requests, r)]
             T == {r \in Nat : r <= Count => Upto(h[r], r)}
  <1>1. Count \in Nat /\ DOMAIN requests = 1..Count /\ Count = Len(requests)
    BY DEF Count
  <1>2. h = [r \in 0..Len(requests) |-> IF r = 0 THEN <<>> ELSE h[r - 1] \o BytesOf(requests, r)]
    BY <1>1, BytesExist DEF BytesUpTo
  <1>3. RequestBytes(requests) = h[Count]
    BY DEF RequestBytes, Count
  <1> HIDE DEF h
  <1>4. 0 \in T
    <2>1. h[0] = <<>>
      BY <1>1, <1>2
    <2>2. <<>> \in Seq(Bytes) /\ Len(<<>>) = 0
      OBVIOUS
    <2>3. \A j \in 1..(0 - 1) : FALSE
      OBVIOUS
    <2>4. Upto(<<>>, 0)
      BY <2>2, <2>3 DEF Upto
    <2> QED
      BY <2>1, <2>4
  <1>5. ASSUME NEW r \in Nat, r \in T PROVE r + 1 \in T
    <2> SUFFICES ASSUME r + 1 <= Count PROVE Upto(h[r + 1], r + 1)
      OBVIOUS
    <2>1. Upto(h[r], r)
      BY <1>1, <1>5
    <2>2. r + 1 \in DOMAIN requests /\ r + 1 \in 0..Len(requests) /\ r + 1 # 0 /\ (r + 1) - 1 = r
      BY <1>1
    <2>3. h[r + 1] = h[r] \o BytesOf(requests, r + 1)
      BY <1>2, <2>2
    <2> QED
      BY <2>1, <2>2, <2>3, UptoNext
  <1> HIDE DEF T
  <1>6. Nat \subseteq T
    BY <1>4, <1>5, Induction
  <1>7. Upto(h[Count], Count)
    BY <1>1, <1>6 DEF T
  <1> DEFINE s == h[Count]
  <1>8. s \in Seq(Bytes) /\ \A j \in 1..(Len(s) - 1) : s[j + 1] = NextByte(s[j])
    BY <1>7 DEF Upto
  <1>9. s # <<>> => s[Len(s)] = <<Count, Size(Count)>>
    BY <1>7 DEF Upto
  <1>10. Begins(s, 0, 0)
    BY <1>1, <1>7 DEF Upto, Begins
  <1> QED
    BY <1>3, <1>8, <1>9, <1>10 DEF Stream, Chain

-----------------------------------------------------------------------------
(* HttpResponse: what each function does to a connection.                  *)

NewPiece(r, kind, first, last) == [r |-> r, kind |-> kind, first |-> first, last |-> last]

\* The log with one piece more.
Said(l, p) == [l EXCEPT !.out = Append(l.out, p)]

(* A connection is made of its parts.                                      *)
LEMMA ConnParts ==
    ASSUME requests \in Seq(Request), NEW c \in Conns
    PROVE  c.http \in Https /\ c.log \in Logs /\ c.http.current \in Int /\ c.http.offset \in Nat
  <1>1. c.http \in Https /\ c.log \in Logs
    BY DEF Conns
  <1>2. c.http.current \in Owner /\ c.http.offset \in Nat
    BY <1>1 DEF Https
  <1> QED
    BY <1>1, <1>2 DEF Owner

(* Another http for a connection.                                          *)
LEMMA WithHttp ==
    ASSUME NEW c \in Conns, NEW h \in Https
    PROVE  [c EXCEPT !.http = h] \in Conns /\ [c EXCEPT !.http = h].http = h /\ [c EXCEPT !.http = h].log = c.log
  BY DEF Conns

(* Another log for a connection.                                           *)
LEMMA WithLog ==
    ASSUME NEW c \in Conns, NEW l \in Logs
    PROVE  [c EXCEPT !.log = l] \in Conns /\ [c EXCEPT !.log = l].http = c.http /\ [c EXCEPT !.log = l].log = l
  BY DEF Conns

(* One piece more keeps the log what it is.                                *)
LEMMA SaidType ==
    ASSUME NEW l \in Logs, NEW p \in Pieces
    PROVE  /\ Said(l, p) \in Logs
           /\ Said(l, p).out = Append(l.out, p)
           /\ Said(l, p).seen = l.seen /\ Said(l, p).body = l.body
           /\ Said(l, p).fins = l.fins /\ Said(l, p).aborted = l.aborted
  <1>1. l.out \in Seq(Pieces)
    BY DEF Logs
  <1>2. Append(l.out, p) \in Seq(Pieces)
    BY <1>1
  <1>3. Said(l, p) \in Logs
    BY <1>2 DEF Said, Logs
  <1> QED
    BY <1>3 DEF Said, Logs

(* A piece of a request.                                                   *)
LEMMA NewPieceType ==
    ASSUME NEW r \in Int, NEW kind \in PieceKinds, NEW first \in Int, NEW last \in Int
    PROVE  /\ NewPiece(r, kind, first, last) \in Pieces
           /\ NewPiece(r, kind, first, last).r = r /\ NewPiece(r, kind, first, last).kind = kind
           /\ NewPiece(r, kind, first, last).first = first /\ NewPiece(r, kind, first, last).last = last
  BY DEF NewPiece, Pieces

(* Piece appends to the answers.                                           *)
LEMMA PieceIs ==
    ASSUME requests \in Seq(Request), NEW c \in Conns, NEW kind \in PieceKinds, NEW first \in Int, NEW last \in Int
    PROVE  /\ Piece(c, kind, first, last) \in Conns
           /\ Piece(c, kind, first, last).http = c.http
           /\ Piece(c, kind, first, last).log = Said(c.log, NewPiece(c.http.current, kind, first, last))
  <1> DEFINE p == NewPiece(c.http.current, kind, first, last)
  <1>1. p \in Pieces
    BY ConnParts, NewPieceType
  <1>2. Said(c.log, p) \in Logs
    BY <1>1, ConnParts, SaidType
  <1>3. Piece(c, kind, first, last) = [c EXCEPT !.log = Said(c.log, p)]
    BY DEF Piece, Said, NewPiece, Conns
  <1> QED
    BY <1>2, <1>3, WithLog

\* The log when a status, a length or bytes were written, if they have to be.
StatusLog(h, l) == IF "status" \in h.calls THEN l ELSE Said(l, NewPiece(h.current, "status", 0, 0))
LengthLog(h, l, total) == IF "end" \in h.calls THEN l ELSE Said(l, NewPiece(h.current, "length", 0, total))
DataLog(h, l, first, last) == IF last < first THEN l ELSE Said(l, NewPiece(h.current, "data", first, last))

(* WriteStatus writes one status.                                          *)
LEMMA WriteStatusIs ==
    ASSUME requests \in Seq(Request), NEW c \in Conns
    PROVE  /\ WriteStatus(c) \in Conns
           /\ WriteStatus(c).http = [c.http EXCEPT !.calls = c.http.calls \cup {"status"}]
           /\ WriteStatus(c).log = StatusLog(c.http, c.log)
  <1> DEFINE h == [c.http EXCEPT !.calls = c.http.calls \cup {"status"}]
             d == Piece(c, "status", 0, 0)
  <1>1. c.http \in Https
    BY ConnParts
  <1>2. h \in Https
    BY <1>1 DEF Https
  <1>3. CASE "status" \in c.http.calls
    <2>1. c.http.calls \cup {"status"} = c.http.calls
      BY <1>3
    <2>2. h = c.http
      BY <1>1, <2>1 DEF Https
    <2> QED
      BY <1>3, <2>2 DEF WriteStatus, StatusLog
  <1>4. CASE "status" \notin c.http.calls
    <2>1. d \in Conns /\ d.http = c.http /\ d.log = Said(c.log, NewPiece(c.http.current, "status", 0, 0))
      <3>1. "status" \in PieceKinds
        BY DEF PieceKinds
      <3> QED
        BY <3>1, PieceIs
    <2>2. WriteStatus(c) = [d EXCEPT !.http.calls = d.http.calls \cup {"status"}]
      BY <1>4 DEF WriteStatus, Mark
    <2> HIDE DEF d
    <2>3. WriteStatus(c) = [d EXCEPT !.http = h]
      BY <2>1, <2>2 DEF Conns
    <2>4. h = [c.http EXCEPT !.calls = c.http.calls \cup {"status"}]
      OBVIOUS
    <2> HIDE DEF h
    <2>5. WriteStatus(c) \in Conns /\ WriteStatus(c).http = h /\ WriteStatus(c).log = d.log
      BY <1>2, <2>1, <2>3, WithHttp
    <2> QED
      BY <1>4, <2>1, <2>4, <2>5 DEF StatusLog
  <1> QED
    BY <1>3, <1>4

(* WriteLength writes one length.                                          *)
LEMMA WriteLengthIs ==
    ASSUME requests \in Seq(Request), NEW c \in Conns, NEW total \in Int
    PROVE  /\ WriteLength(c, total) \in Conns
           /\ WriteLength(c, total).http = [c.http EXCEPT !.calls = c.http.calls \cup {"end"}]
           /\ WriteLength(c, total).log = LengthLog(c.http, c.log, total)
  <1> DEFINE h == [c.http EXCEPT !.calls = c.http.calls \cup {"end"}]
             d == Piece(c, "length", 0, total)
  <1>1. c.http \in Https
    BY ConnParts
  <1>2. h \in Https
    BY <1>1 DEF Https
  <1>3. CASE "end" \in c.http.calls
    <2>1. c.http.calls \cup {"end"} = c.http.calls
      BY <1>3
    <2>2. h = c.http
      BY <1>1, <2>1 DEF Https
    <2> QED
      BY <1>3, <2>2 DEF WriteLength, LengthLog
  <1>4. CASE "end" \notin c.http.calls
    <2>1. d \in Conns /\ d.http = c.http /\ d.log = Said(c.log, NewPiece(c.http.current, "length", 0, total))
      <3>1. "length" \in PieceKinds
        BY DEF PieceKinds
      <3> QED
        BY <3>1, PieceIs
    <2>2. WriteLength(c, total) = [d EXCEPT !.http.calls = d.http.calls \cup {"end"}]
      BY <1>4 DEF WriteLength
    <2> HIDE DEF d
    <2>3. WriteLength(c, total) = [d EXCEPT !.http = h]
      BY <2>1, <2>2 DEF Conns
    <2>4. h = [c.http EXCEPT !.calls = c.http.calls \cup {"end"}]
      OBVIOUS
    <2> HIDE DEF h
    <2>5. WriteLength(c, total) \in Conns /\ WriteLength(c, total).http = h /\ WriteLength(c, total).log = d.log
      BY <1>2, <2>1, <2>3, WithHttp
    <2> QED
      BY <1>4, <2>1, <2>4, <2>5 DEF LengthLog
  <1> QED
    BY <1>3, <1>4

(* Data writes the bytes, if there are any.                                *)
LEMMA DataIs ==
    ASSUME requests \in Seq(Request), NEW c \in Conns, NEW first \in Int, NEW last \in Int
    PROVE  /\ Data(c, first, last) \in Conns
           /\ Data(c, first, last).http = c.http
           /\ Data(c, first, last).log = DataLog(c.http, c.log, first, last)
  <1>1. "data" \in PieceKinds
    BY DEF PieceKinds
  <1>2. CASE last < first
    BY <1>2 DEF Data, DataLog
  <1>3. CASE ~(last < first)
    <2>1. Data(c, first, last) = Piece(c, "data", first, last)
      BY <1>3 DEF Data
    <2> QED
      BY <1>1, <1>3, <2>1, PieceIs DEF DataLog
  <1> QED
    BY <1>2, <1>3

(* The timeout is armed or not.                                            *)
LEMMA TimerIs ==
    ASSUME requests \in Seq(Request), NEW c \in Conns, NEW armed \in BOOLEAN
    PROVE  /\ Timer(c, armed) \in Conns
           /\ Timer(c, armed).http = [c.http EXCEPT !.timer = armed] /\ Timer(c, armed).log = c.log
  <1> DEFINE h == [c.http EXCEPT !.timer = armed]
  <1>1. h \in Https
    BY ConnParts DEF Https
  <1>2. Timer(c, armed) = [c EXCEPT !.http = h]
    BY DEF Timer, Conns
  <1> HIDE DEF h
  <1>3. Timer(c, armed) \in Conns /\ Timer(c, armed).http = h /\ Timer(c, armed).log = c.log
    BY <1>1, <1>2, WithHttp
  <1> QED
    BY <1>3 DEF h

(* The response is complete.                                               *)
LEMMA MarkDoneIs ==
    ASSUME requests \in Seq(Request), NEW c \in Conns
    PROVE  /\ MarkDone(c) \in Conns
           /\ MarkDone(c).http = [c.http EXCEPT !.pending = FALSE, !.onAborted = 0, !.onWritable = 0]
           /\ MarkDone(c).log = c.log
  <1> DEFINE h == [c.http EXCEPT !.pending = FALSE, !.onAborted = 0, !.onWritable = 0]
  <1>1. h \in Https
    BY ConnParts DEF Https, Owner
  <1>2. MarkDone(c) = [c EXCEPT !.http = h]
    BY DEF MarkDone, Conns
  <1> HIDE DEF h
  <1>3. MarkDone(c) \in Conns /\ MarkDone(c).http = h /\ MarkDone(c).log = c.log
    BY <1>1, <1>2, WithHttp
  <1> QED
    BY <1>3 DEF h

\* What InternalEnd makes of a connection that has not begun with chunks, and
\* of one that has.
EndHttp(h, total, n, success) ==
    LET g == [h EXCEPT !.calls = h.calls \cup {"status"} \cup {"end"}, !.offset = h.offset + n,
                       !.timer = h.timer \/ ~success \/ h.offset + n = total]
    IN  IF h.offset + n = total THEN [g EXCEPT !.pending = FALSE, !.onAborted = 0, !.onWritable = 0] ELSE g
EndLog(h, l, first, total, n) == DataLog(h, LengthLog(h, StatusLog(h, l), total), first, first + n - 1)

LastHttp(h) == [h EXCEPT !.calls = h.calls \cup {"status"}, !.timer = TRUE, !.pending = FALSE,
                         !.onAborted = 0, !.onWritable = 0]
LastLog(h, l, first, last) == Said(DataLog(h, StatusLog(h, l), first, last), NewPiece(h.current, "last", 0, 0))

(* InternalEnd writes the status and the length if they were not written,  *)
(* and the bytes the socket took; with the last one the answer is complete.*)
LEMMA InternalEndIs ==
    ASSUME requests \in Seq(Request), NEW c \in Conns, NEW first \in Int, NEW last \in Int,
           NEW total \in Int, NEW n \in Nat, "write" \notin c.http.calls
    PROVE  /\ InternalEnd(c, first, last, total, n) \in Conns
           /\ InternalEnd(c, first, last, total, n).http = EndHttp(c.http, total, n, n = last - first + 1)
           /\ InternalEnd(c, first, last, total, n).log = EndLog(c.http, c.log, first, total, n)
  <1> DEFINE begun == WriteStatus(c)
             length == WriteLength(begun, total)
             data == Data(length, first, first + n - 1)
             sent == [data EXCEPT !.http.offset = @ + n]
             success == n = last - first + 1
             atEnd == c.http.offset + n = total
             timed == Timer(sent, c.http.timer \/ ~success \/ atEnd)
             h1 == [c.http EXCEPT !.calls = c.http.calls \cup {"status"}]
             h2 == [h1 EXCEPT !.calls = h1.calls \cup {"end"}]
             h3 == [h2 EXCEPT !.offset = h2.offset + n]
             h4 == [h3 EXCEPT !.timer = c.http.timer \/ ~success \/ atEnd]
             h5 == [h4 EXCEPT !.pending = FALSE, !.onAborted = 0, !.onWritable = 0]
             l1 == StatusLog(c.http, c.log)
             l2 == LengthLog(h1, l1, total)
             l3 == DataLog(h2, l2, first, first + n - 1)
  <1>0. c.http \in Https /\ c.http.timer \in BOOLEAN /\ c.http.offset \in Nat
    BY ConnParts DEF Https
  <1>1. begun \in Conns /\ begun.http = h1 /\ begun.log = l1
    BY WriteStatusIs
  <1>2. length \in Conns /\ length.http = h2 /\ length.log = l2
    <2> HIDE DEF begun
    <2>1. length \in Conns /\ length.http = [begun.http EXCEPT !.calls = begun.http.calls \cup {"end"}]
          /\ length.log = LengthLog(begun.http, begun.log, total)
      BY <1>1, WriteLengthIs
    <2> QED
      BY <1>1, <2>1
  <1>3. data \in Conns /\ data.http = h2 /\ data.log = l3
    <2> HIDE DEF length
    <2>1. first + n - 1 \in Int
      OBVIOUS
    <2>2. data \in Conns /\ data.http = length.http /\ data.log = DataLog(length.http, length.log, first, first + n - 1)
      BY <1>2, <2>1, DataIs
    <2> QED
      BY <1>2, <2>2
  <1>4. h1 \in Https /\ h2 \in Https /\ h3 \in Https /\ h2.offset = c.http.offset
        /\ h3.timer = c.http.timer /\ h3.offset = c.http.offset + n
    <2>1. c.http.calls \in SUBSET {"status", "write", "end"}
      BY <1>0 DEF Https
    <2>2. h1 \in Https /\ h1.calls \in SUBSET {"status", "write", "end"}
          /\ h1.offset = c.http.offset /\ h1.timer = c.http.timer
      BY <1>0, <2>1 DEF Https
    <2> HIDE DEF h1
    <2>3. h2 \in Https /\ h2.offset = c.http.offset /\ h2.timer = c.http.timer
      BY <2>2 DEF Https
    <2> HIDE DEF h2
    <2>4. c.http.offset + n \in Nat
      BY <1>0
    <2>5. h3 \in Https /\ h3.offset = h2.offset + n /\ h3.timer = h2.timer
      BY <2>3, <2>4 DEF Https
    <2> QED
      BY <2>2, <2>3, <2>5
  <1>5. sent \in Conns /\ sent.http = h3 /\ sent.log = l3
    <2> HIDE DEF data, h2, l3
    <2>1. sent = [data EXCEPT !.http = h3]
      BY <1>3 DEF Conns
    <2> HIDE DEF sent, h3
    <2>2. sent \in Conns /\ sent.http = h3 /\ sent.log = data.log
      BY <1>3, <1>4, <2>1, WithHttp
    <2> QED
      BY <1>3, <2>2
  <1>6. timed \in Conns /\ timed.http = h4 /\ timed.log = l3
    <2> HIDE DEF sent, h3, l3
    <2>1. (c.http.timer \/ ~success \/ atEnd) \in BOOLEAN
      OBVIOUS
    <2>2. timed \in Conns /\ timed.http = [sent.http EXCEPT !.timer = c.http.timer \/ ~success \/ atEnd]
          /\ timed.log = sent.log
      BY <1>5, <2>1, TimerIs
    <2> QED
      BY <1>5, <2>2
  <1>7. MarkDone(timed) \in Conns /\ MarkDone(timed).http = h5 /\ MarkDone(timed).log = l3
    <2> HIDE DEF timed, h4, l3
    <2> QED
      BY <1>6, MarkDoneIs
  <1>8. InternalEnd(c, first, last, total, n) = IF atEnd THEN MarkDone(timed) ELSE timed
    <2>1. sent.http.timer = c.http.timer /\ (sent.http.offset = total <=> atEnd)
      <3> HIDE DEF sent
      <3> QED
        BY <1>4, <1>5
    <2>2. InternalEnd(c, first, last, total, n) =
            LET t == Timer(sent, sent.http.timer \/ ~success \/ sent.http.offset = total)
            IN  IF sent.http.offset = total THEN MarkDone(t) ELSE t
      BY DEF InternalEnd
    <2> HIDE DEF sent
    <2>3. CASE atEnd
      BY <2>1, <2>2, <2>3
    <2>4. CASE ~atEnd
      BY <2>1, <2>2, <2>4
    <2> QED
      BY <2>3, <2>4
  <1>9. l3 = EndLog(c.http, c.log, first, total, n)
    <2>1. h1.current = c.http.current /\ h2.current = c.http.current
          /\ ("end" \in h1.calls <=> "end" \in c.http.calls)
      BY <1>0 DEF Https
    <2> HIDE DEF h1, h2
    <2> QED
      BY <2>1 DEF EndLog, LengthLog, DataLog
  <1>10. EndHttp(c.http, total, n, success) = IF atEnd THEN h5 ELSE h4
    <2>1. [c.http EXCEPT !.calls = c.http.calls \cup {"status"} \cup {"end"}, !.offset = c.http.offset + n,
                         !.timer = c.http.timer \/ ~success \/ atEnd] = h4
      BY <1>0 DEF Https
    <2> HIDE DEF h4
    <2> QED
      BY <2>1 DEF EndHttp
  <1> HIDE DEF timed, l3, h4, h5, success
  <1>11. CASE atEnd
    BY <1>7, <1>8, <1>9, <1>10, <1>11 DEF success
  <1>12. CASE ~atEnd
    BY <1>6, <1>8, <1>9, <1>10, <1>12 DEF success
  <1> QED
    BY <1>11, <1>12

(* When there were chunks it writes the bytes as the last of them.         *)
LEMMA LastEndIs ==
    ASSUME requests \in Seq(Request), NEW c \in Conns, NEW first \in Int, NEW last \in Int,
           NEW total, NEW n, "write" \in c.http.calls
    PROVE  /\ InternalEnd(c, first, last, total, n) \in Conns
           /\ InternalEnd(c, first, last, total, n).http = LastHttp(c.http)
           /\ InternalEnd(c, first, last, total, n).log = LastLog(c.http, c.log, first, last)
  <1> DEFINE begun == WriteStatus(c)
             data == Data(begun, first, last)
             said == Mark(data, "last")
             done == MarkDone(said)
             ended == Timer(done, TRUE)
             h1 == [c.http EXCEPT !.calls = c.http.calls \cup {"status"}]
             h2 == [h1 EXCEPT !.pending = FALSE, !.onAborted = 0, !.onWritable = 0]
             h3 == [h2 EXCEPT !.timer = TRUE]
             l1 == StatusLog(c.http, c.log)
             l2 == DataLog(h1, l1, first, last)
             l3 == Said(l2, NewPiece(h1.current, "last", 0, 0))
  <1>0. c.http \in Https /\ TRUE \in BOOLEAN /\ "last" \in PieceKinds
    BY ConnParts DEF PieceKinds
  <1>1. begun \in Conns /\ begun.http = h1 /\ begun.log = l1
    BY WriteStatusIs
  <1>2. data \in Conns /\ data.http = h1 /\ data.log = l2
    <2> HIDE DEF begun
    <2>1. data \in Conns /\ data.http = begun.http /\ data.log = DataLog(begun.http, begun.log, first, last)
      BY <1>1, DataIs
    <2> QED
      BY <1>1, <2>1
  <1>3. said \in Conns /\ said.http = h1 /\ said.log = l3
    <2> HIDE DEF data
    <2>0. said = Piece(data, "last", 0, 0)
      BY DEF Mark
    <2> HIDE DEF said, h1, l2
    <2>1. said \in Conns /\ said.http = data.http /\ said.log = Said(data.log, NewPiece(data.http.current, "last", 0, 0))
      BY <1>0, <1>2, <2>0, PieceIs
    <2> QED
      BY <1>2, <2>1
  <1>4. done \in Conns /\ done.http = h2 /\ done.log = l3
    <2> HIDE DEF said
    <2>1. done \in Conns /\ done.http = [said.http EXCEPT !.pending = FALSE, !.onAborted = 0, !.onWritable = 0]
          /\ done.log = said.log
      BY <1>3, MarkDoneIs
    <2> QED
      BY <1>3, <2>1
  <1>5. ended \in Conns /\ ended.http = h3 /\ ended.log = l3
    <2> HIDE DEF done
    <2>1. ended \in Conns /\ ended.http = [done.http EXCEPT !.timer = TRUE] /\ ended.log = done.log
      BY <1>0, <1>4, TimerIs
    <2> QED
      BY <1>4, <2>1
  <1>6. InternalEnd(c, first, last, total, n) = ended
    BY DEF InternalEnd
  <1>7. h3 = LastHttp(c.http)
    BY <1>0 DEF Https, LastHttp
  <1>8. l3 = LastLog(c.http, c.log, first, last)
    <2>1. h1.current = c.http.current
      BY <1>0 DEF Https
    <2> HIDE DEF h1
    <2> QED
      BY <2>1 DEF LastLog, DataLog
  <1> HIDE DEF ended, h3, l3
  <1> QED
    BY <1>5, <1>6, <1>7, <1>8

\* What WriteChunk makes of a connection that has had no chunk.
ChunkHttp(h, failed) == [h EXCEPT !.calls = h.calls \cup {"status"} \cup {"write"}, !.timer = h.timer \/ failed]
ChunkLog(h, l) == Said(Said(StatusLog(h, l), NewPiece(h.current, "chunked", 0, 0)), NewPiece(h.current, "data", 1, 1))

(* The first chunk comes behind the status.                                *)
LEMMA WriteChunkIs ==
    ASSUME requests \in Seq(Request), NEW c \in Conns, NEW failed \in BOOLEAN, "write" \notin c.http.calls
    PROVE  /\ WriteChunk(c, 1, 1, failed) \in Conns
           /\ WriteChunk(c, 1, 1, failed).http = ChunkHttp(c.http, failed)
           /\ WriteChunk(c, 1, 1, failed).log = ChunkLog(c.http, c.log)
  <1> DEFINE begun == WriteStatus(c)
             marked == Mark(begun, "chunked")
             chunked == [marked EXCEPT !.http.calls = @ \cup {"write"}]
             written == Data(chunked, 1, 1)
             timed == Timer(written, c.http.timer \/ failed)
             h1 == [c.http EXCEPT !.calls = c.http.calls \cup {"status"}]
             h2 == [h1 EXCEPT !.calls = h1.calls \cup {"write"}]
             h3 == [h2 EXCEPT !.timer = c.http.timer \/ failed]
             l1 == StatusLog(c.http, c.log)
             l2 == Said(l1, NewPiece(h1.current, "chunked", 0, 0))
             l3 == DataLog(h2, l2, 1, 1)
  <1>0. c.http \in Https /\ c.http.timer \in BOOLEAN /\ "chunked" \in PieceKinds
    BY ConnParts DEF Https, PieceKinds
  <1>1. begun \in Conns /\ begun.http = h1 /\ begun.log = l1
    BY WriteStatusIs
  <1>2. marked \in Conns /\ marked.http = h1 /\ marked.log = l2
    <2>1. marked = Piece(begun, "chunked", 0, 0)
      BY DEF Mark
    <2> HIDE DEF begun, marked, h1, l1
    <2>2. /\ marked \in Conns /\ marked.http = begun.http
          /\ marked.log = Said(begun.log, NewPiece(begun.http.current, "chunked", 0, 0))
      BY <1>0, <1>1, <2>1, PieceIs
    <2> QED
      BY <1>1, <2>2
  <1>3. h1 \in Https /\ h2 \in Https
    <2>1. c.http.calls \in SUBSET {"status", "write", "end"}
      BY <1>0 DEF Https
    <2>2. h1 \in Https /\ h1.calls \in SUBSET {"status", "write", "end"}
      BY <1>0, <2>1 DEF Https
    <2> HIDE DEF h1
    <2> QED
      BY <2>2 DEF Https
  <1>4. chunked \in Conns /\ chunked.http = h2 /\ chunked.log = l2
    <2> HIDE DEF marked, h1, l2
    <2>1. chunked = [marked EXCEPT !.http = h2]
      BY <1>2 DEF Conns
    <2> HIDE DEF chunked, h2
    <2>2. chunked \in Conns /\ chunked.http = h2 /\ chunked.log = marked.log
      BY <1>2, <1>3, <2>1, WithHttp
    <2> QED
      BY <1>2, <2>2
  <1>5. written \in Conns /\ written.http = h2 /\ written.log = l3
    <2> HIDE DEF chunked, h2, l2
    <2>1. written \in Conns /\ written.http = chunked.http /\ written.log = DataLog(chunked.http, chunked.log, 1, 1)
      BY <1>4, DataIs
    <2> QED
      BY <1>4, <2>1
  <1>6. timed \in Conns /\ timed.http = h3 /\ timed.log = l3
    <2> HIDE DEF written, h2, l3
    <2>1. (c.http.timer \/ failed) \in BOOLEAN
      OBVIOUS
    <2>2. timed \in Conns /\ timed.http = [written.http EXCEPT !.timer = c.http.timer \/ failed]
          /\ timed.log = written.log
      BY <1>5, <2>1, TimerIs
    <2> QED
      BY <1>5, <2>2
  <1>7. WriteChunk(c, 1, 1, failed) = timed
    BY DEF WriteChunk
  <1>8. h3 = ChunkHttp(c.http, failed)
    BY <1>0 DEF Https, ChunkHttp
  <1>9. l3 = ChunkLog(c.http, c.log)
    <2>1. h1.current = c.http.current /\ h2.current = c.http.current /\ ~(1 < 1)
      BY <1>0 DEF Https
    <2> HIDE DEF h1, h2
    <2> QED
      BY <2>1 DEF ChunkLog, DataLog
  <1> HIDE DEF timed, h3, l3
  <1> QED
    BY <1>6, <1>7, <1>8, <1>9

\* What Upgrade makes of a connection.
UpgradeHttp(h) == [h EXCEPT !.calls = h.calls \cup {"status"}, !.state = "upgraded", !.pending = FALSE]
UpgradeLog(h, l) == Said(StatusLog(h, l), NewPiece(h.current, "switching", 0, 0))

(* 101 goes out, and nothing is pending.                                   *)
LEMMA UpgradeIs ==
    ASSUME requests \in Seq(Request), NEW c \in Conns
    PROVE  /\ Upgrade(c) \in Conns
           /\ Upgrade(c).http = UpgradeHttp(c.http)
           /\ Upgrade(c).log = UpgradeLog(c.http, c.log)
  <1> DEFINE begun == WriteStatus(c)
             marked == Mark(begun, "switching")
             h1 == [c.http EXCEPT !.calls = c.http.calls \cup {"status"}]
             h2 == [h1 EXCEPT !.state = "upgraded", !.pending = FALSE]
             l1 == StatusLog(c.http, c.log)
             l2 == Said(l1, NewPiece(h1.current, "switching", 0, 0))
  <1>0. c.http \in Https /\ "switching" \in PieceKinds
    BY ConnParts DEF PieceKinds
  <1>1. begun \in Conns /\ begun.http = h1 /\ begun.log = l1
    BY WriteStatusIs
  <1>2. marked \in Conns /\ marked.http = h1 /\ marked.log = l2
    <2>1. marked = Piece(begun, "switching", 0, 0)
      BY DEF Mark
    <2> HIDE DEF begun, marked, h1, l1
    <2>2. /\ marked \in Conns /\ marked.http = begun.http
          /\ marked.log = Said(begun.log, NewPiece(begun.http.current, "switching", 0, 0))
      BY <1>0, <1>1, <2>1, PieceIs
    <2> QED
      BY <1>1, <2>2
  <1>3. h2 \in Https
    BY <1>0 DEF Https
  <1>4. Upgrade(c) = [marked EXCEPT !.http = h2]
    <2> HIDE DEF h1, l2
    <2>1. Upgrade(c) = [marked EXCEPT !.http.state = "upgraded", !.http.pending = FALSE]
      BY DEF Upgrade
    <2> HIDE DEF marked
    <2> QED
      BY <1>2, <2>1 DEF Conns
  <1> HIDE DEF marked
  <1>5. Upgrade(c) \in Conns /\ Upgrade(c).http = h2 /\ Upgrade(c).log = l2
    <2> HIDE DEF h1, h2, l2
    <2>1. Upgrade(c) \in Conns /\ Upgrade(c).http = h2 /\ Upgrade(c).log = marked.log
      BY <1>2, <1>3, <1>4, WithHttp
    <2> QED
      BY <1>2, <2>1
  <1>6. h2 = UpgradeHttp(c.http)
    BY <1>0 DEF Https, UpgradeHttp
  <1>7. l2 = UpgradeLog(c.http, c.log)
    BY <1>0 DEF Https, UpgradeLog
  <1> QED
    BY <1>5, <1>6, <1>7

\* What Close makes of a connection.
CloseHttp(h) ==
    [h EXCEPT !.state = "closed", !.timer = FALSE, !.onAborted = 0, !.inStream = 0, !.onWritable = 0,
              !.fallback = <<>>, !.streaming = 0]
CloseLog(h, l) ==
    [l EXCEPT !.aborted = [q \in DOMAIN l.aborted |-> IF q = h.onAborted THEN l.aborted[q] + 1 ELSE l.aborted[q]]]

(* Whoever waits learns of it.                                             *)
LEMMA CloseIs ==
    ASSUME requests \in Seq(Request), NEW c \in Conns
    PROVE  /\ Close(c) \in Conns
           /\ Close(c).http = CloseHttp(c.http)
           /\ Close(c).log = CloseLog(c.http, c.log)
  <1> DEFINE r == c.http.onAborted
             a == [q \in DOMAIN c.log.aborted |-> IF q = r THEN c.log.aborted[q] + 1 ELSE c.log.aborted[q]]
             h == CloseHttp(c.http)
             l == [c.log EXCEPT !.aborted = a]
  <1>1. c.http \in Https /\ c.log \in Logs
    BY ConnParts
  <1>2. r \in Owner /\ c.log.aborted \in [DOMAIN requests -> Nat]
    BY <1>1 DEF Https, Logs
  <1>3. a \in [DOMAIN requests -> Nat]
    BY <1>2
  <1>4. <<>> \in Seq(Bytes) /\ 0 \in Owner
    BY DEF Owner
  <1>5. h \in Https
    BY <1>1, <1>4 DEF Https, CloseHttp
  <1>6. Close(c) = [http |-> h, log |-> l]
    <2>1. Close(c) = [c EXCEPT !.http.state = "closed", !.http.timer = FALSE, !.http.onAborted = 0,
                               !.http.inStream = 0, !.http.onWritable = 0, !.http.fallback = <<>>,
                               !.http.streaming = 0, !.log.aborted = a]
      BY DEF Close
    <2> HIDE DEF a
    <2>2. c = [http |-> c.http, log |-> c.log]
      BY DEF Conns
    <2>3. Close(c).log = l /\ Close(c) = [http |-> Close(c).http, log |-> Close(c).log]
      BY <2>1, <2>2
    <2>4. Close(c).http = h
      BY <2>1, <2>2 DEF CloseHttp
    <2> QED
      BY <2>3, <2>4
  <1> HIDE DEF a
  <1>7. l \in Logs
    BY <1>1, <1>3 DEF Logs
  <1>8. l = CloseLog(c.http, c.log)
    BY DEF CloseLog, a
  <1> HIDE DEF h, l
  <1>9. Close(c) \in Conns /\ Close(c).http = h /\ Close(c).log = l
    BY <1>5, <1>6, <1>7 DEF Conns
  <1> QED
    BY <1>8, <1>9 DEF h

-----------------------------------------------------------------------------
(* The answers.                                                            *)

(* What was written once remains.                                          *)
LEMMA WroteMore ==
    ASSUME NEW out \in Seq(Pieces), NEW p \in Pieces, NEW r, NEW kind
    PROVE  Wrote(Append(out, p), r, kind) <=> Wrote(out, r, kind) \/ (p.r = r /\ p.kind = kind)
  <1> DEFINE t == Append(out, p)
             n == Len(out)
  <1>1. n \in Nat /\ DOMAIN t = 1..(n + 1) /\ DOMAIN out = 1..n
        /\ t[n + 1] = p /\ \A i \in 1..n : t[i] = out[i]
    OBVIOUS
  <1> HIDE DEF t
  <1>2. ASSUME Wrote(t, r, kind) PROVE Wrote(out, r, kind) \/ (p.r = r /\ p.kind = kind)
    <2>1. PICK i \in 1..(n + 1) : t[i].r = r /\ t[i].kind = kind
      BY <1>1, <1>2 DEF Wrote
    <2>2. i \in 1..n \/ i = n + 1
      BY <1>1
    <2> QED
      BY <1>1, <2>1, <2>2 DEF Wrote
  <1>3. ASSUME Wrote(out, r, kind) PROVE Wrote(t, r, kind)
    <2>1. PICK i \in 1..n : out[i].r = r /\ out[i].kind = kind
      BY <1>1, <1>3 DEF Wrote
    <2>2. i \in 1..(n + 1)
      BY <1>1
    <2> QED
      BY <1>1, <2>1, <2>2 DEF Wrote
  <1>4. ASSUME p.r = r, p.kind = kind PROVE Wrote(t, r, kind)
    <2>1. n + 1 \in 1..(n + 1)
      BY <1>1
    <2> QED
      BY <1>1, <1>4, <2>1 DEF Wrote
  <1> QED
    BY <1>2, <1>3, <1>4 DEF t

(* A piece more is an answer to no other request.                          *)
LEMMA AnsweredMore ==
    ASSUME NEW out \in Seq(Pieces), NEW p \in Pieces, NEW r, p.r # r
    PROVE  Answered(Append(out, p), r) <=> Answered(out, r)
  <1> DEFINE t == Append(out, p)
             n == Len(out)
  <1>1. n \in Nat /\ DOMAIN t = 1..(n + 1) /\ DOMAIN out = 1..n
        /\ t[n + 1] = p /\ \A i \in 1..n : t[i] = out[i]
    OBVIOUS
  <1>2. \A kind : Wrote(t, r, kind) <=> Wrote(out, r, kind)
    BY WroteMore
  <1> HIDE DEF t
  <1>3. (\E i \in DOMAIN t : t[i].r = r /\ t[i].kind = "data" /\ t[i].last = ReplySize)
        <=> (\E i \in DOMAIN out : out[i].r = r /\ out[i].kind = "data" /\ out[i].last = ReplySize)
    <2>1. ASSUME NEW i \in 1..(n + 1), t[i].r = r PROVE i \in 1..n
      <3>1. i # n + 1
        BY <1>1, <2>1
      <3> QED
        BY <1>1, <3>1
    <2>2. \A i \in 1..n : i \in 1..(n + 1)
      BY <1>1
    <2> QED
      BY <1>1, <2>1, <2>2
  <1>4. Answered(t, r) <=> Answered(out, r)
    BY <1>2, <1>3 DEF Answered
  <1> QED
    BY <1>4 DEF t

(* A piece that may follow keeps the answers well formed.                  *)
LEMMA WellFormedMore ==
    ASSUME NEW out \in Seq(Pieces), NEW p \in Pieces, WellFormed(out),
           out = <<>> => p.kind = "status",
           out # <<>> => MayFollow(Append(out, p), out[Len(out)], p),
           p.kind = "length" => p.last = ReplySize,
           p.kind = "data" => p.first <= p.last /\ p.last <= ReplySize
    PROVE  WellFormed(Append(out, p))
  <1> DEFINE t == Append(out, p)
             n == Len(out)
  <1>1. n \in Nat /\ DOMAIN t = 1..(n + 1) /\ DOMAIN out = 1..n
        /\ t[n + 1] = p /\ \A i \in 1..n : t[i] = out[i]
    OBVIOUS
  <1>2. \A r, kind : Wrote(out, r, kind) => Wrote(t, r, kind)
    BY WroteMore
  <1> HIDE DEF t
  <1>3. \A a, q : MayFollow(out, a, q) => MayFollow(t, a, q)
    BY <1>2 DEF MayFollow
  <1>4. ASSUME NEW i \in 1..n
        PROVE  /\ IF i = 1 THEN t[1].kind = "status" ELSE MayFollow(t, t[i - 1], t[i])
               /\ t[i].kind = "length" => t[i].last = ReplySize
               /\ t[i].kind = "data" => t[i].first <= t[i].last /\ t[i].last <= ReplySize
    <2>1. /\ IF i = 1 THEN out[1].kind = "status" ELSE MayFollow(out, out[i - 1], out[i])
          /\ out[i].kind = "length" => out[i].last = ReplySize
          /\ out[i].kind = "data" => out[i].first <= out[i].last /\ out[i].last <= ReplySize
      BY <1>1 DEF WellFormed
    <2>2. t[i] = out[i] /\ (i # 1 => i - 1 \in 1..n)
      BY <1>1
    <2>3. CASE i = 1
      BY <2>1, <2>2, <2>3
    <2>4. CASE i # 1
      <3>1. t[i - 1] = out[i - 1]
        BY <1>1, <2>2, <2>4
      <3>2. MayFollow(t, out[i - 1], out[i])
        BY <1>3, <2>1, <2>4
      <3> QED
        BY <2>1, <2>2, <2>4, <3>1, <3>2
    <2> QED
      BY <2>3, <2>4
  <1>5. IF n + 1 = 1 THEN t[1].kind = "status" ELSE MayFollow(t, t[(n + 1) - 1], t[n + 1])
    <2>1. CASE out = <<>>
      <3>1. n = 0
        BY <2>1
      <3> QED
        BY <1>1, <2>1, <3>1
    <2>2. CASE out # <<>>
      <3>1. n \in 1..n /\ n + 1 # 1 /\ (n + 1) - 1 = n
        BY <1>1, <2>2
      <3>2. t[n] = out[n]
        BY <1>1, <3>1
      <3>3. MayFollow(t, out[n], p)
        BY <2>2 DEF t
      <3> QED
        BY <1>1, <3>1, <3>2, <3>3
    <2> QED
      BY <2>1, <2>2
  <1>6. ASSUME NEW i \in 1..(n + 1)
        PROVE  /\ IF i = 1 THEN t[1].kind = "status" ELSE MayFollow(t, t[i - 1], t[i])
               /\ t[i].kind = "length" => t[i].last = ReplySize
               /\ t[i].kind = "data" => t[i].first <= t[i].last /\ t[i].last <= ReplySize
    <2>1. CASE i = n + 1
      BY <1>1, <1>5, <2>1
    <2>2. CASE i # n + 1
      <3>1. i \in 1..n
        BY <1>1, <2>2
      <3> QED
        BY <1>4, <3>1
    <2> QED
      BY <2>1, <2>2
  <1>7. WellFormed(t)
    BY <1>1, <1>6 DEF WellFormed
  <1> QED
    BY <1>7 DEF t

(* The pieces of the answers with one more.                                *)
LEMMA AppendIs ==
    ASSUME NEW out \in Seq(Pieces), NEW p \in Pieces
    PROVE  LET t == Append(out, p)
           IN  /\ t \in Seq(Pieces) /\ t # <<>> /\ t[Len(t)] = p
               /\ \A i \in DOMAIN t : (i \in DOMAIN out /\ t[i] = out[i]) \/ t[i] = p
               /\ out # <<>> => out[Len(out)] \in Pieces /\ Len(out) \in DOMAIN out
  <1> DEFINE t == Append(out, p)
             n == Len(out)
  <1>1. n \in Nat /\ DOMAIN t = 1..(n + 1) /\ DOMAIN out = 1..n /\ t \in Seq(Pieces) /\ Len(t) = n + 1
        /\ t[n + 1] = p /\ \A i \in 1..n : t[i] = out[i]
    OBVIOUS
  <1> HIDE DEF t
  <1>2. t # <<>> /\ t[Len(t)] = p
    BY <1>1
  <1>3. ASSUME NEW i \in DOMAIN t PROVE (i \in DOMAIN out /\ t[i] = out[i]) \/ t[i] = p
    <2>1. i = n + 1 \/ i \in 1..n
      BY <1>1
    <2> QED
      BY <1>1, <2>1
  <1>4. out # <<>> => out[Len(out)] \in Pieces /\ Len(out) \in DOMAIN out
    OBVIOUS
  <1> QED
    BY <1>1, <1>2, <1>3, <1>4 DEF t

(* The fields of a piece.                                                  *)
LEMMA PieceFields ==
    ASSUME NEW out \in Seq(Pieces)
    PROVE  \A i \in DOMAIN out : out[i].r \in Int /\ out[i].kind \in PieceKinds /\ out[i].last \in Int
  <1>1. \A i \in DOMAIN out : out[i] \in Pieces
    OBVIOUS
  <1> QED
    BY <1>1 DEF Pieces

\* What an answer of request q does not change: who else was answered.
Others(out, t, q) == \A r \in Int : r # q => (Answered(t, r) <=> Answered(out, r))

(* A piece of the answer to q changes no other answer.                     *)
LEMMA OthersMore ==
    ASSUME NEW out \in Seq(Pieces), NEW q \in Int, NEW p \in Pieces, p.r = q
    PROVE  Others(out, Append(out, p), q)
  BY AnsweredMore DEF Others

(* The status begins the answer.                                           *)
LEMMA StatusOut ==
    ASSUME NEW out \in Seq(Pieces), NEW q \in Int, Below(out, q),
           NEW p \in Pieces, p.r = q, p.kind = "status"
    PROVE  AtStatus(Append(out, p), q) /\ Append(out, p) \in Seq(Pieces)
  <1> DEFINE t == Append(out, p)
  <1>1. /\ t \in Seq(Pieces) /\ t # <<>> /\ t[Len(t)] = p
        /\ \A i \in DOMAIN t : (i \in DOMAIN out /\ t[i] = out[i]) \/ t[i] = p
        /\ out # <<>> => out[Len(out)] \in Pieces /\ Len(out) \in DOMAIN out
    BY AppendIs
  <1>2. WellFormed(out) /\ \A i \in DOMAIN out : out[i].r < q
    BY DEF Below
  <1>3. \A i \in DOMAIN out : out[i].r \in Int
    BY PieceFields
  <1>4. out # <<>> => MayFollow(t, out[Len(out)], p)
    BY <1>1, <1>2 DEF MayFollow
  <1>5. WellFormed(t)
    BY <1>2, <1>4, WellFormedMore
  <1> HIDE DEF t
  <1>6. ASSUME NEW i \in DOMAIN t PROVE t[i].r <= q /\ (t[i].r = q => t[i].kind = "status")
    BY <1>1, <1>2, <1>3
  <1>7. AtStatus(t, q)
    BY <1>1, <1>5, <1>6 DEF AtStatus
  <1> QED
    BY <1>1, <1>7 DEF t

(* The length comes behind the status.                                     *)
LEMMA LengthOut ==
    ASSUME NEW out \in Seq(Pieces), NEW q \in Int, AtStatus(out, q),
           NEW p \in Pieces, p.r = q, p.kind = "length", p.last = ReplySize
    PROVE  AtByte(Append(out, p), q, 0) /\ Append(out, p) \in Seq(Pieces)
  <1> DEFINE t == Append(out, p)
  <1>1. /\ t \in Seq(Pieces) /\ t # <<>> /\ t[Len(t)] = p
        /\ \A i \in DOMAIN t : (i \in DOMAIN out /\ t[i] = out[i]) \/ t[i] = p
    BY AppendIs
  <1>2. /\ WellFormed(out) /\ \A i \in DOMAIN out : out[i].r <= q
        /\ out # <<>> /\ out[Len(out)].r = q /\ out[Len(out)].kind = "status"
        /\ \A i \in DOMAIN out : out[i].r = q => out[i].kind = "status"
    BY DEF AtStatus
  <1>3. MayFollow(t, out[Len(out)], p)
    BY <1>2 DEF MayFollow
  <1>4. WellFormed(t)
    BY <1>2, <1>3, WellFormedMore
  <1>5. Wrote(t, q, "length")
    BY WroteMore
  <1> HIDE DEF t
  <1>6. ASSUME NEW i \in DOMAIN t
        PROVE  t[i].r <= q /\ (t[i].r = q => t[i].kind # "last" /\ (t[i].kind = "data" => t[i].last <= 0))
    BY <1>1, <1>2
  <1>7. AtByte(t, q, 0)
    BY <1>1, <1>4, <1>5, <1>6 DEF AtByte
  <1> QED
    BY <1>1, <1>7 DEF t

(* Then come the bytes.                                                    *)
LEMMA BytesOut ==
    ASSUME NEW out \in Seq(Pieces), NEW q \in Int, NEW o \in Nat, NEW n \in Nat \ {0}, o + n <= ReplySize,
           AtByte(out, q, o),
           NEW p \in Pieces, p.r = q, p.kind = "data", p.first = o + 1, p.last = o + n
    PROVE  AtByte(Append(out, p), q, o + n) /\ Append(out, p) \in Seq(Pieces)
  <1> DEFINE t == Append(out, p)
  <1>1. /\ t \in Seq(Pieces) /\ t # <<>> /\ t[Len(t)] = p
        /\ \A i \in DOMAIN t : (i \in DOMAIN out /\ t[i] = out[i]) \/ t[i] = p
    BY AppendIs
  <1>2. /\ WellFormed(out) /\ \A i \in DOMAIN out : out[i].r <= q
        /\ out # <<>> /\ out[Len(out)].r = q /\ Wrote(out, q, "length")
        /\ \/ out[Len(out)].kind = "length" /\ o = 0
           \/ out[Len(out)].kind = "data" /\ out[Len(out)].last = o
        /\ \A i \in DOMAIN out : out[i].r = q =>
              out[i].kind # "last" /\ (out[i].kind = "data" => out[i].last <= o)
    BY DEF AtByte
  <1>3. MayFollow(t, out[Len(out)], p)
    <2>1. o = 0 => p.first = 1
      OBVIOUS
    <2> QED
      BY <1>2, <2>1 DEF MayFollow
  <1>4. WellFormed(t)
    <2>1. p.first <= p.last /\ p.last <= ReplySize
      OBVIOUS
    <2> QED
      BY <1>2, <1>3, <2>1, WellFormedMore
  <1>5. Wrote(t, q, "length")
    BY <1>2, WroteMore
  <1> HIDE DEF t
  <1>6. ASSUME NEW i \in DOMAIN t
        PROVE  t[i].r <= q /\ (t[i].r = q => t[i].kind # "last" /\ (t[i].kind = "data" => t[i].last <= o + n))
    <2>1. CASE i \in DOMAIN out /\ t[i] = out[i]
      <3>1. out[i].last \in Int
        BY <2>1, PieceFields
      <3> QED
        BY <1>2, <2>1, <3>1
    <2>2. CASE t[i] = p
      BY <2>2
    <2> QED
      BY <1>1, <2>1, <2>2
  <1>7. AtByte(t, q, o + n)
    BY <1>1, <1>4, <1>5, <1>6 DEF AtByte
  <1> QED
    BY <1>1, <1>7 DEF t

(* With the last byte the request is answered, and not before.             *)
LEMMA BytesAnswer ==
    ASSUME HttpAssumption, NEW out \in Seq(Pieces), NEW q, NEW o \in Nat, o <= ReplySize, AtByte(out, q, o)
    PROVE  Answered(out, q) <=> o = ReplySize
  <1>1. ReplySize \in Nat /\ ReplySize # 0
    BY DEF HttpAssumption
  <1>2. CASE o = ReplySize
    <2>1. Len(out) \in DOMAIN out
      BY DEF AtByte
    <2> QED
      BY <1>1, <1>2, <2>1 DEF AtByte, Answered
  <1>3. CASE o # ReplySize
    <2>1. \A i \in DOMAIN out : out[i].r = q =>
              out[i].kind # "last" /\ (out[i].kind = "data" => out[i].last # ReplySize)
      <3>1. \A i \in DOMAIN out : out[i].last \in Int
        BY PieceFields
      <3>2. o < ReplySize
        BY <1>1, <1>3
      <3> QED
        BY <1>1, <3>1, <3>2 DEF AtByte
    <2> QED
      BY <1>3, <2>1 DEF Answered, Wrote
  <1> QED
    BY <1>2, <1>3

(* A chunk, or the mark of the chunks, comes behind the status.            *)
LEMMA ChunkOut ==
    ASSUME HttpAssumption, NEW out \in Seq(Pieces), NEW q \in Int, AtStatus(out, q),
           NEW m \in Pieces, m.r = q, m.kind = "chunked",
           NEW p \in Pieces, p.r = q, p.kind = "data", p.first = 1, p.last = 1
    PROVE  AtChunk(Append(Append(out, m), p), q, 1) /\ Append(Append(out, m), p) \in Seq(Pieces)
  <1> DEFINE u == Append(out, m)
             t == Append(u, p)
  <1>1. /\ u \in Seq(Pieces) /\ u # <<>> /\ u[Len(u)] = m
        /\ \A i \in DOMAIN u : (i \in DOMAIN out /\ u[i] = out[i]) \/ u[i] = m
    BY AppendIs
  <1>2. /\ WellFormed(out) /\ \A i \in DOMAIN out : out[i].r <= q
        /\ out # <<>> /\ out[Len(out)].r = q /\ out[Len(out)].kind = "status"
        /\ \A i \in DOMAIN out : out[i].r = q => out[i].kind = "status"
    BY DEF AtStatus
  <1>3. MayFollow(u, out[Len(out)], m)
    BY <1>2 DEF MayFollow
  <1>4. WellFormed(u)
    BY <1>2, <1>3, WellFormedMore
  <1>5. Wrote(u, q, "chunked")
    BY WroteMore
  <1> HIDE DEF u
  <1>6. \A i \in DOMAIN u : u[i].r <= q /\ (u[i].r = q => u[i].kind \notin {"last", "length"})
    BY <1>1, <1>2
  <1>7. /\ t \in Seq(Pieces) /\ t # <<>> /\ t[Len(t)] = p
        /\ \A i \in DOMAIN t : (i \in DOMAIN u /\ t[i] = u[i]) \/ t[i] = p
    BY <1>1, AppendIs
  <1>8. MayFollow(t, u[Len(u)], p)
    BY <1>1 DEF MayFollow
  <1>9. WellFormed(t)
    <2>1. p.first <= p.last /\ p.last <= ReplySize
      BY DEF HttpAssumption
    <2> QED
      BY <1>1, <1>4, <1>8, <2>1, WellFormedMore
  <1>10. Wrote(t, q, "chunked")
    BY <1>1, <1>5, WroteMore
  <1> HIDE DEF t
  <1>11. \A i \in DOMAIN t : t[i].r <= q /\ (t[i].r = q => t[i].kind \notin {"last", "length"})
    BY <1>6, <1>7
  <1>12. AtChunk(t, q, 1)
    BY <1>7, <1>9, <1>10, <1>11 DEF AtChunk
  <1> QED
    BY <1>7, <1>12 DEF t, u

(* Another one comes behind it.                                            *)
LEMMA ChunkMore ==
    ASSUME NEW out \in Seq(Pieces), NEW q \in Int, NEW o \in Nat, AtChunk(out, q, 1), o >= 2, o <= ReplySize,
           NEW p \in Pieces, p.r = q, p.kind = "data", p.first = 2, p.last = o
    PROVE  AtChunk(Append(out, p), q, o) /\ Append(out, p) \in Seq(Pieces)
  <1> DEFINE t == Append(out, p)
  <1>1. /\ t \in Seq(Pieces) /\ t # <<>> /\ t[Len(t)] = p
        /\ \A i \in DOMAIN t : (i \in DOMAIN out /\ t[i] = out[i]) \/ t[i] = p
    BY AppendIs
  <1>2. /\ WellFormed(out) /\ \A i \in DOMAIN out : out[i].r <= q
        /\ out # <<>> /\ out[Len(out)].r = q /\ out[Len(out)].kind = "data" /\ out[Len(out)].last = 1
        /\ Wrote(out, q, "chunked")
        /\ \A i \in DOMAIN out : out[i].r = q => out[i].kind \notin {"last", "length"}
    BY DEF AtChunk
  <1>3. MayFollow(t, out[Len(out)], p)
    BY <1>2 DEF MayFollow
  <1>4. WellFormed(t)
    <2>1. p.first <= p.last /\ p.last <= ReplySize
      OBVIOUS
    <2> QED
      BY <1>2, <1>3, <2>1, WellFormedMore
  <1>5. Wrote(t, q, "chunked")
    BY <1>2, WroteMore
  <1> HIDE DEF t
  <1>6. \A i \in DOMAIN t : t[i].r <= q /\ (t[i].r = q => t[i].kind \notin {"last", "length"})
    BY <1>1, <1>2
  <1>7. AtChunk(t, q, o)
    BY <1>1, <1>4, <1>5, <1>6 DEF AtChunk
  <1> QED
    BY <1>1, <1>7 DEF t

(* And the end behind the last of them, which answers the request.         *)
LEMMA LastOut ==
    ASSUME NEW out \in Seq(Pieces), NEW q \in Int, NEW o, AtChunk(out, q, o),
           NEW p \in Pieces, p.r = q, p.kind = "last"
    PROVE  /\ WellFormed(Append(out, p)) /\ Append(out, p) \in Seq(Pieces)
           /\ \A i \in DOMAIN Append(out, p) : Append(out, p)[i].r <= q
           /\ Answered(Append(out, p), q)
  <1> DEFINE t == Append(out, p)
  <1>1. /\ t \in Seq(Pieces)
        /\ \A i \in DOMAIN t : (i \in DOMAIN out /\ t[i] = out[i]) \/ t[i] = p
    BY AppendIs
  <1>2. /\ WellFormed(out) /\ \A i \in DOMAIN out : out[i].r <= q
        /\ out # <<>> /\ out[Len(out)].r = q /\ out[Len(out)].kind = "data"
        /\ Wrote(out, q, "chunked")
    BY DEF AtChunk
  <1>3. Wrote(t, q, "chunked") /\ Wrote(t, q, "last")
    BY <1>2, WroteMore
  <1>4. MayFollow(t, out[Len(out)], p)
    BY <1>2, <1>3 DEF MayFollow
  <1>5. WellFormed(t)
    BY <1>2, <1>4, WellFormedMore
  <1> HIDE DEF t
  <1>6. \A i \in DOMAIN t : t[i].r <= q
    BY <1>1, <1>2
  <1>7. Answered(t, q)
    BY <1>3 DEF Answered
  <1> QED
    BY <1>1, <1>5, <1>6, <1>7 DEF t

(* Without an end or all of the bytes it is not answered.                  *)
LEMMA NotAnswered ==
    ASSUME NEW out, NEW q \in Int, NEW o, Below(out, q) \/ AtChunk(out, q, o)
    PROVE  ~Answered(out, q)
  <1>1. CASE Below(out, q)
    BY <1>1 DEF Below, Answered, Wrote
  <1>2. CASE AtChunk(out, q, o)
    BY <1>2 DEF AtChunk, Answered, Wrote
  <1> QED
    BY <1>1, <1>2

(* The switch to another protocol comes behind the status.                 *)
LEMMA SwitchOut ==
    ASSUME NEW out \in Seq(Pieces), NEW q \in Int, AtStatus(out, q),
           NEW p \in Pieces, p.r = q, p.kind = "switching"
    PROVE  WellFormed(Append(out, p)) /\ Append(out, p) \in Seq(Pieces)
  <1>1. WellFormed(out) /\ out # <<>> /\ out[Len(out)].r = q /\ out[Len(out)].kind = "status"
    BY DEF AtStatus
  <1>2. MayFollow(Append(out, p), out[Len(out)], p)
    BY <1>1 DEF MayFollow
  <1>3. WellFormed(Append(out, p))
    BY <1>1, <1>2, WellFormedMore
  <1> QED
    BY <1>3

-----------------------------------------------------------------------------
(* The calls of a handler.                                                 *)

\* What no answer changes.
Untouched(c, d) ==
    /\ d.http.state = c.http.state /\ d.http.fallback = c.http.fallback /\ d.http.streaming = c.http.streaming
    /\ d.http.current = c.http.current /\ d.http.inStream = c.http.inStream
    /\ d.log.seen = c.log.seen /\ d.log.body = c.log.body /\ d.log.fins = c.log.fins
    /\ d.log.aborted = c.log.aborted

\* The answer of the current request of c is complete in d.
Ended(c, d) ==
    /\ d \in Conns /\ Untouched(c, d)
    /\ WellFormed(d.log.out) /\ \A i \in DOMAIN d.log.out : d.log.out[i].r <= c.http.current
    /\ Answered(d.log.out, c.http.current) /\ Others(c.log.out, d.log.out, c.http.current)
    /\ d.http.timer = TRUE /\ d.http.pending = FALSE /\ d.http.onAborted = 0 /\ d.http.onWritable = 0

\* It has gone on, and the request is still waited for.
GoesOn(c, d) ==
    /\ d \in Conns /\ Untouched(c, d)
    /\ Others(c.log.out, d.log.out, c.http.current)
    /\ d.http.pending = c.http.pending /\ d.http.onAborted = c.http.onAborted
    /\ d.http.onWritable = c.http.onWritable

(* The log when the answer goes on to byte o + n.                          *)
LEMMA EndLogIs ==
    ASSUME HttpAssumption, requests \in Seq(Request), NEW c \in Conns, Fresh(c) \/ Partial(c),
           NEW n \in Nat, c.http.offset + n <= ReplySize
    PROVE  LET l == EndLog(c.http, c.log, c.http.offset + 1, ReplySize, n)
           IN  /\ l \in Logs /\ l.seen = c.log.seen /\ l.body = c.log.body /\ l.fins = c.log.fins
               /\ l.aborted = c.log.aborted
               /\ AtByte(l.out, c.http.current, c.http.offset + n)
               /\ Others(c.log.out, l.out, c.http.current)
  <1> DEFINE q == c.http.current
             o == c.http.offset
             l0 == c.log
             l1 == StatusLog(c.http, l0)
             l2 == LengthLog(c.http, l1, ReplySize)
             l3 == DataLog(c.http, l2, o + 1, o + n)
             Same(l) == l \in Logs /\ l.seen = l0.seen /\ l.body = l0.body /\ l.fins = l0.fins
                        /\ l.aborted = l0.aborted /\ Others(l0.out, l.out, q)
  <1>1. q \in Int /\ o \in Nat /\ l0 \in Logs /\ l0.out \in Seq(Pieces)
    BY ConnParts DEF Logs
  <1>2. EndLog(c.http, c.log, o + 1, ReplySize, n) = l3
    <2>1. o \in Int /\ n \in Int
      BY <1>1
    <2> HIDE DEF o
    <2>2. (o + 1) + n - 1 = o + n
      BY <2>1
    <2> QED
      BY <2>2 DEF EndLog, o
  <1>3. Same(l0)
    BY <1>1 DEF Others
  <1>4. Same(l2) /\ AtByte(l2.out, q, o)
    <2>1. CASE Fresh(c)
      <3> DEFINE p1 == NewPiece(q, "status", 0, 0)
                 p2 == NewPiece(q, "length", 0, ReplySize)
      <3>1. ReplySize \in Int /\ {"status", "length"} \subseteq PieceKinds
        BY DEF HttpAssumption, PieceKinds
      <3>2. p1 \in Pieces /\ p1.r = q /\ p1.kind = "status"
        BY <1>1, <3>1, NewPieceType
      <3>3. p2 \in Pieces /\ p2.r = q /\ p2.kind = "length" /\ p2.last = ReplySize
        BY <1>1, <3>1, NewPieceType
      <3>4. l1 = Said(l0, p1) /\ l2 = Said(l1, p2) /\ o = 0 /\ Below(l0.out, q)
        BY <2>1 DEF Fresh, StatusLog, LengthLog
      <3> HIDE DEF p1, p2, l1, l2
      <3>5. l1 \in Logs /\ l1.out = Append(l0.out, p1) /\ l1.seen = l0.seen /\ l1.body = l0.body
            /\ l1.fins = l0.fins /\ l1.aborted = l0.aborted
        BY <1>1, <3>2, <3>4, SaidType
      <3>6. AtStatus(l1.out, q) /\ l1.out \in Seq(Pieces) /\ Others(l0.out, l1.out, q)
        <4>1. AtStatus(Append(l0.out, p1), q) /\ Append(l0.out, p1) \in Seq(Pieces)
          BY <1>1, <3>2, <3>4, StatusOut
        <4>2. Others(l0.out, Append(l0.out, p1), q)
          BY <1>1, <3>2, OthersMore
        <4> QED
          BY <3>5, <4>1, <4>2
      <3>7. l2 \in Logs /\ l2.out = Append(l1.out, p2) /\ l2.seen = l1.seen /\ l2.body = l1.body
            /\ l2.fins = l1.fins /\ l2.aborted = l1.aborted
        BY <3>3, <3>4, <3>5, SaidType
      <3>8. AtByte(l2.out, q, 0) /\ Others(l1.out, l2.out, q)
        <4>1. AtByte(Append(l1.out, p2), q, 0)
          BY <1>1, <3>3, <3>6, LengthOut
        <4>2. Others(l1.out, Append(l1.out, p2), q)
          BY <1>1, <3>3, <3>6, OthersMore
        <4> QED
          BY <3>7, <4>1, <4>2
      <3>9. Others(l0.out, l2.out, q)
        BY <3>6, <3>8 DEF Others
      <3> QED
        BY <3>4, <3>5, <3>7, <3>8, <3>9
    <2>2. CASE Partial(c)
      <3>1. l1 = l0 /\ l2 = l0
        BY <2>2 DEF Partial, StatusLog, LengthLog
      <3> QED
        BY <1>3, <2>2, <3>1 DEF Partial
    <2> QED
      BY <2>1, <2>2
  <1>5. Same(l3) /\ AtByte(l3.out, q, o + n)
    <2> HIDE DEF l2
    <2>1. CASE n = 0
      <3>1. l3 = l2 /\ o + n = o
        BY <1>1, <2>1 DEF DataLog
      <3> QED
        BY <1>4, <3>1
    <2>2. CASE n # 0
      <3> DEFINE p == NewPiece(q, "data", o + 1, o + n)
      <3>0. "data" \in PieceKinds /\ o + 1 \in Int /\ o + n \in Int /\ n \in Nat \ {0} /\ ~(o + n < o + 1)
        BY <1>1, <2>2 DEF PieceKinds
      <3>1. p \in Pieces /\ p.r = q /\ p.kind = "data" /\ p.first = o + 1 /\ p.last = o + n
        <4>1. q \in Int
          BY <1>1
        <4> HIDE DEF q, o
        <4> QED
          BY <3>0, <4>1, NewPieceType
      <3>2. l3 = Said(l2, p)
        BY <3>0 DEF DataLog
      <3> HIDE DEF p, l3
      <3>3. l3 \in Logs /\ l3.out = Append(l2.out, p) /\ l3.seen = l2.seen /\ l3.body = l2.body
            /\ l3.fins = l2.fins /\ l3.aborted = l2.aborted
        BY <1>4, <3>1, <3>2, SaidType
      <3>4. l2.out \in Seq(Pieces)
        BY <1>4 DEF Logs
      <3>5. AtByte(Append(l2.out, p), q, o + n)
        BY <1>1, <1>4, <3>0, <3>1, <3>4, BytesOut
      <3>6. Others(l2.out, Append(l2.out, p), q)
        BY <1>1, <3>1, <3>4, OthersMore
      <3>7. Others(l0.out, l3.out, q)
        BY <1>4, <3>3, <3>6 DEF Others
      <3> QED
        BY <1>4, <3>3, <3>5, <3>7
    <2> QED
      BY <2>1, <2>2
  <1> HIDE DEF l3
  <1> QED
    BY <1>2, <1>5

(* TryEnd writes what the socket takes, from where the answer is.          *)
LEMMA TryEndIs ==
    ASSUME HttpAssumption, requests \in Seq(Request), NEW c \in Conns, Fresh(c) \/ Partial(c),
           NEW n \in Nat, c.http.offset + n <= ReplySize
    PROVE  IF c.http.offset + n = ReplySize THEN Ended(c, TryEnd(c, n))
           ELSE GoesOn(c, TryEnd(c, n)) /\ Partial(TryEnd(c, n)) /\ TryEnd(c, n).http.timer = TRUE
  <1> DEFINE d == TryEnd(c, n)
             q == c.http.current
             o == c.http.offset
             success == n = ReplySize - (o + 1) + 1
             h == EndHttp(c.http, ReplySize, n, success)
             l == EndLog(c.http, c.log, o + 1, ReplySize, n)
  <1>1. c.http \in Https /\ q \in Int /\ o \in Nat /\ ReplySize \in Int /\ o + 1 \in Int
    BY ConnParts DEF HttpAssumption
  <1>2. "write" \notin c.http.calls /\ c.http.calls \cup {"status"} \cup {"end"} = {"status", "end"}
    BY DEF Fresh, Partial
  <1>3. d \in Conns /\ d.http = h /\ d.log = l
    <2>1. d = InternalEnd(c, o + 1, ReplySize, ReplySize, n)
      BY DEF TryEnd
    <2>2. o + 1 \in Int
      BY <1>1
    <2> HIDE DEF d, o
    <2> QED
      BY <1>1, <1>2, <2>1, <2>2, InternalEndIs
  <1>4. /\ l \in Logs /\ l.seen = c.log.seen /\ l.body = c.log.body /\ l.fins = c.log.fins
        /\ l.aborted = c.log.aborted /\ AtByte(l.out, q, o + n) /\ Others(c.log.out, l.out, q)
    BY EndLogIs
  <1> HIDE DEF d, l
  <1>5. Answered(l.out, q) <=> o + n = ReplySize
    <2>1. l.out \in Seq(Pieces) /\ o + n \in Nat
      BY <1>1, <1>4 DEF Logs
    <2> QED
      BY <1>4, <2>1, BytesAnswer
  <1>6. WellFormed(l.out) /\ \A i \in DOMAIN l.out : l.out[i].r <= q
    BY <1>4 DEF AtByte
  <1>7. CASE o + n = ReplySize
    <2>1. /\ h.state = c.http.state /\ h.fallback = c.http.fallback /\ h.streaming = c.http.streaming
          /\ h.current = q /\ h.inStream = c.http.inStream
          /\ h.timer = TRUE /\ h.pending = FALSE /\ h.onAborted = 0 /\ h.onWritable = 0
      BY <1>1, <1>7 DEF Https, EndHttp
    <2> HIDE DEF h
    <2>2. Untouched(c, d)
      BY <1>3, <1>4, <2>1 DEF Untouched
    <2>3. Ended(c, d)
      BY <1>3, <1>4, <1>5, <1>6, <1>7, <2>1, <2>2 DEF Ended
    <2> QED
      BY <1>7, <2>3 DEF d
  <1>8. CASE o + n # ReplySize
    <2>1. success = FALSE
      BY <1>1, <1>8
    <2>2. /\ h.state = c.http.state /\ h.fallback = c.http.fallback /\ h.streaming = c.http.streaming
          /\ h.current = q /\ h.inStream = c.http.inStream
          /\ h.timer = TRUE /\ h.pending = c.http.pending /\ h.onAborted = c.http.onAborted
          /\ h.onWritable = c.http.onWritable /\ h.offset = o + n
          /\ h.calls = c.http.calls \cup {"status"} \cup {"end"}
      BY <1>1, <1>8, <2>1 DEF Https, EndHttp
    <2> HIDE DEF h
    <2>3. Untouched(c, d)
      BY <1>3, <1>4, <2>2 DEF Untouched
    <2>4. GoesOn(c, d)
      BY <1>3, <1>4, <2>2, <2>3 DEF GoesOn
    <2>5. h.offset < ReplySize
      BY <1>1, <1>8, <2>2
    <2>6. AtByte(d.log.out, d.http.current, d.http.offset)
      BY <1>3, <1>4, <2>2
    <2>7. Partial(d)
      BY <1>2, <1>3, <2>2, <2>5, <2>6 DEF Partial
    <2> QED
      BY <1>3, <1>8, <2>2, <2>4, <2>7 DEF d
  <1> QED
    BY <1>7, <1>8

(* End answers at once.                                                    *)
LEMMA EndIs ==
    ASSUME HttpAssumption, requests \in Seq(Request), NEW c \in Conns, Fresh(c)
    PROVE  Ended(c, End(c, 1))
  <1>1. ReplySize \in Nat /\ c.http.offset = 0 /\ c.http.offset + ReplySize = ReplySize
        /\ ReplySize - 1 + 1 = ReplySize /\ c.http.offset + 1 = 1
    BY DEF HttpAssumption, Fresh
  <1>2. End(c, 1) = TryEnd(c, ReplySize)
    BY <1>1 DEF End, TryEnd
  <1>3. ReplySize <= ReplySize
    BY <1>1
  <1>4. Ended(c, TryEnd(c, ReplySize))
    BY <1>1, <1>3, TryEndIs
  <1> QED
    BY <1>2, <1>4

(* The end of an answer in chunks.                                         *)
LEMMA EndChunksIs ==
    ASSUME HttpAssumption, requests \in Seq(Request), NEW c \in Conns, Chunked(c)
    PROVE  Ended(c, End(c, 2))
  <1> DEFINE d == End(c, 2)
             q == c.http.current
             l0 == c.log
             l1 == DataLog(c.http, l0, 2, ReplySize)
             p == NewPiece(q, "last", 0, 0)
             l2 == Said(l1, p)
  <1>1. c.http \in Https /\ q \in Int /\ l0 \in Logs /\ l0.out \in Seq(Pieces) /\ ReplySize \in Nat /\ ReplySize >= 1
        /\ ReplySize \in Int /\ {"last", "data"} \subseteq PieceKinds
    BY ConnParts DEF Logs, HttpAssumption, PieceKinds
  <1>2. "write" \in c.http.calls /\ "status" \in c.http.calls
    BY DEF Chunked
  <1>3. d \in Conns /\ d.http = LastHttp(c.http) /\ d.log = LastLog(c.http, c.log, 2, ReplySize)
    BY <1>1, <1>2, LastEndIs DEF End
  <1>4. d.log = l2
    BY <1>2, <1>3 DEF LastLog, StatusLog
  <1>5. p \in Pieces /\ p.r = q /\ p.kind = "last"
    BY <1>1, NewPieceType
  <1>6. /\ l1 \in Logs /\ l1.seen = l0.seen /\ l1.body = l0.body /\ l1.fins = l0.fins /\ l1.aborted = l0.aborted
        /\ Others(l0.out, l1.out, q) /\ \E o \in Nat : AtChunk(l1.out, q, o)
    <2>1. CASE ReplySize < 2
      <3>1. l1 = l0
        BY <2>1 DEF DataLog
      <3> QED
        BY <1>1, <3>1 DEF Chunked, Others
    <2>2. CASE ~(ReplySize < 2)
      <3> DEFINE m == NewPiece(q, "data", 2, ReplySize)
      <3>1. m \in Pieces /\ m.r = q /\ m.kind = "data" /\ m.first = 2 /\ m.last = ReplySize
        BY <1>1, NewPieceType
      <3>2. l1 = Said(l0, m) /\ ReplySize >= 2 /\ ReplySize <= ReplySize
        BY <1>1, <2>2 DEF DataLog
      <3> HIDE DEF m, l1
      <3>3. l1 \in Logs /\ l1.out = Append(l0.out, m) /\ l1.seen = l0.seen /\ l1.body = l0.body
            /\ l1.fins = l0.fins /\ l1.aborted = l0.aborted
        BY <1>1, <3>1, <3>2, SaidType
      <3>4. AtChunk(Append(l0.out, m), q, ReplySize)
        BY <1>1, <3>1, <3>2, ChunkMore DEF Chunked
      <3>5. Others(l0.out, Append(l0.out, m), q)
        BY <1>1, <3>1, OthersMore
      <3> QED
        BY <1>1, <3>3, <3>4, <3>5
    <2> QED
      BY <2>1, <2>2
  <1> HIDE DEF p, l1
  <1>7. l1.out \in Seq(Pieces)
    BY <1>6 DEF Logs
  <1>8. l2.out = Append(l1.out, p) /\ l2.seen = l0.seen /\ l2.body = l0.body /\ l2.fins = l0.fins
        /\ l2.aborted = l0.aborted
    BY <1>5, <1>6, SaidType
  <1>9. /\ WellFormed(Append(l1.out, p)) /\ \A i \in DOMAIN Append(l1.out, p) : Append(l1.out, p)[i].r <= q
        /\ Answered(Append(l1.out, p), q)
    BY <1>1, <1>5, <1>6, <1>7, LastOut
  <1>10. Others(l1.out, Append(l1.out, p), q)
    BY <1>1, <1>5, <1>7, OthersMore
  <1>11. Others(l0.out, l2.out, q)
    BY <1>6, <1>8, <1>10 DEF Others
  <1> DEFINE h == LastHttp(c.http)
  <1>12. /\ h.state = c.http.state /\ h.fallback = c.http.fallback /\ h.streaming = c.http.streaming
         /\ h.current = q /\ h.inStream = c.http.inStream
         /\ h.timer = TRUE /\ h.pending = FALSE /\ h.onAborted = 0 /\ h.onWritable = 0
    BY <1>1 DEF Https, LastHttp
  <1> HIDE DEF h, l2, d
  <1>13. Untouched(c, d)
    BY <1>3, <1>4, <1>8, <1>12 DEF Untouched, h
  <1>14. Ended(c, d)
    <2>1. d.http = h
      BY <1>3 DEF h
    <2> QED
      BY <1>3, <1>4, <1>8, <1>9, <1>11, <1>12, <1>13, <2>1 DEF Ended
  <1> QED
    BY <1>14 DEF d

(* The status, when nothing of the answer was written.                     *)
LEMMA FreshStatus ==
    ASSUME requests \in Seq(Request), NEW c \in Conns, Fresh(c)
    PROVE  LET l == StatusLog(c.http, c.log)
           IN  /\ l \in Logs /\ l.seen = c.log.seen /\ l.body = c.log.body /\ l.fins = c.log.fins
               /\ l.aborted = c.log.aborted
               /\ AtStatus(l.out, c.http.current) /\ Others(c.log.out, l.out, c.http.current)
  <1> DEFINE q == c.http.current
             p == NewPiece(q, "status", 0, 0)
             l == StatusLog(c.http, c.log)
  <1>1. q \in Int /\ c.log \in Logs /\ c.log.out \in Seq(Pieces) /\ "status" \in PieceKinds
    BY ConnParts DEF Logs, PieceKinds
  <1>2. p \in Pieces /\ p.r = q /\ p.kind = "status"
    BY <1>1, NewPieceType
  <1>3. l = Said(c.log, p) /\ Below(c.log.out, q)
    BY DEF Fresh, StatusLog
  <1> HIDE DEF p, l
  <1>4. l \in Logs /\ l.out = Append(c.log.out, p) /\ l.seen = c.log.seen /\ l.body = c.log.body
        /\ l.fins = c.log.fins /\ l.aborted = c.log.aborted
    BY <1>1, <1>2, <1>3, SaidType
  <1>5. AtStatus(Append(c.log.out, p), q)
    BY <1>1, <1>2, <1>3, StatusOut
  <1>6. Others(c.log.out, Append(c.log.out, p), q)
    BY <1>1, <1>2, OthersMore
  <1> QED
    BY <1>4, <1>5, <1>6 DEF l

(* The first chunk of an answer.                                           *)
LEMMA ChunkIs ==
    ASSUME HttpAssumption, requests \in Seq(Request), NEW c \in Conns, Fresh(c), NEW failed \in BOOLEAN
    PROVE  GoesOn(c, WriteChunk(c, 1, 1, failed)) /\ Chunked(WriteChunk(c, 1, 1, failed))
  <1> DEFINE d == WriteChunk(c, 1, 1, failed)
             q == c.http.current
             h == ChunkHttp(c.http, failed)
             l1 == StatusLog(c.http, c.log)
             m == NewPiece(q, "chunked", 0, 0)
             l2 == Said(l1, m)
             p == NewPiece(q, "data", 1, 1)
             l3 == Said(l2, p)
  <1>1. c.http \in Https /\ q \in Int /\ c.log \in Logs /\ {"chunked", "data"} \subseteq PieceKinds
    BY ConnParts DEF PieceKinds
  <1>2. d \in Conns /\ d.http = h /\ d.log = l3
    <2>1. "write" \notin c.http.calls
      BY DEF Fresh
    <2> QED
      BY <2>1, WriteChunkIs DEF ChunkLog
  <1>3. /\ l1 \in Logs /\ l1.seen = c.log.seen /\ l1.body = c.log.body /\ l1.fins = c.log.fins
        /\ l1.aborted = c.log.aborted /\ AtStatus(l1.out, q) /\ Others(c.log.out, l1.out, q)
    BY FreshStatus
  <1>4. m \in Pieces /\ m.r = q /\ m.kind = "chunked"
    BY <1>1, NewPieceType
  <1>5. p \in Pieces /\ p.r = q /\ p.kind = "data" /\ p.first = 1 /\ p.last = 1
    BY <1>1, NewPieceType
  <1> HIDE DEF d, l1, m, p
  <1>6. l2 \in Logs /\ l2.out = Append(l1.out, m) /\ l2.seen = l1.seen /\ l2.body = l1.body
        /\ l2.fins = l1.fins /\ l2.aborted = l1.aborted
    BY <1>3, <1>4, SaidType
  <1> HIDE DEF l2
  <1>7. l3 \in Logs /\ l3.out = Append(l2.out, p) /\ l3.seen = l2.seen /\ l3.body = l2.body
        /\ l3.fins = l2.fins /\ l3.aborted = l2.aborted
    BY <1>5, <1>6, SaidType
  <1> HIDE DEF l3
  <1>8. l1.out \in Seq(Pieces) /\ l2.out \in Seq(Pieces)
    BY <1>3, <1>6 DEF Logs
  <1>9. AtChunk(l3.out, q, 1)
    <2>1. AtChunk(Append(Append(l1.out, m), p), q, 1)
      BY <1>1, <1>3, <1>4, <1>5, <1>8, ChunkOut
    <2> QED
      BY <1>6, <1>7, <2>1
  <1>10. Others(c.log.out, l3.out, q)
    <2>1. Others(l1.out, l2.out, q)
      BY <1>1, <1>4, <1>6, <1>8, OthersMore
    <2>2. Others(l2.out, l3.out, q)
      BY <1>1, <1>5, <1>7, <1>8, OthersMore
    <2> QED
      BY <1>3, <2>1, <2>2 DEF Others
  <1>11. c.http.calls = {} /\ c.http.offset = 0
    BY DEF Fresh
  <1>12. /\ h.state = c.http.state /\ h.fallback = c.http.fallback /\ h.streaming = c.http.streaming
         /\ h.current = q /\ h.inStream = c.http.inStream /\ h.pending = c.http.pending
         /\ h.onAborted = c.http.onAborted /\ h.onWritable = c.http.onWritable
         /\ h.offset = 0 /\ h.calls = {"status", "write"}
    BY <1>1, <1>11 DEF Https, ChunkHttp
  <1> HIDE DEF h
  <1>13. Untouched(c, d)
    BY <1>2, <1>3, <1>6, <1>7, <1>12 DEF Untouched
  <1>14. GoesOn(c, d) /\ Chunked(d)
    BY <1>2, <1>9, <1>10, <1>12, <1>13 DEF GoesOn, Chunked
  <1> QED
    BY <1>14 DEF d

(* The answer of an upgrade.                                               *)
LEMMA SwitchIs ==
    ASSUME requests \in Seq(Request), NEW c \in Conns, Fresh(c)
    PROVE  LET d == Upgrade(c)
           IN  /\ d \in Conns /\ d.http.state = "upgraded" /\ d.http.current = c.http.current
               /\ d.http.fallback = c.http.fallback /\ d.http.streaming = c.http.streaming
               /\ d.http.pending = FALSE
               /\ d.log.seen = c.log.seen /\ d.log.body = c.log.body /\ d.log.fins = c.log.fins
               /\ d.log.aborted = c.log.aborted
               /\ WellFormed(d.log.out) /\ Others(c.log.out, d.log.out, c.http.current)
  <1> DEFINE d == Upgrade(c)
             q == c.http.current
             h == UpgradeHttp(c.http)
             l1 == StatusLog(c.http, c.log)
             m == NewPiece(q, "switching", 0, 0)
             l2 == Said(l1, m)
  <1>1. c.http \in Https /\ q \in Int /\ c.log \in Logs /\ "switching" \in PieceKinds
    BY ConnParts DEF PieceKinds
  <1>2. d \in Conns /\ d.http = h /\ d.log = l2
    BY UpgradeIs DEF UpgradeLog
  <1>3. /\ l1 \in Logs /\ l1.seen = c.log.seen /\ l1.body = c.log.body /\ l1.fins = c.log.fins
        /\ l1.aborted = c.log.aborted /\ AtStatus(l1.out, q) /\ Others(c.log.out, l1.out, q)
    BY FreshStatus
  <1>4. m \in Pieces /\ m.r = q /\ m.kind = "switching"
    BY <1>1, NewPieceType
  <1> HIDE DEF d, l1, m
  <1>5. l2.out = Append(l1.out, m) /\ l2.seen = l1.seen /\ l2.body = l1.body
        /\ l2.fins = l1.fins /\ l2.aborted = l1.aborted
    BY <1>3, <1>4, SaidType
  <1> HIDE DEF l2
  <1>6. l1.out \in Seq(Pieces)
    BY <1>3 DEF Logs
  <1>7. WellFormed(l2.out)
    <2>1. WellFormed(Append(l1.out, m))
      BY <1>1, <1>3, <1>4, <1>6, SwitchOut
    <2> QED
      BY <1>5, <2>1
  <1>8. Others(c.log.out, l2.out, q)
    <2>1. Others(l1.out, l2.out, q)
      BY <1>1, <1>4, <1>5, <1>6, OthersMore
    <2> QED
      BY <1>3, <2>1 DEF Others
  <1>9. h.state = "upgraded" /\ h.current = q /\ h.fallback = c.http.fallback
        /\ h.streaming = c.http.streaming /\ h.pending = FALSE
    BY <1>1 DEF Https, UpgradeHttp
  <1> HIDE DEF h
  <1>10. d \in Conns /\ d.http.state = "upgraded" /\ d.http.current = q /\ d.http.fallback = c.http.fallback
         /\ d.http.streaming = c.http.streaming /\ d.http.pending = FALSE
         /\ d.log.seen = c.log.seen /\ d.log.body = c.log.body /\ d.log.fins = c.log.fins
         /\ d.log.aborted = c.log.aborted
         /\ WellFormed(d.log.out) /\ Others(c.log.out, d.log.out, q)
    BY <1>2, <1>3, <1>5, <1>7, <1>8, <1>9
  <1> QED
    BY <1>10 DEF d

-----------------------------------------------------------------------------
(* A request is handled.                                                   *)

\* A connection whose current request is about to be answered, or goes on to
\* be; all the others are answered, and a reader is only still attached if it
\* has answered too.
Base(c) ==
    /\ c \in Conns /\ c.http.state = "open" /\ c.http.current \in DOMAIN requests /\ Tells(c)
    /\ \A r \in 1..c.http.current : r # c.http.current /\ Asks(r) => Answered(c.log.out, r)
    /\ c.http.inStream # 0 => c.http.inStream \in 1..c.http.current /\ Does(c.http.inStream) = "early"

(* The current request is a number.                                        *)
LEMMA CurrentType ==
    ASSUME requests \in Seq(Request), NEW c \in Conns
    PROVE  /\ c.http.current \in Nat /\ c.http.inStream \in Nat /\ c.http.onAborted \in Nat
           /\ \A r \in 1..c.http.current : r \in DOMAIN requests /\ r \in Int
           /\ c.http.current # 0 => c.http.current \in DOMAIN requests /\ c.http.current \in 1..c.http.current
  <1>1. c.http.current \in Owner /\ c.http.inStream \in Owner /\ c.http.onAborted \in Owner
    BY ConnParts DEF Https
  <1>2. DOMAIN requests = 1..Len(requests) /\ Len(requests) \in Nat
    OBVIOUS
  <1> QED
    BY <1>1, <1>2 DEF Owner

(* Once it is answered the connection is at rest.                          *)
LEMMA Finishes ==
    ASSUME requests \in Seq(Request), NEW c, Base(c), NEW d, Ended(c, d)
    PROVE  Ready(d)
  <1> DEFINE q == c.http.current
  <1>1. /\ c \in Conns /\ c.http.state = "open" /\ q \in DOMAIN requests /\ Tells(c)
        /\ \A r \in 1..q : r # q /\ Asks(r) => Answered(c.log.out, r)
        /\ c.http.inStream # 0 => c.http.inStream \in 1..q /\ Does(c.http.inStream) = "early"
    BY DEF Base
  <1>2. /\ d \in Conns /\ Untouched(c, d)
        /\ WellFormed(d.log.out) /\ \A i \in DOMAIN d.log.out : d.log.out[i].r <= q
        /\ Answered(d.log.out, q) /\ Others(c.log.out, d.log.out, q)
        /\ d.http.timer = TRUE /\ d.http.pending = FALSE /\ d.http.onAborted = 0 /\ d.http.onWritable = 0
    BY DEF Ended
  <1>3. d.http.state = "open" /\ d.http.current = q /\ d.http.inStream = c.http.inStream
        /\ d.log.seen = c.log.seen /\ d.log.aborted = c.log.aborted
    BY <1>1, <1>2 DEF Untouched
  <1>4. q \in Nat /\ \A r \in 1..q : r \in Int
    BY <1>1, CurrentType
  <1>5. Answers(d)
    <2>1. ASSUME NEW r \in 1..q, Asks(r) PROVE Answered(d.log.out, r)
      <3>1. CASE r = q
        BY <1>2, <3>1
      <3>2. CASE r # q
        BY <1>1, <1>2, <1>4, <2>1, <3>2 DEF Others
      <3> QED
        BY <3>1, <3>2
    <2> QED
      BY <1>2, <1>3, <2>1 DEF Answers
  <1>6. Waits(d)
    BY <1>2 DEF Waits
  <1>7. Attaches(d)
    BY <1>1, <1>3, <1>4 DEF Attaches
  <1>8. Times(d)
    BY <1>2 DEF Times
  <1>9. Tells(d)
    BY <1>1, <1>3 DEF Tells
  <1> QED
    BY <1>2, <1>3, <1>5, <1>6, <1>7, <1>8, <1>9 DEF Ready

(* Or it is waited for, when its handler asked to learn of an abort.       *)
LEMMA Remains ==
    ASSUME HttpAssumption, requests \in Seq(Request), NEW c, Base(c), NEW d, GoesOn(c, d),
           c.http.pending = TRUE, c.http.onAborted = c.http.current,
           \/ Does(c.http.current) = "later" /\ (Fresh(d) \/ Chunked(d)) /\ c.http.onWritable = 0
           \/ Does(c.http.current) = "try" /\ Partial(d) /\ c.http.onWritable = c.http.current /\ d.http.timer = TRUE
    PROVE  Ready(d)
  <1> DEFINE q == c.http.current
  <1>1. /\ c \in Conns /\ c.http.state = "open" /\ q \in DOMAIN requests /\ Tells(c)
        /\ \A r \in 1..q : r # q /\ Asks(r) => Answered(c.log.out, r)
        /\ c.http.inStream # 0 => c.http.inStream \in 1..q /\ Does(c.http.inStream) = "early"
    BY DEF Base
  <1>2. /\ d \in Conns /\ Untouched(c, d) /\ Others(c.log.out, d.log.out, q)
        /\ d.http.pending = TRUE /\ d.http.onAborted = q /\ d.http.onWritable = c.http.onWritable
    BY DEF GoesOn
  <1>3. d.http.state = "open" /\ d.http.current = q /\ d.http.inStream = c.http.inStream
        /\ d.log.seen = c.log.seen /\ d.log.aborted = c.log.aborted
    BY <1>1, <1>2 DEF Untouched
  <1>4. q \in Nat /\ q # 0 /\ (\A r \in 1..q : r \in Int) /\ q \in Int
    BY <1>1, CurrentType, RequestType
  <1>5. d.log.out \in Seq(Pieces) /\ d.http.offset \in Nat
    BY <1>2, ConnParts DEF Logs
  <1>6. \/ Does(q) = "later" /\ (Fresh(d) \/ Chunked(d)) /\ d.http.onWritable = 0
        \/ Does(q) = "try" /\ Partial(d) /\ d.http.onWritable = q /\ d.http.timer = TRUE
    BY <1>2
  <1>7. /\ WellFormed(d.log.out) /\ (\A i \in DOMAIN d.log.out : d.log.out[i].r <= q)
        /\ ~Answered(d.log.out, q)
    <2>1. CASE Fresh(d)
      <3>1. Below(d.log.out, q)
        BY <1>3, <2>1 DEF Fresh
      <3>2. \A i \in DOMAIN d.log.out : d.log.out[i].r \in Int
        BY <1>5, PieceFields
      <3>3. WellFormed(d.log.out) /\ \A i \in DOMAIN d.log.out : d.log.out[i].r <= q
        BY <1>4, <3>1, <3>2 DEF Below
      <3> QED
        BY <1>4, <3>1, <3>3, NotAnswered
    <2>2. CASE Chunked(d)
      <3>1. AtChunk(d.log.out, q, 1)
        BY <1>3, <2>2 DEF Chunked
      <3> QED
        BY <1>4, <3>1, NotAnswered DEF AtChunk
    <2>3. CASE Partial(d)
      <3>1. AtByte(d.log.out, q, d.http.offset) /\ d.http.offset < ReplySize
        BY <1>3, <2>3 DEF Partial
      <3>2. d.http.offset <= ReplySize /\ d.http.offset # ReplySize
        BY <1>5, <3>1 DEF HttpAssumption
      <3>3. Answered(d.log.out, q) <=> d.http.offset = ReplySize
        BY <1>5, <3>1, <3>2, BytesAnswer
      <3> QED
        BY <3>1, <3>2, <3>3 DEF AtByte
    <2> QED
      BY <1>6, <2>1, <2>2, <2>3
  <1>8. Answers(d)
    <2>1. ASSUME NEW r \in 1..q, Asks(r), r # q PROVE Answered(d.log.out, r)
      BY <1>1, <1>2, <1>4, <2>1 DEF Others
    <2> QED
      BY <1>2, <1>3, <1>7, <2>1 DEF Answers
  <1>9. Waits(d)
    BY <1>2, <1>3, <1>4, <1>6 DEF Waits
  <1>10. Attaches(d)
    BY <1>1, <1>3, <1>4 DEF Attaches
  <1>11. Times(d)
    BY <1>1, <1>2, <1>3, <1>6 DEF Times
  <1>12. Tells(d)
    BY <1>1, <1>3 DEF Tells
  <1> QED
    BY <1>2, <1>3, <1>8, <1>9, <1>10, <1>11, <1>12 DEF Ready

(* The requests that were seen are numbered from one.                      *)
LEMMA SeenIs ==
    ASSUME NEW m \in Nat, NEW seen, seen = [i \in 1..m |-> i]
    PROVE  DOMAIN seen = 1..m /\ Len(seen) = m /\ {seen[i] : i \in DOMAIN seen} = 1..m
  <1>1. DOMAIN seen = 1..m /\ \A i \in 1..m : seen[i] = i
    OBVIOUS
  <1>2. Len(seen) = m
    OBVIOUS
  <1> QED
    BY <1>1, <1>2

(* A connection that is not open any more is done, when everyone who asked *)
(* was answered.                                                           *)
LEMMA Leaves ==
    ASSUME requests \in Seq(Request), NEW d \in Conns, d.http.state # "open", WellFormed(d.log.out), Tells(d),
           \A r \in 1..d.http.current : Asks(r) => Answered(d.log.out, r)
    PROVE  Over(d)
  <1> DEFINE q == d.http.current
  <1>1. q \in Nat /\ \A r \in 1..q : r \in DOMAIN requests
    BY CurrentType
  <1>2. Len(d.log.seen) = q /\ SeenOf(d) = 1..q /\ d.log.seen = [i \in 1..q |-> i]
    BY <1>1, SeenIs DEF Tells, SeenOf
  <1>3. Heard(d)
    BY <1>1, <1>2 DEF Heard, Tells
  <1> QED
    BY <1>2, <1>3 DEF Over

(* A connection that is closed is done, when who is waited for, and nobody *)
(* else of those who asked, was not answered.                              *)
LEMMA Closes ==
    ASSUME requests \in Seq(Request), NEW c \in Conns, WellFormed(c.log.out),
           NEW m \in Nat, c.log.seen = [i \in 1..m |-> i], \A r \in DOMAIN requests : c.log.aborted[r] = 0,
           \A r \in 1..m : IF Asks(r) THEN Answered(c.log.out, r) <=> c.http.onAborted # r
                           ELSE c.http.onAborted # r
    PROVE  /\ Over(Close(c))
           /\ Close(c).log.body = c.log.body /\ Close(c).log.fins = c.log.fins
           /\ Close(c).http.fallback = <<>> /\ Close(c).http.streaming = 0 /\ Close(c).http.state = "closed"
  <1> DEFINE d == Close(c)
             h == CloseHttp(c.http)
             l == CloseLog(c.http, c.log)
  <1>1. d \in Conns /\ d.http = h /\ d.log = l
    BY CloseIs
  <1>2. c.http \in Https /\ c.log \in Logs
    BY ConnParts
  <1>3. h.state = "closed" /\ h.fallback = <<>> /\ h.streaming = 0
    BY <1>2 DEF Https, CloseHttp
  <1>4. /\ l.seen = c.log.seen /\ l.body = c.log.body /\ l.fins = c.log.fins /\ l.out = c.log.out
        /\ l.aborted = [q \in DOMAIN c.log.aborted |->
                            IF q = c.http.onAborted THEN c.log.aborted[q] + 1 ELSE c.log.aborted[q]]
    BY <1>2 DEF Logs, CloseLog
  <1>5. DOMAIN c.log.aborted = DOMAIN requests /\ c.log.seen \in Seq(DOMAIN requests)
    BY <1>2 DEF Logs
  <1> HIDE DEF d, h, l
  <1>6. Len(l.seen) = m /\ SeenOf(d) = 1..m /\ l.seen = [i \in 1..m |-> i]
    BY <1>1, <1>4, SeenIs DEF SeenOf
  <1>7. \A r \in 1..m : r \in DOMAIN requests
    <2>1. DOMAIN c.log.seen = 1..m /\ \A r \in 1..m : c.log.seen[r] = r
      OBVIOUS
    <2>2. \A r \in DOMAIN c.log.seen : c.log.seen[r] \in DOMAIN requests
      BY <1>5
    <2> QED
      BY <2>1, <2>2
  <1>8. Heard(d)
    <2>1. ASSUME NEW r \in 1..m
          PROVE  IF ~Asks(r) THEN l.aborted[r] = 0
                 ELSE l.aborted[r] + (IF Answered(l.out, r) THEN 1 ELSE 0) = 1
      <3>1. r \in DOMAIN requests /\ c.log.aborted[r] = 0
        BY <1>7
      <3>2. l.aborted[r] = IF r = c.http.onAborted THEN 1 ELSE 0
        BY <1>4, <1>5, <3>1
      <3>3. IF Asks(r) THEN Answered(c.log.out, r) <=> c.http.onAborted # r ELSE c.http.onAborted # r
        OBVIOUS
      <3>4. CASE ~Asks(r)
        BY <3>2, <3>3, <3>4
      <3>5. CASE Asks(r) /\ r = c.http.onAborted
        BY <1>4, <3>2, <3>3, <3>5
      <3>6. CASE Asks(r) /\ r # c.http.onAborted
        BY <1>4, <3>2, <3>3, <3>6
      <3> QED
        BY <3>4, <3>5, <3>6
    <2> QED
      BY <1>1, <1>6, <2>1 DEF Heard
  <1>9. Over(d)
    <2>1. d.http.state # "open"
      BY <1>1, <1>3
    <2>2. WellFormed(d.log.out)
      BY <1>1, <1>4
    <2>3. d.log.seen = [i \in 1..Len(d.log.seen) |-> i]
      BY <1>1, <1>6
    <2> QED
      BY <1>1, <1>8, <2>1, <2>2, <2>3 DEF Over
  <1>10. d.log.body = c.log.body /\ d.log.fins = c.log.fins /\ d.http.fallback = <<>> /\ d.http.streaming = 0
         /\ d.http.state = "closed"
    BY <1>1, <1>3, <1>4
  <1> QED
    BY <1>9, <1>10 DEF d

(* A connection at rest may be closed.                                     *)
LEMMA ReadyCloses ==
    ASSUME requests \in Seq(Request), NEW c, Ready(c)
    PROVE  /\ Over(Close(c))
           /\ Close(c).log.body = c.log.body /\ Close(c).log.fins = c.log.fins
           /\ Close(c).http.fallback = <<>> /\ Close(c).http.streaming = 0 /\ Close(c).http.state = "closed"
  <1> DEFINE q == c.http.current
  <1>1. c \in Conns /\ Answers(c) /\ Waits(c) /\ Tells(c)
    BY DEF Ready
  <1>2. q \in Nat /\ \A r \in 1..q : r # 0
    BY <1>1, CurrentType
  <1>3. c.log.seen = [i \in 1..q |-> i] /\ \A r \in DOMAIN requests : c.log.aborted[r] = 0
    BY <1>1 DEF Tells
  <1>4. ASSUME NEW r \in 1..q
        PROVE  IF Asks(r) THEN Answered(c.log.out, r) <=> c.http.onAborted # r ELSE c.http.onAborted # r
    <2>1. c.http.pending => c.http.onAborted = q /\ Asks(q)
      BY <1>1 DEF Waits, Asks
    <2>2. ~c.http.pending => c.http.onAborted = 0
      BY <1>1 DEF Waits
    <2>3. Asks(r) => (Answered(c.log.out, r) <=> ~(c.http.pending /\ q = r))
      BY <1>1 DEF Answers
    <2> QED
      BY <1>2, <2>1, <2>2, <2>3
  <1>5. WellFormed(c.log.out)
    BY <1>1 DEF Answers
  <1> QED
    BY <1>1, <1>2, <1>3, <1>4, <1>5, Closes

\* What handling request r makes of a connection at rest.
Asked(c, d, r) ==
    /\ d.log.body = c.log.body /\ d.log.fins = c.log.fins
    /\ IF d.http.state = "open"
       THEN /\ Ready(d) /\ d.http.current = r
            /\ d.http.fallback = c.http.fallback /\ d.http.streaming = c.http.streaming
            /\ d.http.inStream = IF Reads(r) THEN r ELSE c.http.inStream
       ELSE /\ Over(d)
            /\ \/ d.http.fallback = c.http.fallback /\ d.http.streaming = c.http.streaming
               \/ d.http.fallback = <<>> /\ d.http.streaming = 0

(* The timeout of a connection at rest may be armed.                       *)
LEMMA ReadyTimer ==
    ASSUME requests \in Seq(Request), NEW c, Ready(c)
    PROVE  LET d == Timer(c, TRUE)
           IN  Ready(d) /\ d.http = [c.http EXCEPT !.timer = TRUE] /\ d.log = c.log
  <1> DEFINE d == Timer(c, TRUE)
             h == [c.http EXCEPT !.timer = TRUE]
  <1>1. /\ c \in Conns /\ c.http.state = "open"
        /\ Answers(c) /\ Waits(c) /\ Attaches(c) /\ Times(c) /\ Tells(c)
    BY DEF Ready
  <1>2. d \in Conns /\ d.http = h /\ d.log = c.log
    <2>1. TRUE \in BOOLEAN
      OBVIOUS
    <2> QED
      BY <1>1, <2>1, TimerIs
  <1>3. c.http \in Https
    BY <1>1, ConnParts
  <1>4. /\ h.state = c.http.state /\ h.current = c.http.current /\ h.inStream = c.http.inStream
        /\ h.pending = c.http.pending /\ h.onAborted = c.http.onAborted /\ h.onWritable = c.http.onWritable
        /\ h.calls = c.http.calls /\ h.offset = c.http.offset /\ h.timer = TRUE
    BY <1>3 DEF Https
  <1> HIDE DEF h, d
  <1>5. Answers(d)
    BY <1>1, <1>2, <1>4 DEF Answers
  <1>6. Waits(d)
    BY <1>1, <1>2, <1>4 DEF Waits, Fresh, Partial, Chunked
  <1>7. Attaches(d)
    BY <1>1, <1>2, <1>4 DEF Attaches
  <1>8. Times(d)
    BY <1>2, <1>4 DEF Times
  <1>9. Tells(d)
    BY <1>1, <1>2, <1>4 DEF Tells
  <1>10. Ready(d)
    BY <1>1, <1>2, <1>4, <1>5, <1>6, <1>7, <1>8, <1>9 DEF Ready
  <1> QED
    BY <1>2, <1>10 DEF h, d

(* Once a request that is waited for is settled the connection is at rest. *)
LEMMA Settles ==
    ASSUME requests \in Seq(Request), NEW d, Ready(d)
    PROVE  LET e == Settled(d)
           IN  Ready(e) /\ e.log = d.log /\ e.http.current = d.http.current /\ e.http.fallback = d.http.fallback
               /\ e.http.streaming = d.http.streaming /\ e.http.inStream = d.http.inStream
  <1> DEFINE t == Timer(d, TRUE)
  <1>1. d \in Conns /\ d.http.state = "open" /\ Waits(d)
    BY DEF Ready
  <1>2. d.http \in Https
    BY <1>1, ConnParts
  <1>3. CASE ~d.http.pending
    <2>1. Settled(d) = d
      BY <1>3 DEF Settled
    <2> QED
      BY <2>1
  <1>4. CASE d.http.pending
    <2>1. d.http.onAborted # 0
      BY <1>1, <1>4 DEF Waits
    <2>2. Settled(d) = Timer(d, d.http.timer \/ d.http.inStream # 0)
      BY <1>1, <1>4, <2>1 DEF Settled
    <2>3. CASE d.http.timer \/ d.http.inStream # 0
      <3>1. Settled(d) = t
        BY <2>2, <2>3
      <3>2. Ready(t) /\ t.http = [d.http EXCEPT !.timer = TRUE] /\ t.log = d.log
        BY ReadyTimer
      <3> HIDE DEF t
      <3>3. t.http.current = d.http.current /\ t.http.fallback = d.http.fallback
            /\ t.http.streaming = d.http.streaming /\ t.http.inStream = d.http.inStream
        BY <1>2, <3>2 DEF Https
      <3> QED
        BY <3>1, <3>2, <3>3
    <2>4. CASE ~(d.http.timer \/ d.http.inStream # 0)
      <3>1. Settled(d) = Timer(d, FALSE)
        BY <2>2, <2>4
      <3>2. d.http.timer = FALSE
        BY <1>2, <2>4 DEF Https
      <3>3. Timer(d, FALSE) = d
        BY <1>1, <1>2, <3>2 DEF Timer, Conns, Https
      <3> QED
        BY <3>1, <3>3
    <2> QED
      BY <2>3, <2>4
  <1> QED
    BY <1>3, <1>4

\* A connection whose next request is handled: the timeout is disabled, the
\* request has nothing of its answer yet, and its handler is told.
Reset(c) == [Timer(c, FALSE) EXCEPT !.http.offset = 0]
Begun(c, r) == [Reset(c) EXCEPT !.http.pending = TRUE, !.http.calls = {}, !.http.current = r]
Shown(c, r) == [Begun(c, r) EXCEPT !.log.seen = Append(@, r)]

ResetHttp(h) == [h EXCEPT !.timer = FALSE, !.offset = 0]
BegunHttp(h, r) == [h EXCEPT !.timer = FALSE, !.offset = 0, !.pending = TRUE, !.calls = {}, !.current = r]

(* What is reset is no more than that.                                     *)
LEMMA ShownIs ==
    ASSUME requests \in Seq(Request), NEW c \in Conns, NEW r \in DOMAIN requests
    PROVE  /\ Reset(c) \in Conns /\ Reset(c).http = ResetHttp(c.http) /\ Reset(c).log = c.log
           /\ Begun(c, r) \in Conns /\ Begun(c, r).http = BegunHttp(c.http, r) /\ Begun(c, r).log = c.log
           /\ Shown(c, r) \in Conns /\ Shown(c, r).http = BegunHttp(c.http, r)
           /\ Shown(c, r).log = [c.log EXCEPT !.seen = Append(c.log.seen, r)]
  <1> DEFINE t == Timer(c, FALSE)
             h0 == [c.http EXCEPT !.timer = FALSE]
             h1 == ResetHttp(c.http)
             h2 == BegunHttp(c.http, r)
             l == [c.log EXCEPT !.seen = Append(c.log.seen, r)]
  <1>1. c.http \in Https /\ c.log \in Logs /\ FALSE \in BOOLEAN /\ r \in Owner
    BY ConnParts DEF Owner
  <1>2. t \in Conns /\ t.http = h0 /\ t.log = c.log
    BY <1>1, TimerIs
  <1>3. h1 \in Https /\ h2 \in Https
    <2>1. {} \in SUBSET {"status", "write", "end"}
      OBVIOUS
    <2> QED
      BY <1>1, <2>1 DEF Https, ResetHttp, BegunHttp
  <1>4. l \in Logs
    <2>1. Append(c.log.seen, r) \in Seq(DOMAIN requests)
      BY <1>1 DEF Logs
    <2> QED
      BY <1>1, <2>1 DEF Logs
  <1>5. Reset(c) \in Conns /\ Reset(c).http = h1 /\ Reset(c).log = c.log
    <2>1. Reset(c) = [t EXCEPT !.http.offset = 0]
      BY DEF Reset
    <2> HIDE DEF t
    <2>2. Reset(c) = [t EXCEPT !.http = h1]
      BY <1>2, <2>1 DEF Conns, ResetHttp
    <2> HIDE DEF h1
    <2> QED
      BY <1>2, <1>3, <2>2, WithHttp
  <1>6. Begun(c, r) \in Conns /\ Begun(c, r).http = h2 /\ Begun(c, r).log = c.log
    <2> DEFINE s == Reset(c)
    <2>1. Begun(c, r) = [s EXCEPT !.http.pending = TRUE, !.http.calls = {}, !.http.current = r]
      BY DEF Begun
    <2>2. s \in Conns /\ s.http = h1 /\ s.log = c.log
      BY <1>5
    <2> HIDE DEF s
    <2>3. Begun(c, r) = [s EXCEPT !.http = h2]
      BY <2>1, <2>2 DEF Conns, ResetHttp, BegunHttp
    <2> HIDE DEF h2
    <2> QED
      BY <1>3, <2>2, <2>3, WithHttp
  <1>7. Shown(c, r) \in Conns /\ Shown(c, r).http = h2 /\ Shown(c, r).log = l
    <2> DEFINE s == Begun(c, r)
    <2>1. Shown(c, r) = [s EXCEPT !.log.seen = Append(s.log.seen, r)]
      BY DEF Shown
    <2>2. s \in Conns /\ s.http = h2 /\ s.log = c.log
      BY <1>6
    <2> HIDE DEF s, h2
    <2>3. Shown(c, r) = [s EXCEPT !.log = l]
      BY <2>1, <2>2 DEF Conns
    <2> HIDE DEF l
    <2> QED
      BY <1>4, <2>2, <2>3, WithLog
  <1> QED
    BY <1>5, <1>6, <1>7

(* The handler of the next request finds the others answered.              *)
LEMMA ShownBase ==
    ASSUME HttpAssumption, requests \in Seq(Request), NEW c, Ready(c), ~c.http.pending,
           NEW r \in DOMAIN requests, r = c.http.current + 1
    PROVE  LET t == Shown(c, r)
           IN  /\ Base(t) /\ Fresh(t)
               /\ t.http.current = r /\ t.http.pending = TRUE /\ t.http.onAborted = 0 /\ t.http.onWritable = 0
               /\ t.http.inStream = c.http.inStream
               /\ t.http.fallback = c.http.fallback /\ t.http.streaming = c.http.streaming
               /\ t.log.body = c.log.body /\ t.log.fins = c.log.fins
  <1> DEFINE t == Shown(c, r)
             h == BegunHttp(c.http, r)
             l == [c.log EXCEPT !.seen = Append(c.log.seen, r)]
             q == c.http.current
  <1>1. /\ c \in Conns /\ c.http.state = "open"
        /\ Answers(c) /\ Waits(c) /\ Attaches(c) /\ Times(c) /\ Tells(c)
    BY DEF Ready
  <1>2. c.http \in Https /\ c.log \in Logs /\ q \in Nat /\ r \in Nat
    BY <1>1, ConnParts, CurrentType, RequestType
  <1>3. t \in Conns /\ t.http = h /\ t.log = l
    BY <1>1, ShownIs
  <1>4. /\ h.state = "open" /\ h.fallback = c.http.fallback /\ h.streaming = c.http.streaming
        /\ h.current = r /\ h.pending = TRUE /\ h.calls = {} /\ h.offset = 0
        /\ h.onAborted = c.http.onAborted /\ h.onWritable = c.http.onWritable /\ h.inStream = c.http.inStream
    BY <1>1, <1>2 DEF Https, BegunHttp
  <1>5. /\ l.out = c.log.out /\ l.body = c.log.body /\ l.fins = c.log.fins /\ l.aborted = c.log.aborted
        /\ l.seen = Append(c.log.seen, r)
    BY <1>2 DEF Logs
  <1> HIDE DEF t, h, l
  <1>6. c.http.onAborted = 0 /\ c.http.onWritable = 0
    BY <1>1 DEF Waits
  <1>7. Tells(t)
    <2>1. c.log.seen = [i \in 1..q |-> i] /\ \A k \in DOMAIN requests : c.log.aborted[k] = 0
      BY <1>1 DEF Tells
    <2>2. Append([i \in 1..q |-> i], r) = [i \in 1..r |-> i]
      <3> DEFINE f == [i \in 1..q |-> i]
                 g == [i \in 1..r |-> i]
      <3>1. f \in Seq(Nat) /\ Len(f) = q /\ \A i \in 1..q : f[i] = i
        BY <1>2
      <3>2. g \in Seq(Nat) /\ Len(g) = r /\ \A i \in 1..r : g[i] = i
        BY <1>2
      <3> HIDE DEF f, g
      <3>3. Append(f, r) \in Seq(Nat) /\ Len(Append(f, r)) = q + 1
        BY <1>2, <3>1
      <3>4. ASSUME NEW i \in 1..(q + 1) PROVE Append(f, r)[i] = g[i]
        <4>1. CASE i = q + 1
          BY <1>2, <3>1, <3>2, <4>1
        <4>2. CASE i # q + 1
          <5>1. i \in 1..q /\ i \in 1..r
            BY <1>2, <4>2
          <5> QED
            BY <1>2, <3>1, <3>2, <5>1
        <4> QED
          BY <4>1, <4>2
      <3>5. Append(f, r) = g
        BY <3>2, <3>3, <3>4, SameSeq
      <3> QED
        BY <3>5 DEF f, g
    <2>3. t.log.seen = [i \in 1..r |-> i]
      BY <1>3, <1>5, <2>1, <2>2
    <2>4. t.http.current = r /\ t.log.aborted = c.log.aborted
      BY <1>3, <1>4, <1>5
    <2> QED
      BY <2>1, <2>3, <2>4 DEF Tells
  <1>8. \A k \in 1..r : k # r /\ Asks(k) => Answered(l.out, k)
    <2>1. \A k \in 1..r : k # r => k \in 1..q
      BY <1>2
    <2> QED
      BY <1>1, <1>5, <2>1 DEF Answers
  <1>9. c.http.inStream # 0 => c.http.inStream \in 1..r /\ Does(c.http.inStream) = "early"
    <2>1. c.http.inStream \in Nat
      BY <1>1, CurrentType
    <2> QED
      BY <1>1, <1>2, <2>1 DEF Attaches
  <1>10. Base(t)
    BY <1>3, <1>4, <1>5, <1>7, <1>8, <1>9 DEF Base
  <1>11. Fresh(t)
    <2>1. WellFormed(c.log.out) /\ \A i \in DOMAIN c.log.out : c.log.out[i].r <= q
      BY <1>1 DEF Answers
    <2>2. \A i \in DOMAIN c.log.out : c.log.out[i].r \in Int
      BY <1>2, PieceFields DEF Logs
    <2>3. Below(c.log.out, r)
      BY <1>2, <2>1, <2>2 DEF Below
    <2> QED
      BY <1>3, <1>4, <1>5, <2>3 DEF Fresh
  <1>12. t.http.current = r /\ t.http.pending = TRUE /\ t.http.onAborted = 0 /\ t.http.onWritable = 0
         /\ t.http.inStream = c.http.inStream
         /\ t.http.fallback = c.http.fallback /\ t.http.streaming = c.http.streaming
         /\ t.log.body = c.log.body /\ t.log.fins = c.log.fins
    BY <1>3, <1>4, <1>5, <1>6
  <1> QED
    BY <1>10, <1>11, <1>12 DEF t

\* A request whose handler is called: nothing of the answer was written.
Starts(t) ==
    /\ Base(t) /\ Fresh(t)
    /\ t.http.pending = TRUE /\ t.http.onAborted = 0 /\ t.http.onWritable = 0

(* What is attached is attached.                                           *)
LEMMA AttachIs ==
    ASSUME requests \in Seq(Request), NEW c \in Conns, NEW r \in DOMAIN requests
    PROVE  /\ Attached(c, r) \in Conns /\ Attached(c, r).log = c.log
           /\ Attached(c, r).http = [c.http EXCEPT !.onAborted = r]
           /\ Reading(c, r) \in Conns /\ Reading(c, r).log = c.log
           /\ Reading(c, r).http = [c.http EXCEPT !.inStream = r]
           /\ [c EXCEPT !.http.onWritable = r] \in Conns /\ [c EXCEPT !.http.onWritable = r].log = c.log
           /\ [c EXCEPT !.http.onWritable = r].http = [c.http EXCEPT !.onWritable = r]
  <1> DEFINE h1 == [c.http EXCEPT !.onAborted = r]
             h2 == [c.http EXCEPT !.inStream = r]
             h3 == [c.http EXCEPT !.onWritable = r]
  <1>1. h1 \in Https /\ h2 \in Https /\ h3 \in Https
    <2>1. c.http \in Https /\ r \in Owner
      BY ConnParts DEF Owner
    <2> QED
      BY <2>1 DEF Https
  <1>2. /\ Attached(c, r) = [c EXCEPT !.http = h1] /\ Reading(c, r) = [c EXCEPT !.http = h2]
        /\ [c EXCEPT !.http.onWritable = r] = [c EXCEPT !.http = h3]
    BY DEF Attached, Reading, Conns
  <1> HIDE DEF h1, h2, h3
  <1>3. /\ Attached(c, r) \in Conns /\ Attached(c, r).log = c.log /\ Attached(c, r).http = h1
    BY <1>1, <1>2, WithHttp
  <1>4. Reading(c, r) \in Conns /\ Reading(c, r).log = c.log /\ Reading(c, r).http = h2
    BY <1>1, <1>2, WithHttp
  <1>5. /\ [c EXCEPT !.http.onWritable = r] \in Conns /\ [c EXCEPT !.http.onWritable = r].log = c.log
        /\ [c EXCEPT !.http.onWritable = r].http = h3
    BY <1>1, <1>2, WithHttp
  <1> QED
    BY <1>3, <1>4, <1>5 DEF h1, h2, h3

(* Whoever is left at rest was asked.                                      *)
LEMMA AskedReady ==
    ASSUME requests \in Seq(Request), NEW t, NEW d, Ready(d), d.http.current = t.http.current,
           d.log.body = t.log.body, d.log.fins = t.log.fins,
           d.http.fallback = t.http.fallback, d.http.streaming = t.http.streaming,
           d.http.inStream = IF Reads(t.http.current) THEN t.http.current ELSE t.http.inStream
    PROVE  Asked(t, Settled(d), t.http.current)
  <1> DEFINE e == Settled(d)
  <1>1. Ready(e) /\ e.log = d.log /\ e.http.current = d.http.current /\ e.http.fallback = d.http.fallback
        /\ e.http.streaming = d.http.streaming /\ e.http.inStream = d.http.inStream
    BY Settles
  <1> HIDE DEF e
  <1>2. e.http.state = "open"
    BY <1>1 DEF Ready
  <1>3. Asked(t, e, t.http.current)
    BY <1>1, <1>2 DEF Asked
  <1> QED
    BY <1>3 DEF e

(* A handler that ends its answer was asked.                               *)
LEMMA AskedEnd ==
    ASSUME HttpAssumption, requests \in Seq(Request), NEW t, Starts(t), Does(t.http.current) = "end"
    PROVE  Asked(t, Settled(End(t, 1)), t.http.current)
  <1> DEFINE d == End(t, 1)
  <1>1. Base(t) /\ Fresh(t) /\ t \in Conns
    BY DEF Starts, Base
  <1>2. Ended(t, d)
    BY <1>1, EndIs
  <1> HIDE DEF d
  <1>3. Ready(d)
    BY <1>1, <1>2, Finishes
  <1>4. Untouched(t, d) /\ ~Reads(t.http.current)
    BY <1>2 DEF Ended, Reads
  <1>5. Asked(t, Settled(d), t.http.current)
    BY <1>3, <1>4, AskedReady DEF Untouched
  <1> QED
    BY <1>5 DEF d

(* One that answers before the body was asked, and reads on.               *)
LEMMA AskedEarly ==
    ASSUME HttpAssumption, requests \in Seq(Request), NEW t, Starts(t), Does(t.http.current) = "early"
    PROVE  Asked(t, Settled(End(Reading(t, t.http.current), 1)), t.http.current)
  <1> DEFINE r == t.http.current
             u == Reading(t, r)
             d == End(u, 1)
             h == [t.http EXCEPT !.inStream = r]
  <1>1. Base(t) /\ Fresh(t) /\ t \in Conns /\ r \in DOMAIN requests /\ t.http \in Https
    BY ConnParts DEF Starts, Base
  <1>2. u \in Conns /\ u.log = t.log /\ u.http = h
    BY <1>1, AttachIs
  <1>3. /\ h.inStream = r /\ h.current = r /\ h.state = t.http.state /\ h.calls = t.http.calls
        /\ h.offset = t.http.offset /\ h.fallback = t.http.fallback /\ h.streaming = t.http.streaming
    BY <1>1 DEF Https
  <1>4. r \in 1..r
    BY <1>1, RequestType
  <1> HIDE DEF u, h
  <1>5. Base(u)
    <2>1. t.http.state = "open" /\ Tells(t) /\ \A q \in 1..r : q # r /\ Asks(q) => Answered(t.log.out, q)
      BY <1>1 DEF Base
    <2>2. Tells(u)
      BY <1>2, <1>3, <2>1 DEF Tells
    <2> QED
      BY <1>1, <1>2, <1>3, <1>4, <2>1, <2>2 DEF Base
  <1>6. Fresh(u)
    BY <1>1, <1>2, <1>3 DEF Fresh
  <1>7. Ended(u, d)
    BY <1>2, <1>6, EndIs
  <1> HIDE DEF d
  <1>8. Ready(d)
    BY <1>5, <1>7, Finishes
  <1>9. Untouched(u, d) /\ Reads(r)
    BY <1>7 DEF Ended, Reads
  <1>10. Asked(t, Settled(d), r)
    BY <1>2, <1>3, <1>8, <1>9, AskedReady DEF Untouched
  <1> QED
    BY <1>10 DEF d, u

(* One that answers later was asked.                                       *)
LEMMA AskedLater ==
    ASSUME HttpAssumption, requests \in Seq(Request), NEW t, Starts(t), Does(t.http.current) = "later"
    PROVE  Asked(t, Settled(Attached(t, t.http.current)), t.http.current)
  <1> DEFINE r == t.http.current
             d == Attached(t, r)
             h == [t.http EXCEPT !.onAborted = r]
  <1>1. Base(t) /\ Fresh(t) /\ t \in Conns /\ r \in DOMAIN requests /\ t.http \in Https
        /\ t.http.pending = TRUE /\ t.http.onWritable = 0
    BY ConnParts DEF Starts, Base
  <1>2. d \in Conns /\ d.log = t.log /\ d.http = h
    BY <1>1, AttachIs
  <1>3. /\ h.inStream = t.http.inStream /\ h.current = r /\ h.state = t.http.state /\ h.calls = t.http.calls
        /\ h.offset = t.http.offset /\ h.fallback = t.http.fallback /\ h.streaming = t.http.streaming
        /\ h.onAborted = r /\ h.pending = TRUE /\ h.onWritable = 0
    BY <1>1 DEF Https
  <1> HIDE DEF d, h
  <1>5. Base(d)
    <2>1. t.http.state = "open" /\ Tells(t) /\ (\A q \in 1..r : q # r /\ Asks(q) => Answered(t.log.out, q))
          /\ (t.http.inStream # 0 => t.http.inStream \in 1..r /\ Does(t.http.inStream) = "early")
      BY <1>1 DEF Base
    <2>2. Tells(d)
      BY <1>2, <1>3, <2>1 DEF Tells
    <2> QED
      BY <1>1, <1>2, <1>3, <2>1, <2>2 DEF Base
  <1>6. Fresh(d)
    BY <1>1, <1>2, <1>3 DEF Fresh
  <1>7. GoesOn(d, d)
    BY <1>2 DEF GoesOn, Untouched, Others
  <1>8. Ready(d)
    BY <1>2, <1>3, <1>5, <1>6, <1>7, Remains
  <1>9. ~Reads(r)
    BY DEF Reads
  <1>10. Asked(t, Settled(d), r)
    BY <1>2, <1>3, <1>8, <1>9, AskedReady
  <1> QED
    BY <1>10 DEF d

(* One that answers as the socket has room was asked.                      *)
LEMMA AskedTry ==
    ASSUME HttpAssumption, requests \in Seq(Request), NEW t, Starts(t), Does(t.http.current) = "try",
           NEW n \in 0..ReplySize
    PROVE  Asked(t, Settled(TryEnd([Attached(t, t.http.current) EXCEPT !.http.onWritable = t.http.current], n)),
                 t.http.current)
  <1> DEFINE r == t.http.current
             u == Attached(t, r)
             v == [u EXCEPT !.http.onWritable = r]
             d == TryEnd(v, n)
             h == [t.http EXCEPT !.onAborted = r]
             g == [h EXCEPT !.onWritable = r]
  <1>1. Base(t) /\ Fresh(t) /\ t \in Conns /\ r \in DOMAIN requests /\ t.http \in Https
        /\ t.http.pending = TRUE /\ t.http.onWritable = 0
    BY ConnParts DEF Starts, Base
  <1>2. u \in Conns /\ u.log = t.log /\ u.http = h
    BY <1>1, AttachIs
  <1> HIDE DEF u
  <1>3. v \in Conns /\ v.log = t.log /\ v.http = g
    <2>1. r \in DOMAIN requests
      BY <1>1
    <2> HIDE DEF h, r
    <2>2. v \in Conns /\ v.log = u.log /\ v.http = [u.http EXCEPT !.onWritable = r]
      BY <1>2, <2>1, AttachIs
    <2> QED
      BY <1>2, <2>2
  <1>4. /\ g.inStream = t.http.inStream /\ g.current = r /\ g.state = t.http.state /\ g.calls = t.http.calls
        /\ g.offset = t.http.offset /\ g.fallback = t.http.fallback /\ g.streaming = t.http.streaming
        /\ g.onAborted = r /\ g.pending = TRUE /\ g.onWritable = r
    BY <1>1 DEF Https
  <1> HIDE DEF v, h, g
  <1>5. Base(v)
    <2>1. t.http.state = "open" /\ Tells(t) /\ (\A q \in 1..r : q # r /\ Asks(q) => Answered(t.log.out, q))
          /\ (t.http.inStream # 0 => t.http.inStream \in 1..r /\ Does(t.http.inStream) = "early")
      BY <1>1 DEF Base
    <2>2. Tells(v)
      BY <1>3, <1>4, <2>1 DEF Tells
    <2> QED
      BY <1>1, <1>3, <1>4, <2>1, <2>2 DEF Base
  <1>6. Fresh(v) /\ v.http.offset = 0
    BY <1>1, <1>3, <1>4 DEF Fresh
  <1>7. n \in Nat /\ v.http.offset + n <= ReplySize /\ ReplySize \in Nat
    BY <1>6 DEF HttpAssumption
  <1>8. IF v.http.offset + n = ReplySize THEN Ended(v, d)
        ELSE GoesOn(v, d) /\ Partial(d) /\ d.http.timer = TRUE
    BY <1>3, <1>6, <1>7, TryEndIs
  <1> HIDE DEF d
  <1>9. Ready(d) /\ Untouched(v, d)
    <2>1. CASE v.http.offset + n = ReplySize
      BY <1>5, <1>8, <2>1, Finishes DEF Ended
    <2>2. CASE v.http.offset + n # ReplySize
      <3>1. GoesOn(v, d) /\ Partial(d) /\ d.http.timer = TRUE
        BY <1>8, <2>2
      <3>2. Ready(d)
        BY <1>3, <1>4, <1>5, <3>1, Remains
      <3> QED
        BY <3>1, <3>2 DEF GoesOn
    <2> QED
      BY <2>1, <2>2
  <1>10. ~Reads(r)
    BY DEF Reads
  <1>11. Asked(t, Settled(d), r)
    BY <1>3, <1>4, <1>9, <1>10, AskedReady DEF Untouched
  <1> QED
    BY <1>11 DEF d, v, u

(* One that reads the body and answers then was asked; the timeout runs.   *)
LEMMA AskedRead ==
    ASSUME HttpAssumption, requests \in Seq(Request), NEW t, Starts(t), Does(t.http.current) = "read"
    PROVE  Asked(t, Settled(Reading(Attached(t, t.http.current), t.http.current)), t.http.current)
  <1> DEFINE r == t.http.current
             u == Attached(t, r)
             v == Reading(u, r)
             h == [t.http EXCEPT !.onAborted = r]
             g == [h EXCEPT !.inStream = r]
             e == Timer(v, TRUE)
             k == [g EXCEPT !.timer = TRUE]
  <1>1. Base(t) /\ Fresh(t) /\ t \in Conns /\ r \in DOMAIN requests /\ t.http \in Https
        /\ t.http.pending = TRUE /\ t.http.onWritable = 0 /\ r \in Nat /\ r # 0
    BY ConnParts, RequestType DEF Starts, Base
  <1>2. u \in Conns /\ u.log = t.log /\ u.http = h
    BY <1>1, AttachIs
  <1> HIDE DEF u
  <1>3. v \in Conns /\ v.log = t.log /\ v.http = g
    <2>1. r \in DOMAIN requests
      BY <1>1
    <2> HIDE DEF h, r
    <2>2. v \in Conns /\ v.log = u.log /\ v.http = [u.http EXCEPT !.inStream = r]
      BY <1>2, <2>1, AttachIs
    <2> QED
      BY <1>2, <2>2
  <1>4. /\ g.inStream = r /\ g.state = "open" /\ g.pending = TRUE /\ g.onAborted = r
        /\ g.timer \in BOOLEAN
    BY <1>1 DEF Https, Base
  <1>5. Settled(v) = e
    <2> HIDE DEF v, g, h
    <2>1. Settled(v) = Timer(v, v.http.timer \/ v.http.inStream # 0)
      BY <1>1, <1>3, <1>4 DEF Settled
    <2>2. (v.http.timer \/ v.http.inStream # 0) = TRUE
      BY <1>1, <1>3, <1>4
    <2> QED
      BY <2>1, <2>2
  <1>6. e \in Conns /\ e.log = t.log /\ e.http = k
    <2> HIDE DEF v, g
    <2>1. TRUE \in BOOLEAN
      OBVIOUS
    <2>2. e \in Conns /\ e.log = v.log /\ e.http = [v.http EXCEPT !.timer = TRUE]
      BY <1>3, <2>1, TimerIs
    <2> QED
      BY <1>3, <2>2
  <1>7. /\ k.inStream = r /\ k.state = "open" /\ k.pending = TRUE /\ k.onAborted = r /\ k.timer = TRUE
        /\ k.current = r /\ k.calls = t.http.calls /\ k.offset = t.http.offset /\ k.onWritable = 0
        /\ k.fallback = t.http.fallback /\ k.streaming = t.http.streaming
    BY <1>1 DEF Https, Base
  <1> HIDE DEF e, v, k, g, h
  <1>8. Fresh(e)
    BY <1>1, <1>6, <1>7 DEF Fresh
  <1>9. Below(t.log.out, r)
    BY <1>1 DEF Fresh
  <1>10. Answers(e)
    <2>1. ASSUME NEW q \in 1..r, Asks(q)
          PROVE  Answered(t.log.out, q) <=> ~(r = q)
      <3>1. CASE q = r
        <4>1. ~Answered(t.log.out, r)
          <5> DEFINE out == t.log.out
          <5>1. r \in Int /\ (Below(out, r) \/ AtChunk(out, r, 0))
            BY <1>1, <1>9
          <5> HIDE DEF r, out
          <5>2. ~Answered(out, r)
            BY <5>1, NotAnswered
          <5> QED
            BY <5>2 DEF r, out
        <4> QED
          BY <3>1, <4>1
      <3>2. CASE q # r
        BY <1>1, <2>1, <3>2 DEF Base
      <3> QED
        BY <3>1, <3>2
    <2>2. WellFormed(t.log.out) /\ \A i \in DOMAIN t.log.out : t.log.out[i].r <= r
      <3>1. t.log \in Logs
        BY <1>1, ConnParts
      <3>2. \A i \in DOMAIN t.log.out : t.log.out[i].r \in Int
        BY <3>1, PieceFields DEF Logs
      <3> QED
        BY <1>1, <1>9, <3>2 DEF Below
    <2> QED
      BY <1>6, <1>7, <2>1, <2>2 DEF Answers
  <1>11. Waits(e)
    BY <1>1, <1>6, <1>7, <1>8 DEF Waits
  <1>12. Attaches(e)
    BY <1>1, <1>6, <1>7 DEF Attaches
  <1>13. Times(e)
    BY <1>6, <1>7 DEF Times
  <1>14. Tells(e)
    <2>1. Tells(t)
      BY <1>1 DEF Base
    <2> QED
      BY <1>6, <1>7, <2>1 DEF Tells
  <1>15. Ready(e)
    BY <1>6, <1>7, <1>10, <1>11, <1>12, <1>13, <1>14 DEF Ready
  <1>16. Asked(t, e, r)
    <2>1. Reads(r)
      BY DEF Reads
    <2> QED
      BY <1>6, <1>7, <1>15, <2>1 DEF Asked
  <1> QED
    BY <1>5, <1>16 DEF u, v

(* One that upgrades was asked, and the connection is not HTTP's any more. *)
LEMMA AskedUpgrade ==
    ASSUME HttpAssumption, requests \in Seq(Request), NEW t, Starts(t), Does(t.http.current) = "upgrade"
    PROVE  Asked(t, Settled(Upgrade(t)), t.http.current)
  <1> DEFINE r == t.http.current
             d == Upgrade(t)
  <1>1. Base(t) /\ Fresh(t) /\ t \in Conns /\ r \in DOMAIN requests /\ r \in Nat
    BY RequestType DEF Starts, Base
  <1>2. /\ d \in Conns /\ d.http.state = "upgraded" /\ d.http.current = r
        /\ d.http.fallback = t.http.fallback /\ d.http.streaming = t.http.streaming
        /\ d.http.pending = FALSE
        /\ d.log.seen = t.log.seen /\ d.log.body = t.log.body /\ d.log.fins = t.log.fins
        /\ d.log.aborted = t.log.aborted
        /\ WellFormed(d.log.out) /\ Others(t.log.out, d.log.out, r)
    BY <1>1, SwitchIs
  <1>3. Settled(d) = d
    BY <1>2 DEF Settled
  <1> HIDE DEF d
  <1>4. Tells(d)
    <2>1. Tells(t)
      BY <1>1 DEF Base
    <2> QED
      BY <1>2, <2>1 DEF Tells
  <1>5. ASSUME NEW q \in 1..r, Asks(q) PROVE Answered(d.log.out, q)
    <2>1. q # r /\ q \in Int
      BY <1>1, <1>5 DEF Asks
    <2>2. Answered(t.log.out, q)
      BY <1>1, <1>5, <2>1 DEF Base
    <2> QED
      BY <1>2, <2>1, <2>2 DEF Others
  <1>6. Over(d)
    <2>1. d.http.state # "open" /\ \A q \in 1..d.http.current : Asks(q) => Answered(d.log.out, q)
      BY <1>2, <1>5
    <2> QED
      BY <1>2, <1>4, <2>1, Leaves
  <1>7. Asked(t, d, r)
    BY <1>2, <1>6 DEF Asked
  <1> QED
    BY <1>3, <1>7 DEF d

(* One that closes the connection was asked.                               *)
LEMMA AskedClose ==
    ASSUME HttpAssumption, requests \in Seq(Request), NEW t, Starts(t), Does(t.http.current) = "close"
    PROVE  Asked(t, Settled(Close(t)), t.http.current)
  <1> DEFINE r == t.http.current
             d == Close(t)
  <1>1. Base(t) /\ Fresh(t) /\ t \in Conns /\ r \in DOMAIN requests /\ r \in Nat /\ t.http.onAborted = 0
    BY RequestType DEF Starts, Base
  <1>2. t.log.seen = [i \in 1..r |-> i] /\ \A q \in DOMAIN requests : t.log.aborted[q] = 0
    BY <1>1 DEF Base, Tells
  <1>3. ASSUME NEW q \in 1..r
        PROVE  IF Asks(q) THEN Answered(t.log.out, q) <=> t.http.onAborted # q ELSE t.http.onAborted # q
    <2>1. q # 0 /\ (Asks(q) => q # r)
      BY <1>1 DEF Asks
    <2>2. Asks(q) => Answered(t.log.out, q)
      BY <1>1, <2>1 DEF Base
    <2> QED
      BY <1>1, <2>1, <2>2
  <1>4. WellFormed(t.log.out)
    BY <1>1 DEF Fresh, Below
  <1>5. /\ Over(d) /\ d.log.body = t.log.body /\ d.log.fins = t.log.fins
        /\ d.http.fallback = <<>> /\ d.http.streaming = 0 /\ d.http.state = "closed"
    BY <1>1, <1>2, <1>3, <1>4, Closes
  <1>6. Settled(d) = d
    BY <1>5 DEF Settled
  <1> HIDE DEF d
  <1>7. Asked(t, d, r)
    BY <1>5 DEF Asked
  <1> QED
    BY <1>6, <1>7 DEF d

(* One that does nothing terminates the process.                           *)
LEMMA AskedNothing ==
    ASSUME HttpAssumption, requests \in Seq(Request), NEW t, Starts(t), ~Asks(t.http.current)
    PROVE  Asked(t, Settled(t), t.http.current)
  <1> DEFINE r == t.http.current
             h == [t.http EXCEPT !.state = "terminated"]
             d == [t EXCEPT !.http = h]
  <1>1. Base(t) /\ Fresh(t) /\ t \in Conns /\ r \in DOMAIN requests /\ r \in Nat /\ t.http \in Https
        /\ t.http.pending = TRUE /\ t.http.onAborted = 0 /\ t.http.state = "open"
    BY RequestType, ConnParts DEF Starts, Base
  <1>2. Settled(t) = d
    <2>1. Settled(t) = [t EXCEPT !.http.state = "terminated"]
      BY <1>1 DEF Settled
    <2> QED
      BY <1>1, <2>1 DEF Conns
  <1>3. h \in Https /\ h.state = "terminated" /\ h.current = r
        /\ h.fallback = t.http.fallback /\ h.streaming = t.http.streaming
    BY <1>1 DEF Https
  <1> HIDE DEF h
  <1>4. d \in Conns /\ d.http = h /\ d.log = t.log
    BY <1>1, <1>3, WithHttp
  <1> HIDE DEF d
  <1>5. Tells(d)
    <2>1. Tells(t)
      BY <1>1 DEF Base
    <2> QED
      BY <1>3, <1>4, <2>1 DEF Tells
  <1>6. ASSUME NEW q \in 1..r, Asks(q) PROVE Answered(t.log.out, q)
    BY <1>1, <1>6 DEF Base
  <1>7. Over(d)
    <2>1. d.http.state # "open" /\ \A q \in 1..d.http.current : Asks(q) => Answered(d.log.out, q)
      BY <1>3, <1>4, <1>6
    <2>2. WellFormed(d.log.out)
      BY <1>1, <1>4 DEF Fresh, Below
    <2> QED
      BY <1>4, <1>5, <2>1, <2>2, Leaves
  <1>8. Asked(t, d, r)
    BY <1>3, <1>4, <1>7 DEF Asked
  <1> QED
    BY <1>2, <1>8

(* Whatever the handler does, the connection is at rest behind it, or done.*)
LEMMA HandlerAsked ==
    ASSUME HttpAssumption, requests \in Seq(Request), NEW t, Starts(t), NEW n \in 0..ReplySize
    PROVE  Asked(t, Settled(Handle(t, t.http.current, n, Does(t.http.current))), t.http.current)
  <1> DEFINE r == t.http.current
             does == Does(r)
  <1>1. CASE does = "upgrade"
    BY <1>1, AskedUpgrade DEF Handle
  <1>2. CASE does = "end"
    BY <1>2, AskedEnd DEF Handle
  <1>3. CASE does = "read"
    BY <1>3, AskedRead DEF Handle
  <1>4. CASE does = "early"
    BY <1>4, AskedEarly DEF Handle
  <1>5. CASE does = "later"
    BY <1>5, AskedLater DEF Handle
  <1>6. CASE does = "try"
    BY <1>6, AskedTry DEF Handle
  <1>7. CASE does = "close"
    BY <1>7, AskedClose DEF Handle
  <1>8. CASE does \notin {"upgrade", "end", "read", "early", "later", "try", "close"}
    <2>1. Handle(t, r, n, does) = t
      BY <1>8 DEF Handle
    <2>2. ~Asks(r)
      BY <1>8 DEF Asks
    <2> QED
      BY <2>1, <2>2, AskedNothing
  <1> QED
    BY <1>1, <1>2, <1>3, <1>4, <1>5, <1>6, <1>7, <1>8

(* The handler of the next request, or the connection is closed when that  *)
(* one comes before its turn or has no handler.                            *)
LEMMA RequestAsked ==
    ASSUME HttpAssumption, requests \in Seq(Request), NEW c, Ready(c),
           NEW r \in DOMAIN requests, r = c.http.current + 1, NEW n \in 0..ReplySize
    PROVE  Asked(c, RequestHandler(c, r, n), r)
  <1>1. /\ c \in Conns /\ Answers(c) /\ Waits(c) /\ Tells(c) /\ c.http.current \in Nat /\ c.http \in Https
    BY CurrentType, ConnParts DEF Ready
  <1>2. WellFormed(c.log.out)
    BY <1>1 DEF Answers
  <1>3. c.log.seen = [i \in 1..c.http.current |-> i] /\ \A q \in DOMAIN requests : c.log.aborted[q] = 0
    BY <1>1 DEF Tells
  <1>4. ASSUME NEW q \in 1..c.http.current
        PROVE  IF Asks(q) THEN Answered(c.log.out, q) <=> c.http.onAborted # q ELSE c.http.onAborted # q
    <2>1. c.http.pending => c.http.onAborted = c.http.current /\ Asks(c.http.current)
      BY <1>1 DEF Waits, Asks
    <2>2. ~c.http.pending => c.http.onAborted = 0
      BY <1>1 DEF Waits
    <2>3. Asks(q) => (Answered(c.log.out, q) <=> ~(c.http.pending /\ c.http.current = q))
      BY <1>1 DEF Answers
    <2> QED
      BY <1>1, <2>1, <2>2, <2>3
  <1>5. ASSUME NEW s \in Conns, s.log = c.log, s.http.onAborted = c.http.onAborted
        PROVE  Asked(c, Close(s), r)
    <2> DEFINE d == Close(s)
    <2>1. /\ Over(d) /\ d.log.body = c.log.body /\ d.log.fins = c.log.fins
          /\ d.http.fallback = <<>> /\ d.http.streaming = 0 /\ d.http.state = "closed"
      BY <1>1, <1>2, <1>3, <1>4, <1>5, Closes
    <2> HIDE DEF d
    <2>2. Asked(c, d, r)
      BY <2>1 DEF Asked
    <2> QED
      BY <2>2 DEF d
  <1>6. CASE c.http.pending
    <2> DEFINE s == Reset(c)
    <2>1. s \in Conns /\ s.http = ResetHttp(c.http) /\ s.log = c.log
      BY <1>1, ShownIs
    <2>2. RequestHandler(c, r, n) = Close(s)
      BY <1>6 DEF RequestHandler, Reset
    <2> HIDE DEF s
    <2>3. s.http.onAborted = c.http.onAborted
      BY <1>1, <2>1 DEF ResetHttp, Https
    <2> QED
      BY <1>5, <2>1, <2>2, <2>3
  <1>7. CASE ~c.http.pending /\ Does(r) = "none"
    <2> DEFINE s == Begun(c, r)
    <2>1. s \in Conns /\ s.http = BegunHttp(c.http, r) /\ s.log = c.log
      BY <1>1, ShownIs
    <2>2. RequestHandler(c, r, n) = Close(s)
      BY <1>7 DEF RequestHandler, Begun, Reset
    <2> HIDE DEF s
    <2>3. s.http.onAborted = c.http.onAborted
      BY <1>1, <2>1 DEF BegunHttp, Https
    <2> QED
      BY <1>5, <2>1, <2>2, <2>3
  <1>8. CASE ~c.http.pending /\ Does(r) # "none"
    <2> DEFINE t == Shown(c, r)
               d == Settled(Handle(t, r, n, Does(r)))
    <2>1. RequestHandler(c, r, n) = d
      BY <1>8 DEF RequestHandler, Shown, Begun, Reset
    <2>2. /\ Base(t) /\ Fresh(t)
          /\ t.http.current = r /\ t.http.pending = TRUE /\ t.http.onAborted = 0 /\ t.http.onWritable = 0
          /\ t.http.inStream = c.http.inStream
          /\ t.http.fallback = c.http.fallback /\ t.http.streaming = c.http.streaming
          /\ t.log.body = c.log.body /\ t.log.fins = c.log.fins
      BY <1>8, ShownBase
    <2> HIDE DEF t
    <2>3. Starts(t)
      BY <2>2 DEF Starts
    <2>4. Asked(t, d, r)
      BY <2>2, <2>3, HandlerAsked
    <2> HIDE DEF d
    <2>5. Asked(c, d, r)
      BY <2>2, <2>4 DEF Asked
    <2> QED
      BY <2>1, <2>5
  <1> QED
    BY <1>6, <1>7, <1>8

(* The requests stay, and with them what is said of a connection.          *)
LEMMA SameRequests ==
    ASSUME requests' = requests, NEW d, NEW left, NEW more, NEW at
    PROVE  (Holds(d, left, more, at) => Holds(d, left, more, at)') /\ Seq(Bytes)' = Seq(Bytes)
  <1>1. \A r : Does(r)' = Does(r)
    BY DEF Does
  <1>2. \A r : Asks(r)' <=> Asks(r)
    BY <1>1 DEF Asks
  <1>3. \A r : Size(r)' = Size(r)
    BY DEF Size
  <1>4. \A r : Reads(r)' <=> Reads(r)
    BY <1>1 DEF Reads
  <1>5. \A r : Body(r)' = Body(r)
    BY DEF Body
  <1>6. Conns' = Conns
    BY DEF Conns, Https, Logs, Owner, Bytes
  <1>7. Answers(d) => Answers(d)'
    BY <1>2 DEF Answers
  <1>8. Waits(d) => Waits(d)'
    BY <1>1 DEF Waits
  <1>9. Attaches(d) => Attaches(d)'
    BY <1>1 DEF Attaches
  <1>10. Times(d) => Times(d)'
    BY <1>1 DEF Times
  <1>11. Tells(d) => Tells(d)'
    BY DEF Tells
  <1>12. Ready(d) => Ready(d)'
    BY <1>6, <1>7, <1>8, <1>9, <1>10, <1>11 DEF Ready
  <1>13. Over(d) => Over(d)'
    BY <1>2, <1>6 DEF Over, Heard
  <1>14. BodyParts(d) => BodyParts(d)'
    BY <1>5 DEF BodyParts
  <1>15. EmptyBodyRead' = EmptyBodyRead
    BY <1>1 DEF EmptyBodyRead
  <1>16. \A n, fin : Bodies(d, n, fin) => Bodies(d, n, fin)'
    BY <1>4, <1>5 DEF Bodies
  <1>17. \A s, r, n : Stream(s, r, n) => Stream(s, r, n)'
    <2>1. \A p : NextByte(p)' = NextByte(p)
      BY <1>3 DEF NextByte
    <2>2. Count' = Count
      BY DEF Count
    <2>3. \A s : Chain(s) => Chain(s)'
      BY <1>3, <2>1, <2>2 DEF Chain
    <2>4. \A s, r, n : Begins(s, r, n) => Begins(s, r, n)'
      BY <1>3, <2>2 DEF Begins
    <2> QED
      BY <2>3, <2>4 DEF Stream
  <1>18. \A r : Whole(r)' = Whole(r)
    BY <1>3 DEF Whole
  <1>19. \A s : GetHeaders(s)' = GetHeaders(s)
    BY DEF GetHeaders
  <1>20. Parses(d.http, left, more, at) => Parses(d.http, left, more, at)'
    BY <1>17, <1>18, <1>19 DEF Parses
  <1>21. Holds(d, left, more, at) => Holds(d, left, more, at)'
    <2> SUFFICES ASSUME Holds(d, left, more, at) PROVE Holds(d, left, more, at)'
      OBVIOUS
    <2>1. CASE d.http.state = "open"
      <3> DEFINE n == Whole(d.http.current) - d.http.streaming
                 fin == d.http.streaming = 0
      <3>1. Ready(d) /\ Parses(d.http, left, more, at) /\ (~EmptyBodyRead => Bodies(d, n, fin))
        BY <2>1 DEF Holds
      <3>2. Ready(d)' /\ Parses(d.http, left, more, at)'
        BY <1>12, <1>20, <3>1
      <3>3. Bodies(d, n, fin) => Bodies(d, n, fin)'
        <4>1. n' = n
          BY <1>18
        <4> HIDE DEF n, fin
        <4>2. fin' = fin
          BY DEF fin
        <4> QED
          BY <1>16, <4>1, <4>2
      <3>4. ~EmptyBodyRead' => Bodies(d, n, fin)'
        BY <1>15, <3>1, <3>3
      <3> QED
        BY <2>1, <3>2, <3>4 DEF Holds
    <2>2. CASE d.http.state # "open"
      <3>1. Over(d) /\ Keeps(d.http) /\ at = "idle" /\ (~EmptyBodyRead => BodyParts(d))
        BY <2>2 DEF Holds
      <3>2. Over(d)' /\ (~EmptyBodyRead' => BodyParts(d)')
        BY <1>13, <1>14, <1>15, <3>1
      <3> QED
        BY <2>2, <3>1, <3>2 DEF Holds, Keeps
    <2> QED
      BY <2>1, <2>2
  <1> QED
    BY <1>21 DEF Bytes

(* A step that ends with a connection of which the invariant holds.        *)
LEMMA BecomesInv ==
    ASSUME HttpTypes, NEW d, NEW left \in Seq(Bytes), NEW next \in {"idle", "parse", "stream", "join", "end"},
           Becomes(d, left, next),
           IF d.http.state = "open" THEN Holds(d, left, sending, next) ELSE Holds(d, <<>>, sending, "idle"),
           d \in Conns
    PROVE  HttpInv'
  <1>1. requests' = requests /\ sending' = sending /\ http' = d.http /\ log' = d.log
    BY DEF Becomes
  <1>2. Conn' = d
    BY <1>1 DEF Conn, Conns
  <1>3. HttpTypes'
    <2>1. chunk' \in Seq(Bytes) /\ stage' \in {"idle", "parse", "stream", "join", "end"}
      BY DEF Becomes
    <2>2. Seq(Bytes)' = Seq(Bytes)
      BY <1>1, SameRequests
    <2> QED
      BY <1>1, <2>1, <2>2 DEF HttpTypes
  <1>4. Holds(d, chunk', sending, stage')
    BY DEF Becomes
  <1>5. Holds(Conn, chunk, sending, stage)'
    BY <1>1, <1>2, <1>4, SameRequests
  <1> QED
    BY <1>3, <1>5 DEF HttpInv

(* Nothing that is said of a connection at rest is about the parser.       *)
LEMMA ReadySame ==
    ASSUME NEW c, NEW d, d \in Conns, d.log = c.log,
           d.http.state = c.http.state, d.http.timer = c.http.timer, d.http.current = c.http.current,
           d.http.pending = c.http.pending, d.http.calls = c.http.calls, d.http.offset = c.http.offset,
           d.http.onAborted = c.http.onAborted, d.http.onWritable = c.http.onWritable,
           d.http.inStream = c.http.inStream
    PROVE  /\ Ready(c) => Ready(d)
           /\ \A n, fin : Bodies(c, n, fin) => Bodies(d, n, fin)
  <1>1. Answers(c) => Answers(d)
    BY DEF Answers
  <1>2. Waits(c) => Waits(d)
    BY DEF Waits, Fresh, Partial, Chunked
  <1>3. Attaches(c) => Attaches(d)
    BY DEF Attaches
  <1>4. Times(c) => Times(d)
    BY DEF Times
  <1>5. Tells(c) => Tells(d)
    BY DEF Tells
  <1>6. Ready(c) => Ready(d)
    BY <1>1, <1>2, <1>3, <1>4, <1>5 DEF Ready
  <1>7. \A n, fin : Bodies(c, n, fin) => Bodies(d, n, fin)
    BY DEF Bodies
  <1> QED
    BY <1>6, <1>7

(* Other bytes in the fallback.                                            *)
LEMMA FallbackIs ==
    ASSUME requests \in Seq(Request), NEW c \in Conns, NEW bytes \in Seq(Bytes)
    PROVE  LET d == [c EXCEPT !.http.fallback = bytes]
           IN  /\ d \in Conns /\ d.log = c.log /\ d.http.fallback = bytes
               /\ d.http.streaming = c.http.streaming /\ d.http.current = c.http.current
               /\ d.http.inStream = c.http.inStream /\ d.http.state = c.http.state
               /\ Ready(c) => Ready(d)
               /\ \A k, fin : Bodies(c, k, fin) => Bodies(d, k, fin)
  <1> DEFINE d == [c EXCEPT !.http.fallback = bytes]
             h == [c.http EXCEPT !.fallback = bytes]
  <1>1. c.http \in Https
    BY ConnParts
  <1>2. h \in Https
    BY <1>1 DEF Https
  <1>3. d = [c EXCEPT !.http = h]
    BY DEF Conns
  <1>4. /\ h.state = c.http.state /\ h.timer = c.http.timer /\ h.current = c.http.current
        /\ h.pending = c.http.pending /\ h.calls = c.http.calls /\ h.offset = c.http.offset
        /\ h.onAborted = c.http.onAborted /\ h.onWritable = c.http.onWritable
        /\ h.inStream = c.http.inStream /\ h.fallback = bytes /\ h.streaming = c.http.streaming
    BY <1>1 DEF Https
  <1> HIDE DEF h
  <1>5. d \in Conns /\ d.http = h /\ d.log = c.log
    BY <1>2, <1>3, WithHttp
  <1> HIDE DEF d
  <1>6. (Ready(c) => Ready(d)) /\ \A k, fin : Bodies(c, k, fin) => Bodies(d, k, fin)
    BY <1>4, <1>5, ReadySame
  <1> QED
    BY <1>4, <1>5, <1>6 DEF d

(* Another length of what is missing of the body.                          *)
LEMMA StreamingIs ==
    ASSUME requests \in Seq(Request), NEW c \in Conns, NEW n \in Nat
    PROVE  LET d == [c EXCEPT !.http.streaming = n]
           IN  /\ d \in Conns /\ d.log = c.log /\ d.http.streaming = n
               /\ d.http.fallback = c.http.fallback /\ d.http.current = c.http.current
               /\ d.http.inStream = c.http.inStream /\ d.http.state = c.http.state
               /\ Ready(c) => Ready(d)
               /\ \A k, fin : Bodies(c, k, fin) => Bodies(d, k, fin)
  <1> DEFINE d == [c EXCEPT !.http.streaming = n]
             h == [c.http EXCEPT !.streaming = n]
  <1>1. c.http \in Https
    BY ConnParts
  <1>2. h \in Https
    BY <1>1 DEF Https
  <1>3. d = [c EXCEPT !.http = h]
    BY DEF Conns
  <1>4. /\ h.state = c.http.state /\ h.timer = c.http.timer /\ h.current = c.http.current
        /\ h.pending = c.http.pending /\ h.calls = c.http.calls /\ h.offset = c.http.offset
        /\ h.onAborted = c.http.onAborted /\ h.onWritable = c.http.onWritable
        /\ h.inStream = c.http.inStream /\ h.streaming = n /\ h.fallback = c.http.fallback
    BY <1>1 DEF Https
  <1> HIDE DEF h
  <1>5. d \in Conns /\ d.http = h /\ d.log = c.log
    BY <1>2, <1>3, WithHttp
  <1> HIDE DEF d
  <1>6. (Ready(c) => Ready(d)) /\ \A k, fin : Bodies(c, k, fin) => Bodies(d, k, fin)
    BY <1>4, <1>5, ReadySame
  <1> QED
    BY <1>4, <1>5, <1>6 DEF d

-----------------------------------------------------------------------------
(* The bodies.                                                             *)

\* A connection whose reader was told of so many bytes more.
Fed(c, bytes, fin) ==
    LET r == c.http.inStream
    IN  [Timer(c, ~fin) EXCEPT !.log.body[r] = @ \o bytes, !.log.fins[r] = IF fin THEN @ + 1 ELSE @]

(* The reader is told of them, and nobody else.                            *)
LEMMA FedIs ==
    ASSUME requests \in Seq(Request), NEW c \in Conns, c.http.inStream \in DOMAIN requests,
           NEW bytes \in Seq(Bytes), NEW fin \in BOOLEAN
    PROVE  LET t == Fed(c, bytes, fin)
               r == c.http.inStream
           IN  /\ t \in Conns /\ t.http = [c.http EXCEPT !.timer = ~fin]
               /\ t.log.seen = c.log.seen /\ t.log.out = c.log.out /\ t.log.aborted = c.log.aborted
               /\ t.log.body = [c.log.body EXCEPT ![r] = c.log.body[r] \o bytes]
               /\ t.log.fins = [c.log.fins EXCEPT ![r] = IF fin THEN c.log.fins[r] + 1 ELSE c.log.fins[r]]
  <1> DEFINE r == c.http.inStream
             u == Timer(c, ~fin)
             body == [c.log.body EXCEPT ![r] = c.log.body[r] \o bytes]
             fins == [c.log.fins EXCEPT ![r] = IF fin THEN c.log.fins[r] + 1 ELSE c.log.fins[r]]
             l == [c.log EXCEPT !.body = body, !.fins = fins]
             t == Fed(c, bytes, fin)
  <1>1. c.log \in Logs /\ r \in DOMAIN requests
    BY ConnParts
  <1>2. u \in Conns /\ u.http = [c.http EXCEPT !.timer = ~fin] /\ u.log = c.log
    <2>1. (~fin) \in BOOLEAN
      OBVIOUS
    <2> QED
      BY <2>1, TimerIs
  <1>3. t = [u EXCEPT !.log = l]
    <2>1. t = [u EXCEPT !.log.body[r] = @ \o bytes, !.log.fins[r] = IF fin THEN @ + 1 ELSE @]
      BY DEF Fed
    <2> HIDE DEF u, r
    <2> QED
      BY <1>1, <1>2, <2>1 DEF Conns, Logs
  <1> HIDE DEF u, t
  <1>4. body \in [DOMAIN requests -> Seq(Bytes)] /\ fins \in [DOMAIN requests -> Nat]
    <2>1. c.log.body \in [DOMAIN requests -> Seq(Bytes)] /\ c.log.fins \in [DOMAIN requests -> Nat]
      BY <1>1 DEF Logs
    <2> HIDE DEF r
    <2>2. c.log.body[r] \in Seq(Bytes) /\ c.log.fins[r] \in Nat
      BY <1>1, <2>1
    <2> DEFINE v == c.log.body[r] \o bytes
               w == IF fin THEN c.log.fins[r] + 1 ELSE c.log.fins[r]
    <2>3. v \in Seq(Bytes)
      BY <2>2
    <2>4. w \in Nat
      BY <2>2
    <2>5. body = [c.log.body EXCEPT ![r] = v] /\ fins = [c.log.fins EXCEPT ![r] = w]
      OBVIOUS
    <2> HIDE DEF v, w, body, fins
    <2>6. body \in [DOMAIN requests -> Seq(Bytes)]
      BY <2>1, <2>3, <2>5
    <2>7. fins \in [DOMAIN requests -> Nat]
      BY <2>1, <2>4, <2>5
    <2> QED
      BY <2>6, <2>7
  <1> HIDE DEF body, fins
  <1>5. l \in Logs /\ l.seen = c.log.seen /\ l.out = c.log.out /\ l.aborted = c.log.aborted
        /\ l.body = body /\ l.fins = fins
    BY <1>1, <1>4 DEF Logs
  <1> HIDE DEF l
  <1>6. t \in Conns /\ t.http = u.http /\ t.log = l
    BY <1>2, <1>3, <1>5, WithLog
  <1> QED
    BY <1>2, <1>5, <1>6 DEF t, body, fins

\* What telling the reader makes of a connection at rest.
Read(c, d, bytes, fin) ==
    LET r == c.http.inStream
    IN  /\ Ready(d)
        /\ d.http.current = c.http.current /\ d.http.fallback = c.http.fallback
        /\ d.http.streaming = c.http.streaming
        /\ IF r = 0 THEN d = c
           ELSE /\ d.log.body = [c.log.body EXCEPT ![r] = c.log.body[r] \o bytes]
                /\ d.log.fins = [c.log.fins EXCEPT ![r] = IF fin THEN c.log.fins[r] + 1 ELSE c.log.fins[r]]
                /\ d.http.inStream = IF fin THEN 0 ELSE r

(* The reader of a connection at rest.                                     *)
LEMMA ReaderIs ==
    ASSUME requests \in Seq(Request), NEW c, Ready(c), c.http.inStream # 0
    PROVE  /\ c \in Conns /\ c.http.inStream \in DOMAIN requests
           /\ c.http.inStream \in 1..c.http.current
           /\ \/ Does(c.http.inStream) = "early"
              \/ Does(c.http.inStream) = "read" /\ c.http.pending = TRUE /\ c.http.inStream = c.http.current
  <1>1. c \in Conns /\ Attaches(c) /\ c.http \in Https
    BY ConnParts DEF Ready
  <1>2. c.http.inStream \in DOMAIN requests /\ c.http.pending \in BOOLEAN
    BY <1>1 DEF Https, Owner
  <1>3. c.http.inStream \in Nat /\ c.http.inStream >= 1 /\ c.http.current \in Nat
    BY <1>1, <1>2, RequestType, CurrentType
  <1> QED
    BY <1>1, <1>2, <1>3 DEF Attaches

(* Detaching the reader.                                                   *)
LEMMA DetachIs ==
    ASSUME requests \in Seq(Request), NEW c \in Conns
    PROVE  LET d == [c EXCEPT !.http.inStream = 0]
           IN  d \in Conns /\ d.http = [c.http EXCEPT !.inStream = 0] /\ d.log = c.log
  <1> DEFINE h == [c.http EXCEPT !.inStream = 0]
  <1>1. h \in Https
    BY ConnParts DEF Https, Owner
  <1>2. [c EXCEPT !.http.inStream = 0] = [c EXCEPT !.http = h]
    BY DEF Conns
  <1> HIDE DEF h
  <1>3. LET d == [c EXCEPT !.http.inStream = 0] IN d \in Conns /\ d.http = h /\ d.log = c.log
    BY <1>1, <1>2, WithHttp
  <1> QED
    BY <1>3 DEF h

(* The body goes on: the timeout runs again.                               *)
LEMMA ReadOn ==
    ASSUME requests \in Seq(Request), NEW c, Ready(c), c.http.inStream # 0, NEW bytes \in Seq(Bytes)
    PROVE  Read(c, Fed(c, bytes, FALSE), bytes, FALSE)
  <1> DEFINE r == c.http.inStream
             d == Fed(c, bytes, FALSE)
             h == [c.http EXCEPT !.timer = TRUE]
  <1>1. c \in Conns /\ r \in DOMAIN requests
    BY ReaderIs
  <1>2. c.http \in Https
    BY <1>1, ConnParts
  <1>3. /\ d \in Conns /\ d.http = h
        /\ d.log.seen = c.log.seen /\ d.log.out = c.log.out /\ d.log.aborted = c.log.aborted
        /\ d.log.body = [c.log.body EXCEPT ![r] = c.log.body[r] \o bytes]
        /\ d.log.fins = [c.log.fins EXCEPT ![r] = c.log.fins[r]]
    <2>1. FALSE \in BOOLEAN /\ (~FALSE) = TRUE
      OBVIOUS
    <2> QED
      BY <1>1, <2>1, FedIs
  <1>4. /\ h.state = c.http.state /\ h.current = c.http.current /\ h.inStream = c.http.inStream
        /\ h.pending = c.http.pending /\ h.onAborted = c.http.onAborted /\ h.onWritable = c.http.onWritable
        /\ h.calls = c.http.calls /\ h.offset = c.http.offset /\ h.timer = TRUE
        /\ h.fallback = c.http.fallback /\ h.streaming = c.http.streaming
    BY <1>2 DEF Https
  <1> HIDE DEF d, h
  <1>5. c.http.state = "open" /\ Answers(c) /\ Waits(c) /\ Attaches(c) /\ Tells(c)
    BY DEF Ready
  <1>6. Answers(d)
    BY <1>3, <1>4, <1>5 DEF Answers
  <1>7. Waits(d)
    BY <1>3, <1>4, <1>5 DEF Waits, Fresh, Partial, Chunked
  <1>8. Attaches(d)
    BY <1>3, <1>4, <1>5 DEF Attaches
  <1>9. Times(d)
    BY <1>3, <1>4 DEF Times
  <1>10. Tells(d)
    BY <1>3, <1>4, <1>5 DEF Tells
  <1>11. Ready(d)
    BY <1>3, <1>4, <1>5, <1>6, <1>7, <1>8, <1>9, <1>10 DEF Ready
  <1>12. Read(c, d, bytes, FALSE)
    BY <1>3, <1>4, <1>11 DEF Read
  <1> QED
    BY <1>12 DEF d

(* The end of the body of a handler that answered before it.               *)
LEMMA ReadEarly ==
    ASSUME requests \in Seq(Request), NEW c, Ready(c), c.http.inStream # 0, Does(c.http.inStream) = "early",
           NEW bytes \in Seq(Bytes)
    PROVE  Read(c, [Fed(c, bytes, TRUE) EXCEPT !.http.inStream = 0], bytes, TRUE)
  <1> DEFINE r == c.http.inStream
             t == Fed(c, bytes, TRUE)
             d == [t EXCEPT !.http.inStream = 0]
             h == [c.http EXCEPT !.timer = FALSE]
             g == [h EXCEPT !.inStream = 0]
  <1>1. c \in Conns /\ r \in DOMAIN requests /\ r \in 1..c.http.current
    BY ReaderIs
  <1>2. c.http \in Https
    BY <1>1, ConnParts
  <1>3. /\ t \in Conns /\ t.http = h
        /\ t.log.seen = c.log.seen /\ t.log.out = c.log.out /\ t.log.aborted = c.log.aborted
        /\ t.log.body = [c.log.body EXCEPT ![r] = c.log.body[r] \o bytes]
        /\ t.log.fins = [c.log.fins EXCEPT ![r] = c.log.fins[r] + 1]
    <2>1. TRUE \in BOOLEAN /\ (~TRUE) = FALSE
      OBVIOUS
    <2> QED
      BY <1>1, <2>1, FedIs
  <1> HIDE DEF t
  <1>4. d \in Conns /\ d.http = g /\ d.log = t.log
    BY <1>3, DetachIs
  <1>5. /\ g.state = c.http.state /\ g.current = c.http.current /\ g.inStream = 0
        /\ g.pending = c.http.pending /\ g.onAborted = c.http.onAborted /\ g.onWritable = c.http.onWritable
        /\ g.calls = c.http.calls /\ g.offset = c.http.offset
        /\ g.fallback = c.http.fallback /\ g.streaming = c.http.streaming
    BY <1>2 DEF Https
  <1> HIDE DEF d, h, g
  <1>6. c.http.state = "open" /\ Answers(c) /\ Waits(c) /\ Tells(c)
    BY DEF Ready
  <1>7. Answers(d)
    BY <1>3, <1>4, <1>5, <1>6 DEF Answers
  <1>8. Waits(d)
    <2>1. c.http.pending => Does(c.http.current) # "read"
      BY <1>6 DEF Waits
    <2> QED
      BY <1>3, <1>4, <1>5, <1>6, <2>1 DEF Waits, Fresh, Partial, Chunked
  <1>9. Attaches(d)
    BY <1>4, <1>5 DEF Attaches
  <1>10. Times(d)
    BY <1>1, <1>4, <1>5 DEF Times
  <1>11. Tells(d)
    BY <1>3, <1>4, <1>5, <1>6 DEF Tells
  <1>12. Ready(d)
    BY <1>4, <1>5, <1>6, <1>7, <1>8, <1>9, <1>10, <1>11 DEF Ready
  <1>13. Read(c, d, bytes, TRUE)
    BY <1>3, <1>4, <1>5, <1>12 DEF Read
  <1> QED
    BY <1>13 DEF d, t

(* The end of the body of a handler that answers with it.                  *)
LEMMA ReadEnd ==
    ASSUME HttpAssumption, requests \in Seq(Request), NEW c, Ready(c), c.http.inStream # 0,
           Does(c.http.inStream) = "read", NEW bytes \in Seq(Bytes)
    PROVE  Read(c, [End(Fed(c, bytes, TRUE), 1) EXCEPT !.http.inStream = 0], bytes, TRUE)
  <1> DEFINE r == c.http.inStream
             t == Fed(c, bytes, TRUE)
             e == End(t, 1)
             d == [e EXCEPT !.http.inStream = 0]
             h == [c.http EXCEPT !.timer = FALSE]
             g == [e.http EXCEPT !.inStream = 0]
  <1>1. c \in Conns /\ r \in DOMAIN requests /\ r \in 1..c.http.current
        /\ c.http.pending = TRUE /\ r = c.http.current
    BY ReaderIs
  <1>2. c.http \in Https
    BY <1>1, ConnParts
  <1>3. /\ t \in Conns /\ t.http = h
        /\ t.log.seen = c.log.seen /\ t.log.out = c.log.out /\ t.log.aborted = c.log.aborted
        /\ t.log.body = [c.log.body EXCEPT ![r] = c.log.body[r] \o bytes]
        /\ t.log.fins = [c.log.fins EXCEPT ![r] = c.log.fins[r] + 1]
    <2>1. TRUE \in BOOLEAN /\ (~TRUE) = FALSE
      OBVIOUS
    <2>2. c \in Conns /\ r \in DOMAIN requests
      BY <1>1
    <2> QED
      BY <2>1, <2>2, FedIs
  <1>4. /\ h.state = c.http.state /\ h.current = c.http.current
        /\ h.calls = c.http.calls /\ h.offset = c.http.offset
        /\ h.fallback = c.http.fallback /\ h.streaming = c.http.streaming
    BY <1>2 DEF Https
  <1> HIDE DEF t, h
  <1>5. c.http.state = "open" /\ Answers(c) /\ Waits(c) /\ Tells(c)
    BY DEF Ready
  <1>6. Fresh(t)
    <2>1. Fresh(c)
      BY <1>1, <1>5 DEF Waits
    <2> QED
      BY <1>3, <1>4, <2>1 DEF Fresh
  <1>7. Ended(t, e)
    BY <1>3, <1>6, EndIs
  <1> HIDE DEF e
  <1>8. /\ e \in Conns /\ e.http.state = "open" /\ e.http.current = r
        /\ e.http.fallback = c.http.fallback /\ e.http.streaming = c.http.streaming
        /\ e.log.seen = c.log.seen /\ e.log.aborted = c.log.aborted
        /\ e.log.body = t.log.body /\ e.log.fins = t.log.fins
        /\ WellFormed(e.log.out) /\ Answered(e.log.out, r) /\ Others(c.log.out, e.log.out, r)
        /\ \A i \in DOMAIN e.log.out : e.log.out[i].r <= r
        /\ e.http.pending = FALSE /\ e.http.onAborted = 0 /\ e.http.onWritable = 0 /\ e.http.timer = TRUE
    BY <1>1, <1>3, <1>4, <1>5, <1>7 DEF Ended, Untouched
  <1>9. e.http \in Https
    BY <1>8, ConnParts
  <1>10. d \in Conns /\ d.http = g /\ d.log = e.log
    BY <1>8, DetachIs
  <1>11. /\ g.state = "open" /\ g.current = r /\ g.inStream = 0
         /\ g.pending = FALSE /\ g.onAborted = 0 /\ g.onWritable = 0 /\ g.timer = TRUE
         /\ g.fallback = c.http.fallback /\ g.streaming = c.http.streaming
    BY <1>8, <1>9 DEF Https
  <1> HIDE DEF d, g
  <1>12. Answers(d)
    <2>1. ASSUME NEW q \in 1..r, Asks(q) PROVE Answered(e.log.out, q)
      <3>1. CASE q = r
        BY <1>8, <3>1
      <3>2. CASE q # r
        <4>1. Answered(c.log.out, q)
          BY <1>1, <1>5, <2>1, <3>2 DEF Answers
        <4>2. q \in Int
          BY <1>1, RequestType
        <4> QED
          BY <1>8, <3>2, <4>1, <4>2 DEF Others
      <3> QED
        BY <3>1, <3>2
    <2> QED
      BY <1>8, <1>10, <1>11, <2>1 DEF Answers
  <1>13. Waits(d)
    BY <1>10, <1>11 DEF Waits
  <1>14. Attaches(d)
    BY <1>10, <1>11 DEF Attaches
  <1>15. Times(d)
    BY <1>10, <1>11 DEF Times
  <1>16. Tells(d)
    BY <1>1, <1>5, <1>8, <1>10, <1>11 DEF Tells
  <1>17. Ready(d)
    BY <1>10, <1>11, <1>12, <1>13, <1>14, <1>15, <1>16 DEF Ready
  <1>18. Read(c, d, bytes, TRUE)
    BY <1>1, <1>3, <1>8, <1>10, <1>11, <1>17 DEF Read
  <1> QED
    BY <1>18 DEF d, e, t

(* Whatever comes of a body, the connection is at rest behind it.          *)
LEMMA DataRead ==
    ASSUME HttpAssumption, requests \in Seq(Request), NEW c, Ready(c), NEW bytes \in Seq(Bytes), NEW fin \in BOOLEAN
    PROVE  Read(c, DataHandler(c, bytes, fin), bytes, fin)
  <1>1. CASE c.http.inStream = 0
    BY <1>1 DEF DataHandler, Read
  <1>2. CASE c.http.inStream # 0
    <2>1. \/ Does(c.http.inStream) = "early"
          \/ Does(c.http.inStream) = "read"
      BY <1>2, ReaderIs
    <2>2. CASE fin = FALSE
      <3>1. DataHandler(c, bytes, FALSE) = Fed(c, bytes, FALSE)
        BY <1>2 DEF DataHandler, Fed
      <3> QED
        BY <1>2, <2>2, <3>1, ReadOn
    <2>3. CASE fin = TRUE /\ Does(c.http.inStream) = "early"
      <3>1. DataHandler(c, bytes, TRUE) = [Fed(c, bytes, TRUE) EXCEPT !.http.inStream = 0]
        BY <1>2, <2>3 DEF DataHandler, Fed
      <3> QED
        BY <1>2, <2>3, <3>1, ReadEarly
    <2>4. CASE fin = TRUE /\ Does(c.http.inStream) = "read"
      <3>1. DataHandler(c, bytes, TRUE) = [End(Fed(c, bytes, TRUE), 1) EXCEPT !.http.inStream = 0]
        BY <1>2, <2>4 DEF DataHandler, Fed
      <3> QED
        BY <1>2, <2>4, <3>1, ReadEnd
    <2> QED
      BY <2>1, <2>2, <2>3, <2>4
  <1> QED
    BY <1>1, <1>2

(* The body of a request.                                                  *)
LEMMA BodyIs ==
    ASSUME requests \in Seq(Request), NEW r \in DOMAIN requests
    PROVE  /\ Body(r) \in Seq(Bytes) /\ Len(Body(r)) = Size(r)
           /\ \A j \in 1..Size(r) : Body(r)[j] = <<r, j>>
           /\ First(0, Body(r)) = <<>> /\ First(Size(r), Body(r)) = Body(r)
  <1> DEFINE b == Body(r)
             n == Size(r)
  <1>1. n \in Nat
    BY RequestType
  <1>2. b = [j \in 1..n |-> <<r, j>>]
    BY DEF Body, Size
  <1>3. \A j \in 1..n : <<r, j>> \in Bytes
    BY <1>1 DEF Bytes
  <1> HIDE DEF n, b
  <1>4. b \in Seq(Bytes) /\ Len(b) = n /\ \A j \in 1..n : b[j] = <<r, j>>
    BY <1>1, <1>2, <1>3
  <1>5. First(0, b) = <<>>
    <2>1. Len(First(0, b)) = 0 /\ First(0, b) \in Seq(Bytes)
      BY <1>1, <1>4, FirstIs
    <2> QED
      BY <2>1
  <1>6. First(n, b) = b
    <2>1. First(n, b) \in Seq(Bytes) /\ Len(First(n, b)) = n /\ \A j \in 1..n : First(n, b)[j] = b[j]
      BY <1>1, <1>4, FirstIs
    <2> DEFINE f == First(n, b)
    <2> HIDE DEF f
    <2>2. f \in Seq(Bytes) /\ Len(f) = n /\ \A j \in 1..n : f[j] = b[j]
      BY <2>1 DEF f
    <2>3. f = b
      BY <1>4, <2>2, SameSeq
    <2> QED
      BY <2>3 DEF f
  <1> QED
    BY <1>4, <1>5, <1>6 DEF n, b

(* The next bytes of a body, behind the first ones.                        *)
LEMMA BodyMore ==
    ASSUME requests \in Seq(Request), NEW r \in DOMAIN requests, NEW k \in Nat, NEW m \in Nat, k + m <= Size(r),
           NEW bytes \in Seq(Bytes), Len(bytes) = m, \A j \in 1..m : bytes[j] = <<r, k + j>>
    PROVE  First(k, Body(r)) \o bytes = First(k + m, Body(r))
  <1> DEFINE b == Body(r)
             n == Size(r)
             f == First(k, b)
             g == First(k + m, b)
  <1>1. n \in Nat /\ k \in 0..n /\ k + m \in 0..n
    BY RequestType
  <1>2. b \in Seq(Bytes) /\ Len(b) = n /\ \A j \in 1..n : b[j] = <<r, j>>
    BY BodyIs
  <1> HIDE DEF b, n
  <1>3. f \in Seq(Bytes) /\ Len(f) = k /\ \A j \in 1..k : f[j] = b[j]
    BY <1>1, <1>2, FirstIs
  <1>4. g \in Seq(Bytes) /\ Len(g) = k + m /\ \A j \in 1..(k + m) : g[j] = b[j]
    <2>1. k + m \in 0..Len(b)
      BY <1>1, <1>2
    <2> QED
      BY <1>2, <2>1, FirstIs
  <1> HIDE DEF f, g
  <1>5. f \o bytes \in Seq(Bytes) /\ Len(f \o bytes) = k + m
    BY <1>3, ConcatIs
  <1>6. ASSUME NEW j \in 1..(k + m) PROVE (f \o bytes)[j] = g[j]
    <2>0. /\ \A i \in 1..k : (f \o bytes)[i] = f[i]
          /\ \A i \in 1..m : (f \o bytes)[k + i] = bytes[i]
      <3>1. f \in Seq(Bytes) /\ Len(f) = k
        BY <1>3
      <3>2. /\ \A i \in 1..Len(f) : (f \o bytes)[i] = f[i]
            /\ \A i \in 1..Len(bytes) : (f \o bytes)[Len(f) + i] = bytes[i]
        BY <3>1, ConcatIs
      <3> QED
        BY <3>1, <3>2
    <2>1. CASE j <= k
      <3>1. j \in 1..k
        BY <1>1, <2>1
      <3> QED
        BY <1>3, <1>4, <2>0, <3>1
    <2>2. CASE j > k
      <3> DEFINE i == j - k
      <3>1. i \in 1..m /\ k + i = j /\ j \in 1..n
        BY <1>1, <2>2
      <3> HIDE DEF i
      <3>2. (f \o bytes)[j] = bytes[i]
        BY <2>0, <3>1
      <3>3. g[j] = <<r, j>>
        BY <1>2, <1>4, <3>1
      <3> QED
        BY <3>1, <3>2, <3>3
    <2>3. j <= k \/ j > k
      OBVIOUS
    <2> QED
      BY <2>1, <2>2, <2>3
  <1>7. f \o bytes = g
    BY <1>4, <1>5, <1>6, SameSeq
  <1> QED
    BY <1>7 DEF f, g, b

(* The current reader is given the next bytes of its body.                 *)
LEMMA BodiesRead ==
    ASSUME requests \in Seq(Request), NEW c, Ready(c), c.http.current # 0,
           NEW k \in Nat, NEW m \in Nat, k + m <= Size(c.http.current), Bodies(c, k, FALSE),
           NEW bytes \in Seq(Bytes), Len(bytes) = m, \A j \in 1..m : bytes[j] = <<c.http.current, k + j>>,
           NEW fin \in BOOLEAN, NEW d, Read(c, d, bytes, fin)
    PROVE  Bodies(d, k + m, fin)
  <1> DEFINE q == c.http.current
  <1>1. c \in Conns /\ q \in DOMAIN requests /\ q \in Nat /\ c.log \in Logs
    BY ConnParts, CurrentType DEF Ready
  <1>2. d.http.current = q
    BY DEF Read
  <1>3. CASE ~Reads(q)
    <2>1. c.http.inStream = 0
      BY <1>3 DEF Bodies
    <2>2. d = c
      BY <2>1 DEF Read
    <2>3. \A r \in DOMAIN requests :
             IF r > q \/ ~Reads(r) THEN c.log.body[r] = <<>> /\ c.log.fins[r] = 0
             ELSE r < q => c.log.body[r] = Body(r) /\ c.log.fins[r] = 1
      BY DEF Bodies
    <2>4. \A r \in DOMAIN requests : r \in Nat
      BY RequestType
    <2>5. \A r \in DOMAIN requests : ~(r > q \/ ~Reads(r)) => r < q
      BY <1>1, <1>3, <2>4
    <2> QED
      BY <1>3, <2>1, <2>2, <2>3, <2>5 DEF Bodies
  <1>4. CASE Reads(q)
    <2>1. c.http.inStream = q
      BY <1>4 DEF Bodies
    <2>2. /\ d.log.body = [c.log.body EXCEPT ![q] = c.log.body[q] \o bytes]
          /\ d.log.fins = [c.log.fins EXCEPT ![q] = IF fin THEN c.log.fins[q] + 1 ELSE c.log.fins[q]]
          /\ d.http.inStream = IF fin THEN 0 ELSE q
      BY <2>1 DEF Read
    <2>3. c.log.body[q] = First(k, Body(q)) /\ c.log.fins[q] = 0
      BY <1>1, <1>4 DEF Bodies
    <2>4. c.log.body[q] \o bytes = First(k + m, Body(q))
      <3>1. q \in DOMAIN requests /\ k + m <= Size(q) /\ \A j \in 1..m : bytes[j] = <<q, k + j>>
        BY <1>1
      <3> HIDE DEF q
      <3>2. First(k, Body(q)) \o bytes = First(k + m, Body(q))
        BY <3>1, BodyMore
      <3> QED
        BY <2>3, <3>2
    <2>5. c.log.body \in [DOMAIN requests -> Seq(Bytes)] /\ c.log.fins \in [DOMAIN requests -> Nat]
      BY <1>1 DEF Logs
    <2>6. ASSUME NEW r \in DOMAIN requests
          PROVE  IF r > q \/ ~Reads(r) THEN d.log.body[r] = <<>> /\ d.log.fins[r] = 0
                 ELSE IF r < q THEN d.log.body[r] = Body(r) /\ d.log.fins[r] = 1
                 ELSE d.log.body[r] = First(k + m, Body(r)) /\ d.log.fins[r] = IF fin THEN 1 ELSE 0
      <3>1. r \in Nat
        BY RequestType
      <3>2. CASE r = q
        <4>1. d.log.body[q] = First(k + m, Body(q))
          BY <1>1, <2>2, <2>4, <2>5
        <4>2. d.log.fins[q] = IF fin THEN 1 ELSE 0
          BY <1>1, <2>2, <2>3, <2>5
        <4> QED
          BY <1>1, <1>4, <3>2, <4>1, <4>2
      <3>3. CASE r # q
        <4>1. d.log.body[r] = c.log.body[r] /\ d.log.fins[r] = c.log.fins[r]
          BY <2>2, <2>5, <3>3
        <4>2. IF r > q \/ ~Reads(r) THEN c.log.body[r] = <<>> /\ c.log.fins[r] = 0
              ELSE r < q => c.log.body[r] = Body(r) /\ c.log.fins[r] = 1
          BY DEF Bodies
        <4>3. r < q \/ r > q
          BY <1>1, <3>1, <3>3
        <4> QED
          BY <4>1, <4>2, <4>3
      <3> QED
        BY <3>2, <3>3
    <2>7. d.http.inStream = IF q # 0 /\ Reads(q) /\ ~fin THEN q ELSE 0
      BY <1>4, <2>2
    <2> QED
      BY <1>2, <2>6, <2>7 DEF Bodies
  <1> QED
    BY <1>3, <1>4

(* When the next request is handled the last one has read its whole body.  *)
LEMMA AskedBodies ==
    ASSUME requests \in Seq(Request), NEW c, Ready(c), NEW r \in DOMAIN requests, r = c.http.current + 1,
           Bodies(c, Whole(c.http.current), TRUE),
           NEW d, Asked(c, d, r), d.http.state = "open"
    PROVE  Bodies(d, 0, FALSE)
  <1> DEFINE q == c.http.current
  <1>1. q \in Nat /\ r \in Nat
    BY CurrentType, RequestType DEF Ready
  <1>2. /\ d.log.body = c.log.body /\ d.log.fins = c.log.fins /\ d.http.current = r
        /\ d.http.inStream = IF Reads(r) THEN r ELSE c.http.inStream
    BY DEF Asked
  <1>3. c.http.inStream = 0
    BY DEF Bodies
  <1>4. ASSUME NEW p \in DOMAIN requests
        PROVE  IF p > r \/ ~Reads(p) THEN c.log.body[p] = <<>> /\ c.log.fins[p] = 0
               ELSE IF p < r THEN c.log.body[p] = Body(p) /\ c.log.fins[p] = 1
               ELSE c.log.body[p] = First(0, Body(p)) /\ c.log.fins[p] = 0
    <2>1. p \in Nat /\ p >= 1
      BY RequestType
    <2>2. IF p > q \/ ~Reads(p) THEN c.log.body[p] = <<>> /\ c.log.fins[p] = 0
          ELSE IF p < q THEN c.log.body[p] = Body(p) /\ c.log.fins[p] = 1
          ELSE c.log.body[p] = First(Whole(q), Body(p)) /\ c.log.fins[p] = 1
      BY DEF Bodies
    <2>3. First(0, Body(p)) = <<>> /\ First(Size(p), Body(p)) = Body(p)
      BY BodyIs
    <2>4. CASE p = q
      <3>1. Whole(q) = Size(p)
        BY <1>1, <2>1, <2>4 DEF Whole
      <3> QED
        BY <1>1, <2>1, <2>2, <2>3, <2>4, <3>1
    <2>5. CASE p # q
      <3>1. p < q \/ p = r \/ p > r
        BY <1>1, <2>1, <2>5
      <3> QED
        BY <1>1, <2>1, <2>2, <2>3, <3>1
    <2> QED
      BY <2>4, <2>5
  <1> QED
    BY <1>1, <1>2, <1>3, <1>4 DEF Bodies

(* No body is wrong as far as it was read.                                 *)
LEMMA BodiesParts ==
    ASSUME requests \in Seq(Request), NEW c, c \in Conns, NEW k \in 0..Whole(c.http.current), NEW fin,
           Bodies(c, k, fin), fin => k = Whole(c.http.current),
           NEW d, d.log.body = c.log.body, d.log.fins = c.log.fins
    PROVE  BodyParts(d)
  <1> DEFINE q == c.http.current
  <1>1. q \in Nat
    BY CurrentType
  <1>2. ASSUME NEW p \in DOMAIN requests
        PROVE  /\ c.log.body[p] = First(Len(c.log.body[p]), Body(p))
               /\ c.log.fins[p] \in 0..1
               /\ c.log.fins[p] = 1 => c.log.body[p] = Body(p)
    <2>1. p \in Nat /\ p >= 1 /\ Size(p) \in Nat
      BY RequestType
    <2>2. IF p > q \/ ~Reads(p) THEN c.log.body[p] = <<>> /\ c.log.fins[p] = 0
          ELSE IF p < q THEN c.log.body[p] = Body(p) /\ c.log.fins[p] = 1
          ELSE c.log.body[p] = First(k, Body(p)) /\ c.log.fins[p] = IF fin THEN 1 ELSE 0
      BY DEF Bodies
    <2>3. /\ Body(p) \in Seq(Bytes) /\ Len(Body(p)) = Size(p)
          /\ First(0, Body(p)) = <<>> /\ First(Size(p), Body(p)) = Body(p)
      BY BodyIs
    <2>4. CASE p > q \/ ~Reads(p)
      BY <2>2, <2>3, <2>4
    <2>5. CASE ~(p > q \/ ~Reads(p)) /\ p < q
      BY <2>2, <2>3, <2>5
    <2>6. CASE ~(p > q \/ ~Reads(p)) /\ ~(p < q)
      <3>1. p = q
        BY <1>1, <2>1, <2>6
      <3>2. Whole(q) = Size(p) /\ k \in 0..Size(p)
        BY <2>1, <3>1 DEF Whole
      <3>3. Len(First(k, Body(p))) = k
        BY <2>1, <2>3, <3>2, FirstIs
      <3>4. c.log.body[p] = First(k, Body(p)) /\ c.log.fins[p] = IF fin THEN 1 ELSE 0
        BY <2>2, <2>6
      <3>5. fin => k = Size(p)
        BY <3>2
      <3> QED
        BY <2>3, <3>3, <3>4, <3>5
    <2> QED
      BY <2>4, <2>5, <2>6
  <1> QED
    BY <1>2 DEF BodyParts

-----------------------------------------------------------------------------
(* The steps of the parser.                                                *)

(* Three sequences behind one another.                                     *)
LEMMA ConcatThree ==
    ASSUME NEW S, NEW s \in Seq(S), NEW t \in Seq(S), NEW u \in Seq(S)
    PROVE  (s \o t) \o u = s \o (t \o u)
  OBVIOUS

(* Nothing put before or behind a sequence.                                *)
LEMMA ConcatNothing ==
    ASSUME NEW S, NEW s \in Seq(S)
    PROVE  <<>> \o s = s /\ s \o <<>> = s
  <1>1. <<>> \in Seq(S)
    OBVIOUS
  <1>2. <<>> \o s \in Seq(S) /\ Len(<<>> \o s) = Len(s) /\ \A j \in 1..Len(s) : (<<>> \o s)[j] = s[j]
    OBVIOUS
  <1>3. s \o <<>> \in Seq(S) /\ Len(s \o <<>>) = Len(s) /\ \A j \in 1..Len(s) : (s \o <<>>)[j] = s[j]
    OBVIOUS
  <1> QED
    BY <1>2, <1>3, SameSeq

(* What is taken of both is taken of the second one behind the first.      *)
LEMMA AfterBehind ==
    ASSUME NEW S, NEW s \in Seq(S), NEW t \in Seq(S), NEW k \in Len(s)..(Len(s) + Len(t))
    PROVE  After(k, s \o t) = After(k - Len(s), t)
  <1> DEFINE u == s \o t
             n == Len(s)
             m == Len(t)
             a == After(k, u)
             b == After(k - n, t)
  <1>1. n \in Nat /\ m \in Nat /\ k \in n..(n + m)
    OBVIOUS
  <1>2. u \in Seq(S) /\ Len(u) = n + m /\ \A j \in 1..m : u[n + j] = t[j]
    BY ConcatIs
  <1> HIDE DEF u
  <1>3. a \in Seq(S) /\ Len(a) = n + m - k /\ \A j \in 1..(n + m - k) : a[j] = u[k + j]
    <2>1. k \in 0..Len(u)
      BY <1>1, <1>2
    <2>2. a \in Seq(S) /\ Len(a) = Len(u) - k /\ \A j \in 1..(Len(u) - k) : a[j] = u[k + j]
      BY <1>2, <2>1, AfterIs
    <2> QED
      BY <1>2, <2>2
  <1>4. b \in Seq(S) /\ Len(b) = m - (k - n) /\ \A j \in 1..(m - (k - n)) : b[j] = t[(k - n) + j]
    <2>1. k - n \in 0..m
      BY <1>1
    <2> QED
      BY <2>1, AfterIs
  <1> HIDE DEF a, b
  <1>5. ASSUME NEW j \in 1..(n + m - k) PROVE a[j] = b[j]
    <2> DEFINE i == (k - n) + j
    <2>1. i \in 1..m /\ n + i = k + j /\ j \in 1..(m - (k - n))
      BY <1>1
    <2>2. b[j] = t[i]
      BY <1>4, <2>1
    <2> HIDE DEF i
    <2>3. u[k + j] = t[i]
      BY <1>2, <2>1
    <2> QED
      BY <1>3, <2>2, <2>3
  <1>6. a = b
    <2>1. n + m - k = m - (k - n)
      BY <1>1
    <2> QED
      BY <1>3, <1>4, <1>5, <2>1, SameSeq
  <1> QED
    BY <1>6 DEF a, b, u

(* Behind a whole request, a head can be read from the bytes there are of  *)
(* it, if it is sound and they hold all of it.                             *)
LEMMA HeadersIs ==
    ASSUME requests \in Seq(Request), NEW bytes \in Seq(Bytes), bytes # <<>>, NEW more \in Seq(Bytes),
           NEW q \in 0..Count, Stream(bytes \o more, q, 0)
    PROVE  /\ q + 1 \in DOMAIN requests /\ q < Count
           /\ bytes[1] = <<q + 1, 1 - requests[q + 1].head>>
           /\ GetHeaders(bytes) = IF requests[q + 1].sound /\ requests[q + 1].head <= Len(bytes)
                                  THEN requests[q + 1].head ELSE 0
  <1> DEFINE s == bytes \o more
  <1>1. s \in Seq(Bytes) /\ s # <<>> /\ s[1] = bytes[1]
    <2>1. s \in Seq(Bytes) /\ Len(s) = Len(bytes) + Len(more) /\ \A j \in 1..Len(bytes) : s[j] = bytes[j]
      BY ConcatIs
    <2>2. Len(bytes) >= 1 /\ Len(bytes) \in Nat /\ Len(more) \in Nat
      OBVIOUS
    <2> HIDE DEF s
    <2>3. Len(s) >= 1 /\ s[1] = bytes[1]
      BY <2>1, <2>2
    <2> QED
      BY <2>1, <2>3
  <1> HIDE DEF s
  <1>2. Count \in Nat
    BY DEF Count
  <1>3. q < Count
    <2>1. Begins(s, q, 0)
      BY DEF Stream, s
    <2> QED
      BY <1>1, <1>2, <2>1 DEF Begins
  <1>4. q \in 0..(Count - 1) /\ Stream(s, q, 0)
    BY <1>2, <1>3 DEF s
  <1>5. q + 1 \in DOMAIN requests /\ s[1] = <<q + 1, 1 - requests[q + 1].head>>
    BY <1>1, <1>4, HeadNext
  <1>6. bytes[1] = <<q + 1, 1 - requests[q + 1].head>>
    BY <1>1, <1>5
  <1>7. bytes[1][1] = q + 1 /\ bytes[1][2] = 1 - requests[q + 1].head
    BY <1>6
  <1>8. GetHeaders(bytes) = IF requests[q + 1].sound /\ requests[q + 1].head <= Len(bytes)
                            THEN requests[q + 1].head ELSE 0
    BY <1>7 DEF GetHeaders
  <1> QED
    BY <1>3, <1>5, <1>6, <1>8

(* What the invariant says of a connection that is open.                   *)
LEMMA OpenInv ==
    ASSUME HttpInv, Open \/ stage # "idle"
    PROVE  /\ HttpTypes /\ http.state = "open"
           /\ Conn \in Conns /\ Conn.http = http /\ Conn.log = log /\ http \in Https
           /\ Ready(Conn) /\ Parses(http, chunk, sending, stage)
           /\ ~EmptyBodyRead => Bodies(Conn, Whole(http.current) - http.streaming, http.streaming = 0)
           /\ http.current \in 0..Count /\ http.fallback \in Seq(Bytes) /\ http.streaming \in Nat
           /\ Whole(http.current) \in Nat
  <1>1. Conn.http = http /\ Conn.log = log
    BY DEF Conn
  <1>2. HttpTypes /\ Holds(Conn, chunk, sending, stage) /\ requests \in Seq(Request)
    BY DEF HttpInv, HttpTypes
  <1>3. http.state = "open"
    BY <1>1, <1>2 DEF Holds, Open
  <1>4. Ready(Conn) /\ Parses(http, chunk, sending, stage)
        /\ (~EmptyBodyRead => Bodies(Conn, Whole(http.current) - http.streaming, http.streaming = 0))
    BY <1>1, <1>2, <1>3 DEF Holds
  <1>5. Conn \in Conns
    BY <1>4 DEF Ready
  <1>6. http \in Https
    BY <1>1, <1>2, <1>5, ConnParts
  <1>7. http.current \in Owner /\ http.fallback \in Seq(Bytes) /\ http.streaming \in Nat
    BY <1>6 DEF Https
  <1>8. http.current = 0 \/ http.current \in DOMAIN requests
    BY <1>7 DEF Owner
  <1>9. http.current \in 0..Count
    BY <1>2, <1>8 DEF Count
  <1>10. Whole(http.current) \in Nat
    BY <1>2, <1>8, RequestType DEF Whole
  <1> QED
    BY <1>1, <1>2, <1>3, <1>4, <1>5, <1>6, <1>7, <1>9, <1>10

(* An open connection may be closed.                                       *)
LEMMA CloseHolds ==
    ASSUME HttpAssumption, HttpInv, Open \/ stage # "idle"
    PROVE  Holds(Close(Conn), <<>>, sending, "idle") /\ Close(Conn) \in Conns /\ Close(Conn).http.state = "closed"
  <1> DEFINE d == Close(Conn)
  <1>1. /\ requests \in Seq(Request) /\ Conn \in Conns /\ Ready(Conn) /\ Conn.http = http
        /\ (~EmptyBodyRead => Bodies(Conn, Whole(http.current) - http.streaming, http.streaming = 0))
        /\ http.streaming \in Nat /\ Whole(http.current) \in Nat /\ Parses(http, chunk, sending, stage)
    BY OpenInv DEF HttpTypes
  <1>2. /\ Over(d) /\ d.log.body = Conn.log.body /\ d.log.fins = Conn.log.fins
        /\ d.http.fallback = <<>> /\ d.http.streaming = 0 /\ d.http.state = "closed"
    BY <1>1, ReadyCloses
  <1> HIDE DEF d
  <1>3. Keeps(d.http)
    BY <1>2 DEF HttpAssumption, Keeps
  <1>4. ASSUME ~EmptyBodyRead PROVE BodyParts(d)
    <2> DEFINE k == Whole(http.current) - http.streaming
               fin == http.streaming = 0
    <2>1. k \in 0..Whole(Conn.http.current) /\ (fin => k = Whole(Conn.http.current))
      BY <1>1 DEF Parses, Whole
    <2>2. Bodies(Conn, k, fin)
      BY <1>1, <1>4
    <2> HIDE DEF k, fin
    <2> QED
      BY <1>1, <1>2, <2>1, <2>2, BodiesParts
  <1>5. Holds(d, <<>>, sending, "idle")
    BY <1>2, <1>3, <1>4 DEF Holds
  <1> QED
    BY <1>2, <1>5 DEF d, Over

(* A callback that leaves the parser alone.                                *)
LEMMA RestHolds ==
    ASSUME HttpInv, Open \/ stage # "idle", stage \in {"idle", "end"}, NEW d, Ready(d), Untouched(Conn, d)
    PROVE  Holds(d, <<>>, sending, "idle")
  <1>1. /\ Conn.http = http /\ http.state = "open" /\ Parses(http, chunk, sending, stage)
        /\ (~EmptyBodyRead => Bodies(Conn, Whole(http.current) - http.streaming, http.streaming = 0))
    BY OpenInv
  <1>2. /\ d.http.state = "open" /\ d.http.fallback = http.fallback /\ d.http.streaming = http.streaming
        /\ d.http.current = http.current /\ d.http.inStream = Conn.http.inStream
        /\ d.log.body = Conn.log.body /\ d.log.fins = Conn.log.fins
    BY <1>1 DEF Untouched
  <1>3. Parses(d.http, <<>>, sending, "idle")
    BY <1>1, <1>2 DEF Parses, Keeps
  <1>4. \A n, fin : Bodies(Conn, n, fin) => Bodies(d, n, fin)
    BY <1>1, <1>2 DEF Bodies
  <1> QED
    BY <1>1, <1>2, <1>3, <1>4 DEF Holds

-----------------------------------------------------------------------------
(* The other callbacks.                                                    *)

(* A request that waits for an answer or for the socket.                   *)
LEMMA ReadyBase ==
    ASSUME requests \in Seq(Request), NEW c, Ready(c), c.http.pending, Does(c.http.current) \in {"later", "try"}
    PROVE  Base(c) /\ c.http.pending = TRUE /\ c.http.onAborted = c.http.current
  <1> DEFINE q == c.http.current
  <1>1. /\ c \in Conns /\ c.http.state = "open"
        /\ Answers(c) /\ Waits(c) /\ Attaches(c) /\ Tells(c)
    BY DEF Ready
  <1>2. c.http \in Https /\ q \in Nat /\ c.http.inStream \in Nat
    BY <1>1, ConnParts, CurrentType
  <1>3. c.http.pending = TRUE
    BY <1>2 DEF Https
  <1>4. q # 0 /\ c.http.onAborted = q
    BY <1>1, <1>3 DEF Waits
  <1>5. q \in DOMAIN requests
    BY <1>1, <1>4, CurrentType
  <1>6. \A r \in 1..q : r # q /\ Asks(r) => Answered(c.log.out, r)
    BY <1>1 DEF Answers
  <1>7. c.http.inStream # 0 => c.http.inStream \in 1..q /\ Does(c.http.inStream) = "early"
    <2> SUFFICES ASSUME c.http.inStream # 0 PROVE c.http.inStream \in 1..q /\ Does(c.http.inStream) = "early"
      OBVIOUS
    <2>1. Does(c.http.inStream) = "early" \/ (Does(c.http.inStream) = "read" /\ c.http.inStream = q)
      BY <1>1 DEF Attaches
    <2>2. Does(q) # "read"
      OBVIOUS
    <2>3. Does(c.http.inStream) = "early"
      BY <2>1, <2>2
    <2>4. c.http.inStream \in 1..q
      BY <1>1, <1>2 DEF Attaches
    <2> QED
      BY <2>3, <2>4
  <1> QED
    BY <1>1, <1>3, <1>4, <1>5, <1>6, <1>7 DEF Base

(* A connection at rest whose timeout is set.                              *)
LEMMA TimerFields ==
    ASSUME requests \in Seq(Request), NEW c \in Conns, NEW armed \in BOOLEAN
    PROVE  LET d == Timer(c, armed)
           IN  /\ d \in Conns /\ Untouched(c, d) /\ d.log = c.log
               /\ d.http.pending = c.http.pending /\ d.http.calls = c.http.calls
               /\ d.http.offset = c.http.offset /\ d.http.onAborted = c.http.onAborted
               /\ d.http.onWritable = c.http.onWritable /\ d.http.current = c.http.current
               /\ d.http.state = c.http.state /\ d.http.inStream = c.http.inStream
  <1> DEFINE d == Timer(c, armed)
             h == [c.http EXCEPT !.timer = armed]
  <1>1. d \in Conns /\ d.http = h /\ d.log = c.log
    BY TimerIs
  <1>2. c.http \in Https
    BY ConnParts
  <1>3. /\ h.pending = c.http.pending /\ h.calls = c.http.calls
        /\ h.offset = c.http.offset /\ h.onAborted = c.http.onAborted
        /\ h.onWritable = c.http.onWritable /\ h.current = c.http.current
        /\ h.state = c.http.state /\ h.inStream = c.http.inStream
        /\ h.fallback = c.http.fallback /\ h.streaming = c.http.streaming
    BY <1>2 DEF Https
  <1> HIDE DEF d, h
  <1>4. Untouched(c, d)
    BY <1>1, <1>3 DEF Untouched
  <1> QED
    BY <1>1, <1>3, <1>4 DEF d

(* A callback that ends with a connection at rest keeps the invariant.     *)
LEMMA RestInv ==
    ASSUME HttpInv, Open \/ stage # "idle", stage \in {"idle", "end"}, NEW d, Ready(d), Untouched(Conn, d),
           Becomes(d, <<>>, "idle")
    PROVE  HttpInv'
  <1>1. Holds(d, <<>>, sending, "idle")
    BY RestHolds
  <1>2. HttpTypes /\ d \in Conns
    BY DEF HttpInv, Ready
  <1>3. <<>> \in Seq(Bytes) /\ "idle" \in {"idle", "parse", "stream", "join", "end"}
    OBVIOUS
  <1> QED
    BY <1>1, <1>2, <1>3, BecomesInv

(* So does one that closes it.                                             *)
LEMMA CloseInv ==
    ASSUME HttpAssumption, HttpInv, Open \/ stage # "idle", NEW next \in {"idle", "end"},
           Becomes(Close(Conn), <<>>, next)
    PROVE  HttpInv'
  <1> DEFINE d == Close(Conn)
  <1>1. Holds(d, <<>>, sending, "idle") /\ d \in Conns /\ d.http.state # "open"
    BY CloseHolds
  <1>2. HttpTypes /\ <<>> \in Seq(Bytes) /\ next \in {"idle", "parse", "stream", "join", "end"}
    BY DEF HttpInv
  <1> HIDE DEF d
  <1>3. Becomes(d, <<>>, next)
    BY DEF d
  <1> QED
    BY <1>1, <1>2, <1>3, BecomesInv

(* The first chunk of an answer.                                           *)
LEMMA AnswerChunkInv ==
    ASSUME HttpAssumption, HttpInv, NEW failed \in BOOLEAN, AnswerChunk(failed)
    PROVE  HttpInv'
  <1> DEFINE d == WriteChunk(Conn, 1, 1, failed)
  <1>1. /\ Open /\ stage = "idle" /\ http.pending /\ Does(http.current) = "later" /\ "write" \notin http.calls
        /\ Becomes(d, <<>>, "idle")
    BY DEF AnswerChunk, Between
  <1>2. /\ requests \in Seq(Request) /\ Conn \in Conns /\ Conn.http = http /\ Ready(Conn) /\ http \in Https
    BY <1>1, OpenInv DEF HttpTypes
  <1>3. Base(Conn) /\ http.pending = TRUE /\ http.onAborted = http.current
    BY <1>1, <1>2, ReadyBase
  <1>4. Fresh(Conn) /\ http.onWritable = 0
    <2>1. Waits(Conn)
      BY <1>2 DEF Ready
    <2> QED
      BY <1>1, <1>2, <2>1 DEF Waits, Chunked
  <1>5. GoesOn(Conn, d) /\ Chunked(d)
    BY <1>2, <1>4, ChunkIs
  <1> HIDE DEF d
  <1>6. Ready(d)
    BY <1>1, <1>2, <1>3, <1>4, <1>5, Remains
  <1>7. Untouched(Conn, d)
    BY <1>5 DEF GoesOn
  <1> QED
    BY <1>1, <1>6, <1>7, RestInv

(* The whole answer, or the rest of it behind the chunk.                   *)
LEMMA AnswerInv ==
    ASSUME HttpAssumption, HttpInv, Answer
    PROVE  HttpInv'
  <1> DEFINE d == End(Conn, IF "write" \in http.calls THEN 2 ELSE 1)
  <1>1. /\ Open /\ stage = "idle" /\ http.pending /\ Does(http.current) = "later"
        /\ Becomes(d, <<>>, "idle")
    BY DEF Answer, Between
  <1>2. /\ requests \in Seq(Request) /\ Conn \in Conns /\ Conn.http = http /\ Ready(Conn) /\ http \in Https
    BY <1>1, OpenInv DEF HttpTypes
  <1>3. Base(Conn)
    BY <1>1, <1>2, ReadyBase
  <1>4. Fresh(Conn) \/ Chunked(Conn)
    <2>1. Waits(Conn)
      BY <1>2 DEF Ready
    <2> QED
      BY <1>1, <1>2, <2>1 DEF Waits
  <1>5. Ended(Conn, d)
    <2>1. CASE Fresh(Conn)
      <3>1. d = End(Conn, 1)
        BY <1>2, <2>1 DEF Fresh
      <3> QED
        BY <1>2, <2>1, <3>1, EndIs
    <2>2. CASE Chunked(Conn)
      <3>1. d = End(Conn, 2)
        BY <1>2, <2>2 DEF Chunked
      <3> QED
        BY <1>2, <2>2, <3>1, EndChunksIs
    <2> QED
      BY <1>4, <2>1, <2>2
  <1> HIDE DEF d
  <1>6. Ready(d)
    BY <1>2, <1>3, <1>5, Finishes
  <1>7. Untouched(Conn, d)
    BY <1>5 DEF Ended
  <1> QED
    BY <1>1, <1>6, <1>7, RestInv

(* The socket is writable.                                                 *)
LEMMA WritableInv ==
    ASSUME HttpAssumption, HttpInv, NEW n \in Taken, HttpWritable(n)
    PROVE  HttpInv'
  <1> DEFINE t == Timer(Conn, FALSE)
             d == TryEnd(t, n)
             e == Timer(Conn, TRUE)
  <1>1. Open /\ stage = "idle" /\ Becomes(IF http.onWritable = 0 THEN e ELSE d, <<>>, "idle")
    BY DEF HttpWritable, Between
  <1>2. /\ requests \in Seq(Request) /\ Conn \in Conns /\ Conn.http = http /\ Ready(Conn) /\ http \in Https
    BY <1>1, OpenInv DEF HttpTypes
  <1>3. CASE http.onWritable = 0
    <2>1. Ready(e)
      BY <1>2, ReadyTimer
    <2>2. Untouched(Conn, e)
      <3>1. TRUE \in BOOLEAN
        OBVIOUS
      <3> QED
        BY <1>2, <3>1, TimerFields
    <2> HIDE DEF e
    <2>3. Becomes(e, <<>>, "idle")
      BY <1>1, <1>3
    <2> QED
      BY <1>1, <2>1, <2>2, <2>3, RestInv
  <1>4. CASE http.onWritable # 0
    <2>1. Waits(Conn)
      BY <1>2 DEF Ready
    <2>2. http.pending /\ Does(http.current) = "try" /\ Partial(Conn) /\ http.onWritable = http.current
      BY <1>2, <1>4, <2>1 DEF Waits
    <2>3. Base(Conn) /\ http.pending = TRUE /\ http.onAborted = http.current
      BY <1>2, <2>2, ReadyBase
    <2>4. /\ t \in Conns /\ Untouched(Conn, t) /\ t.log = Conn.log
          /\ t.http.pending = http.pending /\ t.http.calls = http.calls
          /\ t.http.offset = http.offset /\ t.http.onAborted = http.onAborted
          /\ t.http.onWritable = http.onWritable /\ t.http.current = http.current
          /\ t.http.state = http.state /\ t.http.inStream = http.inStream
      <3>1. FALSE \in BOOLEAN
        OBVIOUS
      <3> QED
        BY <1>2, <3>1, TimerFields
    <2> HIDE DEF t
    <2>5. Base(t)
      <3>1. Tells(t)
        BY <1>2, <2>3, <2>4 DEF Base, Tells
      <3> QED
        BY <1>2, <2>3, <2>4, <3>1 DEF Base
    <2>6. Partial(t)
      BY <1>2, <2>2, <2>4 DEF Partial
    <2>7. n \in Nat /\ t.http.offset + n <= ReplySize /\ ReplySize \in Nat
      <3>1. http.offset \in Nat /\ ReplySize \in Nat
        BY <1>2 DEF Https, HttpAssumption
      <3>2. n \in 0..(ReplySize - http.offset)
        BY DEF Taken
      <3> QED
        BY <2>4, <3>1, <3>2
    <2>8. IF t.http.offset + n = ReplySize THEN Ended(t, d)
          ELSE GoesOn(t, d) /\ Partial(d) /\ d.http.timer = TRUE
      BY <1>2, <2>4, <2>6, <2>7, TryEndIs
    <2> HIDE DEF d
    <2>9. Ready(d) /\ Untouched(t, d)
      <3>1. CASE t.http.offset + n = ReplySize
        BY <1>2, <2>5, <2>8, <3>1, Finishes DEF Ended
      <3>2. CASE t.http.offset + n # ReplySize
        <4>1. GoesOn(t, d) /\ Partial(d) /\ d.http.timer = TRUE
          BY <2>8, <3>2
        <4>2. Ready(d)
          BY <1>2, <2>2, <2>3, <2>4, <2>5, <4>1, Remains
        <4> QED
          BY <4>1, <4>2 DEF GoesOn
      <3> QED
        BY <3>1, <3>2
    <2>10. Untouched(Conn, d)
      BY <2>4, <2>9 DEF Untouched
    <2>11. Becomes(d, <<>>, "idle")
      BY <1>1, <1>4
    <2> QED
      BY <1>1, <2>9, <2>10, <2>11, RestInv
  <1> QED
    BY <1>3, <1>4

(* The end of on_data.                                                     *)
LEMMA UncorkInv ==
    ASSUME HttpAssumption, HttpInv, NEW failed \in BOOLEAN, UncorkHttp(failed)
    PROVE  HttpInv'
  <1> DEFINE d == Timer(Conn, http.timer \/ failed)
  <1>1. stage = "end" /\ Becomes(d, <<>>, "idle")
    BY DEF UncorkHttp
  <1>2. /\ requests \in Seq(Request) /\ Conn \in Conns /\ Conn.http = http /\ Ready(Conn) /\ http \in Https
    BY <1>1, OpenInv DEF HttpTypes
  <1>3. http.timer \in BOOLEAN
    BY <1>2 DEF Https
  <1>4. Untouched(Conn, d)
    <2>1. (http.timer \/ failed) \in BOOLEAN
      OBVIOUS
    <2> QED
      BY <1>2, <2>1, TimerFields
  <1>5. Ready(d)
    <2>1. CASE http.timer \/ failed
      <3>1. d = Timer(Conn, TRUE)
        BY <2>1
      <3> QED
        BY <1>2, <3>1, ReadyTimer
    <2>2. CASE ~(http.timer \/ failed)
      <3>1. d = Timer(Conn, FALSE) /\ http.timer = FALSE
        BY <1>3, <2>2
      <3>2. Timer(Conn, FALSE) = Conn
        BY <1>2, <3>1 DEF Timer, Conns, Https
      <3> QED
        BY <1>2, <3>1, <3>2
    <2> QED
      BY <2>1, <2>2
  <1> HIDE DEF d
  <1> QED
    BY <1>1, <1>4, <1>5, RestInv

-----------------------------------------------------------------------------
(* What consumePostPadded does.                                            *)

(* What a chunk is of the stream when nothing is in the fallback.          *)
LEMMA ChunkStream ==
    ASSUME HttpInv, stage \in {"parse", "stream"}
    PROVE  /\ http.fallback = <<>> /\ chunk \o sending \in Seq(Bytes)
           /\ Stream(chunk \o sending, http.current, http.streaming)
           /\ chunk \in Seq(Bytes) /\ sending \in Seq(Bytes)
           /\ Len(chunk \o sending) = Len(chunk) + Len(sending)
           /\ \A j \in 1..Len(chunk) : (chunk \o sending)[j] = chunk[j]
           /\ \A m \in 0..Len(chunk) : /\ After(m, chunk) \in Seq(Bytes)
                                       /\ After(m, chunk) \o sending = After(m, chunk \o sending)
  <1>1. HttpTypes /\ Parses(http, chunk, sending, stage)
    BY OpenInv
  <1>2. chunk \in Seq(Bytes) /\ sending \in Seq(Bytes)
    BY <1>1 DEF HttpTypes
  <1>3. http.fallback = <<>> /\ Stream(http.fallback \o chunk \o sending, http.current, http.streaming)
    BY <1>1 DEF Parses
  <1>4. http.fallback \o chunk \o sending = chunk \o sending
    <2>1. <<>> \o chunk = chunk
      BY <1>2, ConcatNothing
    <2> QED
      BY <1>3, <2>1
  <1>5. /\ chunk \o sending \in Seq(Bytes) /\ Len(chunk \o sending) = Len(chunk) + Len(sending)
        /\ \A j \in 1..Len(chunk) : (chunk \o sending)[j] = chunk[j]
    BY <1>2, ConcatIs
  <1>6. ASSUME NEW m \in 0..Len(chunk)
        PROVE  After(m, chunk) \in Seq(Bytes) /\ After(m, chunk) \o sending = After(m, chunk \o sending)
    BY <1>2, AfterIs, AfterConcat
  <1> QED
    BY <1>2, <1>3, <1>4, <1>5, <1>6

(* A chunk arrives.                                                        *)
LEMMA DataInv ==
    ASSUME HttpInv, NEW n \in 1..Len(sending), HttpData(n)
    PROVE  HttpInv'
  <1> DEFINE f == http.fallback
             c == First(n, sending)
             s == After(n, sending)
             next == IF http.streaming > 0 THEN "stream" ELSE IF f # <<>> THEN "join" ELSE "parse"
  <1>1. /\ Open /\ stage = "idle" /\ chunk' = c /\ sending' = s /\ stage' = next
        /\ requests' = requests /\ http' = http /\ log' = log
    BY DEF HttpData
  <1>2. /\ HttpTypes /\ http.state = "open" /\ Conn.http = http /\ Ready(Conn)
        /\ Parses(http, chunk, sending, stage) /\ f \in Seq(Bytes) /\ http.streaming \in Nat
        /\ ~EmptyBodyRead => Bodies(Conn, Whole(http.current) - http.streaming, http.streaming = 0)
    BY <1>1, OpenInv
  <1>3. sending \in Seq(Bytes) /\ chunk = <<>>
    BY <1>1, <1>2 DEF HttpTypes, Parses
  <1>4. c \in Seq(Bytes) /\ s \in Seq(Bytes) /\ c \o s = sending
    <2>1. n \in 0..Len(sending)
      OBVIOUS
    <2> QED
      BY <1>3, <2>1, FirstIs, AfterIs, Cut
  <1> HIDE DEF c, s
  <1>5. f \o c \o s = f \o chunk \o sending
    <2>1. f \o chunk = f
      BY <1>2, <1>3, ConcatNothing
    <2>2. (f \o c) \o s = f \o (c \o s)
      <3>1. f \in Seq(Bytes) /\ c \in Seq(Bytes) /\ s \in Seq(Bytes)
        BY <1>2, <1>4
      <3> HIDE DEF f
      <3> QED
        BY <3>1, ConcatThree
    <2> QED
      BY <1>4, <2>1, <2>2
  <1>6. Parses(http, c, s, next)
    BY <1>1, <1>2, <1>5 DEF Parses, Keeps
  <1>7. Holds(Conn, c, s, next)
    BY <1>2, <1>6 DEF Holds
  <1>8. Holds(Conn, chunk, sending, stage)'
    <2>1. Conn' = Conn
      BY <1>1 DEF Conn
    <2> DEFINE d == Conn
    <2>2. Holds(d, c, s, next)
      BY <1>7
    <2>3. \A x, y, z, w : Holds(x, y, z, w) => Holds(x, y, z, w)'
      BY <1>1, SameRequests
    <2> QED
      BY <1>1, <2>1, <2>2, <2>3
  <1>9. HttpTypes'
    <2>1. Seq(Bytes)' = Seq(Bytes)
      BY <1>1, SameRequests
    <2>2. next \in {"idle", "parse", "stream", "join", "end"}
      OBVIOUS
    <2> HIDE DEF next
    <2> QED
      BY <1>1, <1>2, <1>4, <2>1, <2>2 DEF HttpTypes
  <1> QED
    BY <1>8, <1>9 DEF HttpInv

(* The rest of a chunk is kept when it fits.                               *)
LEMMA KeepInv ==
    ASSUME HttpAssumption, HttpInv, KeepRest
    PROVE  HttpInv'
  <1> DEFINE d == [Conn EXCEPT !.http.fallback = @ \o chunk]
  <1>1. /\ stage = "parse" /\ GetHeaders(chunk) = 0
        /\ Becomes(IF Len(chunk) < MaxFallback THEN d ELSE Close(Conn), <<>>, "end")
    BY DEF KeepRest
  <1>2. /\ HttpTypes /\ http.state = "open" /\ Conn.http = http /\ Ready(Conn) /\ Conn \in Conns
        /\ Parses(http, chunk, sending, stage)
        /\ ~EmptyBodyRead => Bodies(Conn, Whole(http.current) - http.streaming, http.streaming = 0)
    BY <1>1, OpenInv
  <1>3. /\ http.fallback = <<>> /\ Stream(chunk \o sending, http.current, http.streaming)
        /\ chunk \in Seq(Bytes) /\ sending \in Seq(Bytes) /\ requests \in Seq(Request)
    BY <1>1, <1>2, ChunkStream DEF HttpTypes
  <1>4. CASE ~(Len(chunk) < MaxFallback)
    <2>1. Becomes(Close(Conn), <<>>, "end") /\ "end" \in {"idle", "end"} /\ stage # "idle"
      BY <1>1, <1>4
    <2> QED
      BY <2>1, CloseInv
  <1>5. CASE Len(chunk) < MaxFallback
    <2>1. d = [Conn EXCEPT !.http.fallback = chunk]
      <3>1. Conn.http.fallback \o chunk = chunk
        <4>1. <<>> \o chunk = chunk
          BY <1>3, ConcatNothing
        <4> QED
          BY <1>2, <1>3, <4>1
      <3> QED
        BY <3>1
    <2>2. Becomes(d, <<>>, "end")
      BY <1>1, <1>5
    <2> HIDE DEF d
    <2>3. /\ d \in Conns /\ d.http.fallback = chunk /\ d.http.streaming = http.streaming
          /\ d.http.current = http.current /\ d.http.state = "open" /\ Ready(d)
          /\ \A k, fin : Bodies(Conn, k, fin) => Bodies(d, k, fin)
      BY <1>2, <1>3, <2>1, FallbackIs
    <2>4. Parses(d.http, <<>>, sending, "end")
      <3>1. d.http.fallback \o <<>> \o sending = chunk \o sending
        <4>1. chunk \o <<>> = chunk
          BY <1>3, ConcatNothing
        <4> QED
          BY <2>3, <4>1
      <3>2. Keeps(d.http)
        <4>1. chunk # <<>> => http.streaming = 0
          BY <1>1, <1>2 DEF Parses
        <4>2. Len(chunk) <= MaxFallback
          BY <1>3, <1>5 DEF HttpAssumption
        <4> QED
          BY <2>3, <4>1, <4>2 DEF Keeps
      <3>3. http.streaming <= Whole(http.current)
        BY <1>2 DEF Parses
      <3> QED
        BY <1>1, <1>3, <2>3, <3>1, <3>2, <3>3 DEF Parses
    <2>5. Holds(d, <<>>, sending, "end")
      BY <1>2, <2>3, <2>4 DEF Holds
    <2>6. <<>> \in Seq(Bytes) /\ "end" \in {"idle", "parse", "stream", "join", "end"}
      OBVIOUS
    <2> QED
      BY <1>2, <2>2, <2>3, <2>5, <2>6, BecomesInv
  <1> QED
    BY <1>4, <1>5

(* The body goes on.                                                       *)
LEMMA StreamInv ==
    ASSUME HttpAssumption, HttpInv, StreamBody
    PROVE  HttpInv'
  <1> DEFINE q == http.current
             left == http.streaming
             n == Least(left, Len(chunk))
             c == [Conn EXCEPT !.http.streaming = @ - n]
             bytes == First(n, chunk)
             fin == n = left
             d == DataHandler(c, bytes, fin)
  <1>1. stage = "stream" /\ Becomes(d, After(n, chunk), "parse")
    BY DEF StreamBody
  <1>2. /\ HttpTypes /\ http.state = "open" /\ Conn.http = http /\ Ready(Conn) /\ Conn \in Conns
        /\ Parses(http, chunk, sending, stage) /\ q \in 0..Count /\ left \in Nat
        /\ requests \in Seq(Request) /\ http.fallback \in Seq(Bytes)
        /\ ~EmptyBodyRead => Bodies(Conn, Whole(q) - left, left = 0)
    BY <1>1, OpenInv DEF HttpTypes
  <1>3. /\ http.fallback = <<>> /\ Stream(chunk \o sending, q, left) /\ chunk \o sending \in Seq(Bytes)
        /\ chunk \in Seq(Bytes)
        /\ Len(chunk \o sending) = Len(chunk) + Len(sending)
        /\ \A j \in 1..Len(chunk) : (chunk \o sending)[j] = chunk[j]
        /\ \A m \in 0..Len(chunk) : /\ After(m, chunk) \in Seq(Bytes)
                                    /\ After(m, chunk) \o sending = After(m, chunk \o sending)
    BY <1>1, ChunkStream
  <1>4. q \in DOMAIN requests /\ left \in 1..Size(q) /\ Whole(q) = Size(q) /\ Size(q) \in Nat /\ q # 0
    <2>1. left > 0 /\ left <= Whole(q)
      BY <1>1, <1>2 DEF Parses
    <2>2. q # 0
      BY <1>2, <2>1 DEF Whole
    <2>3. q \in DOMAIN requests
      BY <1>2, <2>2 DEF Count
    <2>4. Whole(q) = Size(q) /\ Size(q) \in Nat
      BY <1>2, <2>2, <2>3, RequestType DEF Whole
    <2> QED
      BY <1>2, <2>1, <2>2, <2>3, <2>4
  <1>5. n \in 0..left /\ n \in 0..Len(chunk) /\ (n = left \/ n = Len(chunk)) /\ n \in Nat
    BY <1>2, <1>3 DEF Least
  <1>6. /\ \A j \in 1..left : (chunk \o sending)[j] = <<q, Size(q) - left + j>>
        /\ \A m \in 0..left : Stream(After(m, chunk \o sending), q, left - m)
    BY <1>2, <1>3, <1>4, BodyNext
  <1>7. bytes \in Seq(Bytes) /\ Len(bytes) = n /\ \A j \in 1..n : bytes[j] = <<q, (Size(q) - left) + j>>
    <2>1. bytes \in Seq(Bytes) /\ Len(bytes) = n /\ \A j \in 1..n : bytes[j] = chunk[j]
      <3> HIDE DEF n
      <3> QED
        BY <1>3, <1>5, FirstIs
    <2>2. ASSUME NEW j \in 1..n PROVE chunk[j] = <<q, (Size(q) - left) + j>>
      <3>1. j \in 1..Len(chunk) /\ j \in 1..left
        BY <1>2, <1>3, <1>5
      <3> QED
        BY <1>3, <1>6, <3>1
    <2> HIDE DEF bytes, n
    <2> QED
      BY <2>1, <2>2
  <1>8. c = [Conn EXCEPT !.http.streaming = left - n]
    BY <1>2
  <1>9. left - n \in Nat
    BY <1>2, <1>5
  <1> HIDE DEF c, bytes, n
  <1>10. /\ c \in Conns /\ Ready(c) /\ c.http.streaming = left - n /\ c.http.fallback = <<>>
         /\ c.http.current = q /\ \A k, b : Bodies(Conn, k, b) => Bodies(c, k, b)
    <2> HIDE DEF left, q
    <2>1. Conn.http.fallback = <<>> /\ Conn.http.current = q
      BY <1>2, <1>3 DEF q
    <2> QED
      BY <1>2, <1>8, <1>9, <2>1, StreamingIs
  <1>11. fin \in BOOLEAN
    OBVIOUS
  <1> HIDE DEF fin
  <1>12. Read(c, d, bytes, fin)
    BY <1>2, <1>7, <1>10, <1>11, DataRead
  <1> HIDE DEF d
  <1>13. Ready(d) /\ d.http.current = q /\ d.http.fallback = <<>> /\ d.http.streaming = left - n
    BY <1>10, <1>12 DEF Read
  <1>14. d.http.state = "open" /\ d \in Conns
    BY <1>13 DEF Ready
  <1>15. Parses(d.http, After(n, chunk), sending, "parse")
    <2> DEFINE l == After(n, chunk)
    <2>1. l \in Seq(Bytes) /\ Stream(l \o sending, q, left - n)
      BY <1>3, <1>5, <1>6
    <2>2. left - n = 0 \/ l = <<>>
      <3>1. CASE n = left
        BY <1>2, <3>1
      <3>2. CASE n = Len(chunk)
        <4>1. Len(l) = Len(chunk) - n
          <5>1. chunk \in Seq(Bytes) /\ n \in 0..Len(chunk)
            BY <1>3, <1>5
          <5> QED
            BY <5>1, AfterIs
        <4>2. Len(l) = 0
          BY <1>5, <3>2, <4>1
        <4> QED
          BY <2>1, <4>2
      <3> QED
        BY <1>5, <3>1, <3>2
    <2> HIDE DEF l
    <2>3. d.http.fallback \o l \o sending = l \o sending
      <3>1. <<>> \o l = l
        BY <2>1, ConcatNothing
      <3> QED
        BY <1>13, <3>1
    <2>4. left - n <= Whole(q)
      BY <1>2, <1>4, <1>5
    <2>5. Keeps(d.http)
      BY <1>13 DEF Keeps, HttpAssumption
    <2>6. Parses(d.http, l, sending, "parse")
      BY <1>13, <2>1, <2>2, <2>3, <2>4, <2>5 DEF Parses
    <2> QED
      BY <2>6 DEF l
  <1>16. ASSUME ~EmptyBodyRead PROVE Bodies(d, Whole(q) - (left - n), (left - n) = 0)
    <2> DEFINE k == Size(q) - left
    <2>1. k \in Nat /\ k + n <= Size(q) /\ Whole(q) - (left - n) = k + n /\ fin = ((left - n) = 0)
      BY <1>2, <1>4, <1>5 DEF fin
    <2>2. Bodies(c, k, FALSE)
      <3>1. (left = 0) = FALSE
        BY <1>4
      <3>2. Bodies(Conn, k, FALSE)
        BY <1>2, <1>4, <1>16, <3>1
      <3> QED
        BY <1>10, <3>2
    <2>3. \A j \in 1..n : bytes[j] = <<q, k + j>>
      BY <1>7
    <2> HIDE DEF k, q
    <2>4. Bodies(d, k + n, fin)
      BY <1>2, <1>4, <1>5, <1>7, <1>10, <1>11, <1>12, <2>1, <2>2, <2>3, BodiesRead
    <2> QED
      BY <2>1, <2>4
  <1>17. Holds(d, After(n, chunk), sending, "parse")
    BY <1>13, <1>14, <1>15, <1>16 DEF Holds
  <1>18. After(n, chunk) \in Seq(Bytes) /\ "parse" \in {"idle", "parse", "stream", "join", "end"}
    BY <1>3, <1>5
  <1> QED
    BY <1>1, <1>2, <1>14, <1>17, <1>18, BecomesInv

(* A request was handled and the connection is not HTTP's any more.        *)
LEMMA GoneHolds ==
    ASSUME HttpAssumption, HttpInv, Open \/ stage # "idle", http.streaming = 0,
           NEW d, NEW r, Asked(Conn, d, r), d.http.state # "open"
    PROVE  Holds(d, <<>>, sending, "idle") /\ d \in Conns
  <1>1. /\ requests \in Seq(Request) /\ Conn \in Conns /\ Conn.http = http /\ http.fallback \in Seq(Bytes)
        /\ (~EmptyBodyRead => Bodies(Conn, Whole(http.current) - http.streaming, http.streaming = 0))
        /\ Whole(http.current) \in Nat /\ Parses(http, chunk, sending, stage)
    BY OpenInv DEF HttpTypes
  <1>2. /\ Over(d) /\ d.log.body = Conn.log.body /\ d.log.fins = Conn.log.fins
        /\ \/ d.http.fallback = http.fallback /\ d.http.streaming = http.streaming
           \/ d.http.fallback = <<>> /\ d.http.streaming = 0
    BY <1>1 DEF Asked
  <1>3. Keeps(d.http)
    <2>1. Keeps(http)
      BY <1>1 DEF Parses
    <2> QED
      BY <1>2, <2>1 DEF HttpAssumption, Keeps
  <1>4. ASSUME ~EmptyBodyRead PROVE BodyParts(d)
    <2> DEFINE k == Whole(http.current)
               fin == TRUE
    <2>1. k \in 0..Whole(Conn.http.current) /\ (fin => k = Whole(Conn.http.current))
      BY <1>1
    <2>2. Bodies(Conn, k, fin)
      <3>1. Whole(http.current) - 0 = Whole(http.current)
        BY <1>1
      <3> QED
        BY <1>1, <1>4, <3>1
    <2> HIDE DEF k, fin
    <2> QED
      BY <1>1, <1>2, <2>1, <2>2, BodiesParts
  <1> QED
    BY <1>2, <1>3, <1>4 DEF Holds, Over

(* A request was handled and the connection is at rest.                    *)
LEMMA OpenAsked ==
    ASSUME HttpAssumption, HttpInv, Open \/ stage # "idle", http.streaming = 0,
           NEW d, NEW r \in DOMAIN requests, r = http.current + 1, Asked(Conn, d, r), d.http.state = "open"
    PROVE  /\ Ready(d) /\ d \in Conns /\ d.http.current = r /\ d.http.fallback = http.fallback
           /\ d.http.streaming = 0
           /\ ~EmptyBodyRead => Bodies(d, 0, FALSE)
  <1>1. /\ requests \in Seq(Request) /\ Conn \in Conns /\ Conn.http = http /\ Ready(Conn)
        /\ (~EmptyBodyRead => Bodies(Conn, Whole(http.current) - http.streaming, http.streaming = 0))
        /\ Whole(http.current) \in Nat
    BY OpenInv DEF HttpTypes
  <1>2. Ready(d) /\ d.http.current = r /\ d.http.fallback = http.fallback /\ d.http.streaming = 0
    BY <1>1 DEF Asked
  <1>3. d \in Conns
    BY <1>2 DEF Ready
  <1>4. ASSUME ~EmptyBodyRead PROVE Bodies(d, 0, FALSE)
    <2>1. Whole(http.current) - 0 = Whole(http.current)
      BY <1>1
    <2>2. Bodies(Conn, Whole(Conn.http.current), TRUE)
      BY <1>1, <1>4, <2>1
    <2> QED
      BY <1>1, <2>2, AskedBodies
  <1> QED
    BY <1>2, <1>3, <1>4

(* A whole head is in the chunk.                                           *)
LEMMA ParseInv ==
    ASSUME HttpAssumption, HttpInv, NEW n \in 0..ReplySize, ParseRequest(n)
    PROVE  HttpInv'
  <1> DEFINE q == http.current
             r == q + 1
             head == GetHeaders(chunk)
             rest == After(head, chunk)
             body == requests[chunk[1][1]].body
             m == Least(BodySize(requests[chunk[1][1]]), Len(rest))
             asked == RequestHandler(Conn, chunk[1][1], n)
             bytes == First(m, rest)
             fin == m = body \/ body = NoBody
             read == DataHandler(asked, bytes, fin)
             told == [read EXCEPT !.http.streaming = IF body = NoBody THEN 0 ELSE body - m]
             left == After(m, rest)
             stream == chunk \o sending
  <1>1. /\ stage = "parse" /\ head > 0
        /\ Becomes(IF asked.http.state # "open" THEN asked ELSE told, left, "parse")
    BY DEF ParseRequest
  <1>2. /\ HttpTypes /\ http.state = "open" /\ Conn.http = http /\ Ready(Conn) /\ Conn \in Conns
        /\ Parses(http, chunk, sending, stage) /\ q \in 0..Count /\ q \in Nat
        /\ requests \in Seq(Request)
    BY <1>1, OpenInv DEF HttpTypes
  <1>3. /\ http.fallback = <<>> /\ Stream(stream, q, http.streaming) /\ stream \in Seq(Bytes)
        /\ chunk \in Seq(Bytes) /\ sending \in Seq(Bytes)
        /\ Len(stream) = Len(chunk) + Len(sending)
        /\ \A j \in 1..Len(chunk) : stream[j] = chunk[j]
        /\ \A i \in 0..Len(chunk) : /\ After(i, chunk) \in Seq(Bytes)
                                    /\ After(i, chunk) \o sending = After(i, stream)
    BY <1>1, ChunkStream
  <1>4. chunk # <<>>
    <2>1. GetHeaders(<<>>) = 0
      BY DEF GetHeaders
    <2> QED
      BY <1>1, <2>1
  <1>5. http.streaming = 0
    BY <1>1, <1>2, <1>4 DEF Parses
  <1>6. /\ r \in DOMAIN requests /\ q < Count /\ chunk[1] = <<r, 1 - requests[r].head>>
        /\ head = IF requests[r].sound /\ requests[r].head <= Len(chunk) THEN requests[r].head ELSE 0
    <2>1. Stream(chunk \o sending, q, 0)
      BY <1>3, <1>5
    <2> HIDE DEF q
    <2> QED
      BY <1>2, <1>3, <1>4, <2>1, HeadersIs
  <1>7. chunk[1][1] = r
    BY <1>6
  <1>8. /\ head = requests[r].head /\ head \in Nat /\ head >= 1 /\ head <= Len(chunk)
        /\ body = requests[r].body /\ body \in Nat \cup {NoBody} /\ Size(r) \in Nat
        /\ (body # NoBody => Size(r) = body) /\ (body = NoBody => Size(r) = 0)
    BY <1>1, <1>2, <1>6, <1>7, RequestType
  <1>9. m = Least(Size(r), Len(rest))
    BY <1>7 DEF Size
  <1>10. rest \in Seq(Bytes) /\ Len(rest) = Len(chunk) - head
         /\ \A j \in 1..(Len(chunk) - head) : rest[j] = chunk[head + j]
    <2>1. head \in 0..Len(chunk)
      BY <1>3, <1>8
    <2> HIDE DEF head
    <2> QED
      BY <1>3, <2>1, AfterIs
  <1>11. m \in 0..Size(r) /\ m \in 0..Len(rest) /\ (m = Size(r) \/ m = Len(rest)) /\ m \in Nat
    <2>1. Len(rest) \in Nat
      BY <1>10
    <2> QED
      BY <1>8, <1>9, <2>1 DEF Least
  <1>12. head + m \in 0..Len(chunk) /\ \A j \in 1..m : /\ j \in 1..(Len(chunk) - head) /\ j \in 1..Size(r)
                                                       /\ head + j \in 1..Len(chunk) /\ 0 + j = j
    <2>1. Len(chunk) \in Nat /\ head \in Nat /\ head <= Len(chunk) /\ Size(r) \in Nat
      BY <1>3, <1>8
    <2>2. m \in 0..Size(r) /\ m \in 0..(Len(chunk) - head)
      BY <1>10, <1>11
    <2> HIDE DEF head, m, rest, r
    <2> QED
      BY <2>1, <2>2
  <1>13. fin = (m = Size(r)) /\ (IF body = NoBody THEN 0 ELSE body - m) = Size(r) - m
    <2>1. NoBody \notin Nat
      BY DEF NoBody
    <2> QED
      BY <1>8, <1>11, <2>1
  <1>14. asked = RequestHandler(Conn, r, n)
    BY <1>7
  <1>15. told = [read EXCEPT !.http.streaming = Size(r) - m]
    BY <1>13
  <1> HIDE DEF asked, told, body
  <1>16. /\ \A j \in 1..Size(r) : stream[head + j] = <<r, j>>
         /\ \A i \in 0..Size(r) : Stream(After(head + i, stream), r, Size(r) - i)
    <2>1. q \in 0..(Count - 1) /\ Stream(stream, q, 0)
      <3>1. q \in 0..Count /\ q < Count /\ Count \in Nat
        BY <1>2, <1>6 DEF Count
      <3>2. q \in 0..(Count - 1)
        BY <3>1
      <3> QED
        BY <1>3, <1>5, <3>2
    <2> HIDE DEF q, stream, head
    <2> QED
      BY <1>2, <1>3, <1>8, <2>1, HeadNext
  <1>17. Asked(Conn, asked, r)
    <2>1. r = Conn.http.current + 1
      BY <1>2
    <2> HIDE DEF r
    <2> QED
      BY <1>2, <1>6, <1>14, <2>1, RequestAsked
  <1>18. left \in Seq(Bytes) /\ left = After(head + m, chunk)
    <2>1. head \in 0..Len(chunk) /\ m \in 0..(Len(chunk) - head)
      BY <1>3, <1>8, <1>10, <1>11
    <2> HIDE DEF head, m
    <2>2. left = After(head + m, chunk)
      BY <1>3, <2>1, AfterAfter
    <2>3. head + m \in 0..Len(chunk)
      BY <1>3, <2>1
    <2> QED
      BY <1>3, <2>2, <2>3
  <1>19. stage # "idle"
    BY <1>1
  <1>20. CASE asked.http.state # "open"
    <2>1. Holds(asked, <<>>, sending, "idle") /\ asked \in Conns
      BY <1>5, <1>17, <1>19, <1>20, GoneHolds
    <2>2. Becomes(asked, left, "parse")
      BY <1>1, <1>20
    <2>3. left \in Seq(Bytes) /\ "parse" \in {"idle", "parse", "stream", "join", "end"}
      BY <1>18
    <2> HIDE DEF left
    <2> QED
      BY <1>2, <1>20, <2>1, <2>2, <2>3, BecomesInv
  <1>21. CASE asked.http.state = "open"
    <2>1. /\ Ready(asked) /\ asked \in Conns /\ asked.http.current = r /\ asked.http.fallback = <<>>
          /\ asked.http.streaming = 0 /\ (~EmptyBodyRead => Bodies(asked, 0, FALSE))
      <3>1. r = http.current + 1
        OBVIOUS
      <3> HIDE DEF r
      <3> QED
        BY <1>3, <1>5, <1>6, <1>17, <1>19, <1>21, <3>1, OpenAsked
    <2>2. bytes \in Seq(Bytes) /\ Len(bytes) = m /\ \A j \in 1..m : bytes[j] = <<r, 0 + j>>
      <3>1. bytes \in Seq(Bytes) /\ Len(bytes) = m /\ \A j \in 1..m : bytes[j] = rest[j]
        <4> HIDE DEF m, rest
        <4> QED
          BY <1>10, <1>11, FirstIs
      <3>2. ASSUME NEW j \in 1..m PROVE rest[j] = <<r, 0 + j>>
        <4>1. j \in 1..(Len(chunk) - head) /\ head + j \in 1..Len(chunk) /\ j \in 1..Size(r) /\ 0 + j = j
          BY <1>12
        <4> HIDE DEF m, rest, head, stream, r
        <4>2. rest[j] = chunk[head + j] /\ chunk[head + j] = stream[head + j] /\ stream[head + j] = <<r, j>>
          BY <1>3, <1>10, <1>16, <4>1
        <4> QED
          BY <4>1, <4>2
      <3> HIDE DEF bytes, m, rest
      <3> QED
        BY <3>1, <3>2
    <2>3. fin \in BOOLEAN
      OBVIOUS
    <2> HIDE DEF fin, bytes
    <2>4. Read(asked, read, bytes, fin)
      BY <1>2, <2>1, <2>2, <2>3, DataRead
    <2> HIDE DEF read
    <2>5. Ready(read) /\ read.http.current = r /\ read.http.fallback = <<>> /\ read \in Conns
          /\ read.http.state = "open"
      BY <2>1, <2>4 DEF Read, Ready
    <2>6. Size(r) - m \in Nat
      BY <1>8, <1>11
    <2>7. /\ told \in Conns /\ Ready(told) /\ told.http.streaming = Size(r) - m /\ told.http.fallback = <<>>
          /\ told.http.current = r /\ told.http.state = "open"
          /\ \A k, b : Bodies(read, k, b) => Bodies(told, k, b)
      <3> HIDE DEF m, r
      <3> QED
        BY <1>2, <1>15, <2>5, <2>6, StreamingIs
    <2>8. r # 0 /\ Whole(r) = Size(r)
      BY <1>2 DEF Whole
    <2>9. Parses(told.http, left, sending, "parse")
      <3>1. Stream(left \o sending, r, Size(r) - m)
        <4>1. head + m \in 0..Len(chunk) /\ m \in 0..Size(r)
          BY <1>11, <1>12
        <4>2. left \o sending = After(head + m, stream)
          BY <1>3, <1>18, <4>1
        <4> QED
          BY <1>16, <4>1, <4>2
      <3>2. Size(r) - m = 0 \/ left = <<>>
        <4>1. CASE m = Size(r)
          BY <1>8, <4>1
        <4>2. CASE m = Len(rest)
          <5>1. Len(left) = Len(rest) - m
            <6> HIDE DEF rest, m
            <6> QED
              BY <1>10, <1>11, AfterIs
          <5>2. Len(left) = 0 /\ left \in Seq(Bytes)
            <6> HIDE DEF rest, m, left
            <6> QED
              BY <1>10, <1>11, <1>18, <4>2, <5>1
          <5> HIDE DEF left
          <5> QED
            BY <5>2
        <4> QED
          BY <1>11, <4>1, <4>2
      <3> HIDE DEF left, m, r
      <3>3. told.http.fallback \o left \o sending = left \o sending
        <4>1. <<>> \o left = left
          BY <1>18, ConcatNothing
        <4> QED
          BY <2>7, <4>1
      <3>4. Size(r) - m <= Whole(r)
        BY <1>8, <1>11, <2>8
      <3>5. Keeps(told.http)
        BY <2>7 DEF Keeps, HttpAssumption
      <3> QED
        BY <2>7, <3>1, <3>2, <3>3, <3>4, <3>5 DEF Parses
    <2>10. ASSUME ~EmptyBodyRead PROVE Bodies(told, Whole(r) - (Size(r) - m), (Size(r) - m) = 0)
      <3>1. Bodies(asked, 0, FALSE)
        BY <2>1, <2>10
      <3> HIDE DEF m, r, asked, read
      <3>2. Bodies(read, 0 + m, fin)
        <4>1. m \in Nat /\ 0 + m <= Size(r) /\ 0 \in Nat
          BY <1>8, <1>11
        <4> QED
          BY <1>2, <2>1, <2>2, <2>3, <2>4, <2>8, <3>1, <4>1, BodiesRead
      <3>3. Whole(r) - (Size(r) - m) = 0 + m /\ ((Size(r) - m) = 0) = fin
        BY <1>8, <1>11, <1>13, <2>8
      <3> QED
        BY <2>7, <3>2, <3>3
    <2>11. Holds(told, left, sending, "parse")
      <3> HIDE DEF left, m, r
      <3> QED
        BY <2>7, <2>9, <2>10 DEF Holds
    <2>12. Becomes(told, left, "parse")
      BY <1>1, <1>21
    <2>13. left \in Seq(Bytes) /\ "parse" \in {"idle", "parse", "stream", "join", "end"}
      BY <1>18
    <2> HIDE DEF left
    <2> QED
      BY <1>2, <2>7, <2>11, <2>12, <2>13, BecomesInv
  <1> QED
    BY <1>20, <1>21

\* The bytes the fallback has room for, and what it is with them.
Room == Least(MaxFallback - Len(http.fallback), Len(chunk))
Joined == http.fallback \o First(Room, chunk)

(* What the fallback is of the stream, when a chunk is joined to it.       *)
LEMMA JoinStream ==
    ASSUME HttpAssumption, HttpInv, stage = "join"
    PROVE  LET k == Room
               joined == Joined
               s == http.fallback \o chunk \o sending
               r == http.current + 1
           IN  /\ http.streaming = 0 /\ http.current \in 0..(Count - 1) /\ r \in DOMAIN requests
               /\ s \in Seq(Bytes) /\ Stream(s, http.current, 0)
               /\ joined \in Seq(Bytes) /\ joined # <<>> /\ joined[1] = <<r, 1 - requests[r].head>>
               /\ k \in 0..Len(chunk) /\ Len(joined) = Len(http.fallback) + k
               /\ Len(joined) <= MaxFallback
               /\ Len(joined) # MaxFallback => k = Len(chunk) /\ joined = http.fallback \o chunk
               /\ GetHeaders(joined) > 0 =>
                     GetHeaders(joined) = requests[r].head /\ requests[r].head > Len(http.fallback)
                     /\ requests[r].head <= Len(joined)
               /\ GetHeaders(joined) \in Nat
  <1> DEFINE k == Room
             joined == Joined
             f == http.fallback
             s == f \o chunk \o sending
             q == http.current
             r == q + 1
             c == First(k, chunk)
             a == After(k, chunk)
             g == GetHeaders(joined)
  <1>1. /\ HttpTypes /\ Parses(http, chunk, sending, stage) /\ q \in 0..Count /\ q \in Nat /\ f \in Seq(Bytes)
        /\ requests \in Seq(Request) /\ chunk \in Seq(Bytes) /\ sending \in Seq(Bytes)
    BY OpenInv DEF HttpTypes
  <1>2. f # <<>> /\ http.streaming = 0 /\ Len(f) <= MaxFallback /\ GetHeaders(f) = 0
        /\ Stream(s, q, 0)
    BY <1>1 DEF Parses, Keeps
  <1>3. k \in 0..Len(chunk) /\ k \in Nat /\ Len(f) + k <= MaxFallback /\ Len(f) \in Nat /\ MaxFallback \in Nat
        /\ (Len(f) + k # MaxFallback => k = Len(chunk))
    <2>1. Len(f) \in Nat /\ Len(chunk) \in Nat /\ MaxFallback \in Nat
      BY <1>1 DEF HttpAssumption
    <2> HIDE DEF f
    <2>2. k = IF MaxFallback - Len(f) < Len(chunk) THEN MaxFallback - Len(f) ELSE Len(chunk)
      BY DEF Least, Room, f
    <2> HIDE DEF k
    <2> QED
      BY <1>2, <2>1, <2>2
  <1> HIDE DEF k
  <1>4. c \in Seq(Bytes) /\ Len(c) = k /\ a \in Seq(Bytes) /\ c \o a = chunk
    BY <1>1, <1>3, FirstIs, AfterIs, Cut
  <1>5. joined \in Seq(Bytes) /\ Len(joined) = Len(f) + k
    <2>1. f \in Seq(Bytes) /\ c \in Seq(Bytes)
      BY <1>1, <1>4
    <2>2. joined = f \o c
      BY DEF Joined, k
    <2> HIDE DEF f, c, joined
    <2> QED
      BY <1>4, <2>1, <2>2, ConcatIs
  <1> HIDE DEF joined
  <1>6. joined # <<>>
    <2>1. Len(f) >= 1
      BY <1>1, <1>2
    <2>2. Len(joined) >= 1
      BY <1>3, <1>5, <2>1
    <2> QED
      BY <2>2
  <1>7. f \o (chunk \o sending) = s /\ joined \o (a \o sending) = s /\ a \o sending \in Seq(Bytes)
        /\ chunk \o sending \in Seq(Bytes) /\ s \in Seq(Bytes)
    <2>1. joined = f \o c
      BY DEF joined, Joined, k
    <2> HIDE DEF f, c, a, joined
    <2>2. f \in Seq(Bytes) /\ c \in Seq(Bytes) /\ a \in Seq(Bytes) /\ chunk \in Seq(Bytes) /\ sending \in Seq(Bytes)
      BY <1>1, <1>4
    <2>3. a \o sending \in Seq(Bytes) /\ chunk \o sending \in Seq(Bytes)
      BY <2>2, ConcatIs
    <2>4. f \o (chunk \o sending) = s
      <3>1. f \in Seq(Bytes) /\ chunk \in Seq(Bytes) /\ sending \in Seq(Bytes)
        BY <2>2
      <3>2. (f \o chunk) \o sending = f \o (chunk \o sending)
        BY <3>1, ConcatThree
      <3> QED
        BY <3>2
    <2>5. joined \o (a \o sending) = f \o (c \o (a \o sending))
      BY <2>1, <2>2, <2>3, ConcatThree
    <2>6. c \o (a \o sending) = chunk \o sending
      <3>1. (c \o a) \o sending = c \o (a \o sending)
        BY <2>2, ConcatThree
      <3> QED
        BY <1>4, <3>1
    <2>7. f \o (chunk \o sending) \in Seq(Bytes)
      BY <2>2, <2>3, ConcatIs
    <2> QED
      BY <2>3, <2>4, <2>5, <2>6, <2>7
  <1> HIDE DEF f, c, a, s
  <1>8. /\ r \in DOMAIN requests /\ q < Count /\ joined[1] = <<r, 1 - requests[r].head>>
        /\ g = IF requests[r].sound /\ requests[r].head <= Len(joined) THEN requests[r].head ELSE 0
    <2>1. Stream(joined \o (a \o sending), q, 0)
      BY <1>2, <1>7
    <2> HIDE DEF q
    <2> QED
      BY <1>1, <1>5, <1>6, <1>7, <2>1, HeadersIs
  <1>9. 0 = IF requests[r].sound /\ requests[r].head <= Len(f) THEN requests[r].head ELSE 0
    <2>1. Stream(f \o (chunk \o sending), q, 0)
      BY <1>2, <1>7
    <2> HIDE DEF q
    <2> QED
      BY <1>1, <1>2, <1>7, <2>1, HeadersIs
  <1>10. requests[r].head \in Nat /\ requests[r].head >= 1
    BY <1>1, <1>8, RequestType
  <1>11. g \in Nat
    <2> HIDE DEF g, r
    <2> QED
      BY <1>8, <1>10
  <1>12. g > 0 => g = requests[r].head /\ requests[r].head > Len(f) /\ requests[r].head <= Len(joined)
    <2> HIDE DEF g, r
    <2> QED
      BY <1>3, <1>8, <1>9, <1>10
  <1>13. q \in 0..(Count - 1)
    <2>1. Count \in Nat /\ q \in Nat /\ q < Count
      BY <1>1, <1>8 DEF Count
    <2> QED
      BY <2>1
  <1>14. Len(joined) # MaxFallback => k = Len(chunk) /\ joined = f \o chunk
    <2> SUFFICES ASSUME Len(joined) # MaxFallback PROVE k = Len(chunk) /\ joined = f \o chunk
      OBVIOUS
    <2>1. k = Len(chunk)
      BY <1>3, <1>5
    <2>2. SubSeq(chunk, 1, Len(chunk)) = chunk
      BY <1>1
    <2> QED
      BY <2>1, <2>2 DEF First, f, joined, Joined, k
  <1> QED
    BY <1>2, <1>3, <1>5, <1>6, <1>7, <1>8, <1>11, <1>12, <1>13, <1>14 DEF f, s, k, joined

(* A head is put together in the fallback.                                 *)
LEMMA JoinInv ==
    ASSUME HttpAssumption, HttpInv, NEW n \in 0..ReplySize, JoinFallback(n)
    PROVE  HttpInv'
  <1> DEFINE f == http.fallback
             q == http.current
             r == q + 1
             k == Room
             joined == Joined
             head == GetHeaders(joined)
             asked == RequestHandler(Conn, r, n)
             body == requests[r].body
             read == DataHandler(asked, <<>>, TRUE)
             told == IF body = NoBody THEN read ELSE [asked EXCEPT !.http.streaming = body]
             done == [told EXCEPT !.http.fallback = <<>>]
             kept == [Conn EXCEPT !.http.fallback = joined]
             left == After(head - Len(f), chunk)
             next == IF body > 0 THEN "stream" ELSE "parse"
             stream == f \o chunk \o sending
  <1>1. stage = "join"
    BY DEF JoinFallback
  <1>2. /\ HttpTypes /\ http.state = "open" /\ Conn.http = http /\ Ready(Conn) /\ Conn \in Conns
        /\ Parses(http, chunk, sending, stage) /\ q \in Nat /\ f \in Seq(Bytes)
        /\ requests \in Seq(Request) /\ chunk \in Seq(Bytes) /\ sending \in Seq(Bytes)
        /\ ~EmptyBodyRead => Bodies(Conn, Whole(q) - http.streaming, http.streaming = 0)
    BY <1>1, OpenInv DEF HttpTypes
  <1>3. /\ http.streaming = 0 /\ q \in 0..(Count - 1) /\ r \in DOMAIN requests
        /\ stream \in Seq(Bytes) /\ Stream(stream, q, 0)
        /\ joined \in Seq(Bytes) /\ joined # <<>> /\ joined[1] = <<r, 1 - requests[r].head>>
        /\ k \in 0..Len(chunk) /\ Len(joined) = Len(f) + k
        /\ Len(joined) <= MaxFallback
        /\ Len(joined) # MaxFallback => k = Len(chunk) /\ joined = f \o chunk
        /\ head > 0 => head = requests[r].head /\ requests[r].head > Len(f)
                       /\ requests[r].head <= Len(joined)
        /\ head \in Nat
    BY <1>1, JoinStream
  <1>4. \/ head > 0 /\ Becomes(IF asked.http.state # "open" THEN asked ELSE done, left, next)
        \/ head = 0 /\ Becomes(IF Len(joined) = MaxFallback THEN Close(Conn) ELSE kept, <<>>, "end")
    <2>1. joined[1][1] = r
      BY <1>3
    <2>2. http.fallback \o First(Least(MaxFallback - Len(http.fallback), Len(chunk)), chunk) = joined
      BY DEF Joined, Room
    <2> HIDE DEF joined, r
    <2> QED
      BY <2>1, <2>2 DEF JoinFallback
  <1> HIDE DEF joined, k, head, asked
  <1>5. CASE head = 0 /\ Len(joined) = MaxFallback
    <2>1. Becomes(Close(Conn), <<>>, "end") /\ "end" \in {"idle", "end"} /\ stage # "idle"
      BY <1>1, <1>4, <1>5
    <2> QED
      BY <2>1, CloseInv
  <1>6. CASE head = 0 /\ Len(joined) # MaxFallback
    <2>1. Becomes(kept, <<>>, "end")
      BY <1>4, <1>6
    <2>2. /\ kept \in Conns /\ kept.http.fallback = joined /\ kept.http.streaming = 0
          /\ kept.http.current = q /\ kept.http.state = "open" /\ Ready(kept)
          /\ \A i, fin : Bodies(Conn, i, fin) => Bodies(kept, i, fin)
      <3>1. joined \in Seq(Bytes) /\ http.streaming = 0
        BY <1>3
      <3>2. /\ kept \in Conns /\ kept.http.fallback = joined
            /\ kept.http.streaming = Conn.http.streaming /\ kept.http.current = Conn.http.current
            /\ kept.http.state = Conn.http.state /\ (Ready(Conn) => Ready(kept))
            /\ \A i, fin : Bodies(Conn, i, fin) => Bodies(kept, i, fin)
        BY <1>2, <3>1, FallbackIs
      <3> HIDE DEF kept
      <3> QED
        BY <1>2, <3>1, <3>2
    <2> HIDE DEF kept
    <2>3. Parses(kept.http, <<>>, sending, "end")
      <3>1. kept.http.fallback \o <<>> \o sending = stream
        <4>1. joined \o <<>> = joined
          BY <1>3, ConcatNothing
        <4>2. joined = f \o chunk
          BY <1>3, <1>6
        <4> HIDE DEF f
        <4> QED
          BY <2>2, <4>1, <4>2
      <3>2. Keeps(kept.http)
        BY <1>3, <2>2 DEF Keeps
      <3>3. 0 <= Whole(q)
        BY <1>2, <1>3 DEF Parses
      <3>4. GetHeaders(joined) = 0
        BY <1>6 DEF head
      <3> HIDE DEF stream, q
      <3> QED
        BY <1>3, <2>2, <3>1, <3>2, <3>3, <3>4 DEF Parses
    <2>4. Holds(kept, <<>>, sending, "end")
      BY <1>2, <1>3, <2>2, <2>3 DEF Holds
    <2>5. <<>> \in Seq(Bytes) /\ "end" \in {"idle", "parse", "stream", "join", "end"}
      OBVIOUS
    <2> QED
      BY <1>2, <2>1, <2>2, <2>4, <2>5, BecomesInv
  <1>7. CASE head > 0
    <2>1. Becomes(IF asked.http.state # "open" THEN asked ELSE done, left, next)
      BY <1>4, <1>7
    <2>2. head = requests[r].head /\ head > Len(f) /\ head <= Len(f) + k
      BY <1>3, <1>7
    <2>3. head - Len(f) \in 0..Len(chunk) /\ head \in Len(f)..(Len(f) + Len(chunk))
      <3>1. Len(f) \in Nat /\ Len(chunk) \in Nat
        BY <1>2
      <3>2. head \in Nat /\ k \in 0..Len(chunk)
        BY <1>3
      <3> HIDE DEF f
      <3> QED
        BY <2>2, <3>1, <3>2
    <2>4. left \in Seq(Bytes)
      <3> DEFINE i == head - Len(f)
      <3>1. i \in 0..Len(chunk)
        BY <2>3
      <3> HIDE DEF i
      <3>2. After(i, chunk) \in Seq(Bytes)
        BY <1>2, <3>1, AfterIs
      <3> QED
        BY <3>2 DEF i
    <2>5. left \o sending = After(head, stream)
      <3>1. left = After(head, f \o chunk)
        <4> HIDE DEF f
        <4> QED
          BY <1>2, <2>3, AfterBehind
      <3>2. f \o chunk \in Seq(Bytes) /\ head \in 0..Len(f \o chunk)
        <4>1. f \in Seq(Bytes) /\ head \in Nat
          BY <1>2, <1>3
        <4> HIDE DEF f
        <4>2. f \o chunk \in Seq(Bytes) /\ Len(f \o chunk) = Len(f) + Len(chunk)
          BY <1>2, <4>1, ConcatIs
        <4> QED
          BY <2>3, <4>1, <4>2
      <3> DEFINE u == f \o chunk
      <3> HIDE DEF u
      <3>3. After(head, u) \o sending = After(head, u \o sending)
        <4>1. u \in Seq(Bytes) /\ head \in 0..Len(u)
          BY <3>2 DEF u
        <4> QED
          BY <1>2, <4>1, AfterConcat
      <3> QED
        BY <3>1, <3>3 DEF u
    <2> HIDE DEF left
    <2>6. Stream(After(head, stream), r, Size(r)) /\ Size(r) \in Nat /\ r # 0 /\ Whole(r) = Size(r)
      <3>1. \A i \in 0..Size(r) : Stream(After(requests[r].head + i, stream), r, Size(r) - i)
        <4> HIDE DEF stream, q
        <4> QED
          BY <1>2, <1>3, HeadNext
      <3>2. Size(r) \in Nat /\ r # 0 /\ requests[r].head \in Nat
        BY <1>2, <1>3, RequestType
      <3> HIDE DEF r, stream
      <3>3. Stream(After(requests[r].head + 0, stream), r, Size(r) - 0)
        BY <3>1, <3>2
      <3>4. requests[r].head + 0 = head /\ Size(r) - 0 = Size(r)
        BY <2>2, <3>2
      <3> QED
        BY <3>2, <3>3, <3>4 DEF Whole
    <2>7. body \in Nat \cup {NoBody} /\ (body # NoBody => Size(r) = body) /\ (body = NoBody => Size(r) = 0)
      BY <1>2, <1>3, RequestType
    <2>8. Asked(Conn, asked, r)
      <3>1. r = Conn.http.current + 1
        BY <1>2
      <3>2. asked = RequestHandler(Conn, r, n)
        BY DEF asked
      <3> HIDE DEF r
      <3> QED
        BY <1>2, <1>3, <3>1, <3>2, RequestAsked
    <2>9. next \in {"idle", "parse", "stream", "join", "end"}
      OBVIOUS
    <2> HIDE DEF next
    <2>10. CASE asked.http.state # "open"
      <3>1. Holds(asked, <<>>, sending, "idle") /\ asked \in Conns
        BY <1>1, <1>3, <2>8, <2>10, GoneHolds
      <3>2. Becomes(asked, left, next)
        BY <2>1, <2>10
      <3> QED
        BY <1>2, <2>4, <2>9, <2>10, <3>1, <3>2, BecomesInv
    <2>11. CASE asked.http.state = "open"
      <3>1. /\ Ready(asked) /\ asked \in Conns /\ asked.http.current = r
            /\ asked.http.streaming = 0 /\ (~EmptyBodyRead => Bodies(asked, 0, FALSE))
        <4>1. r = http.current + 1
          OBVIOUS
        <4> HIDE DEF r
        <4> QED
          BY <1>1, <1>3, <2>8, <2>11, <4>1, OpenAsked
      <3>2. /\ told \in Conns /\ Ready(told) /\ told.http.current = r /\ told.http.streaming = Size(r)
            /\ ~EmptyBodyRead => Bodies(told, 0, Size(r) = 0)
        <4> HIDE DEF r
        <4>1. CASE body = NoBody
          <5>1. told = read /\ Size(r) = 0
            BY <2>7, <4>1
          <5>2. <<>> \in Seq(Bytes) /\ TRUE \in BOOLEAN
            OBVIOUS
          <5>3. Read(asked, read, <<>>, TRUE)
            BY <1>2, <3>1, <5>2, DataRead
          <5> HIDE DEF read, told
          <5>4. Ready(read) /\ read.http.current = r /\ read.http.streaming = 0 /\ read \in Conns
            BY <3>1, <5>3 DEF Read, Ready
          <5>5. ASSUME ~EmptyBodyRead PROVE Bodies(read, 0, TRUE)
            <6> DEFINE none == <<>>
            <6>1. Bodies(asked, 0, FALSE)
              BY <3>1, <5>5
            <6>4. Len(none) = 0 /\ none \in Seq(Bytes)
              OBVIOUS
            <6>5. \A j \in 1..0 : none[j] = <<asked.http.current, 0 + j>>
              OBVIOUS
            <6>6. Read(asked, read, none, TRUE)
              BY <5>3
            <6>2. 0 \in Nat /\ 0 + 0 <= Size(asked.http.current) /\ asked.http.current # 0
              BY <2>6, <3>1
            <6> HIDE DEF none
            <6>3. Bodies(read, 0 + 0, TRUE)
              BY <1>2, <3>1, <5>2, <6>1, <6>2, <6>4, <6>5, <6>6, BodiesRead
            <6>7. 0 + 0 = 0
              OBVIOUS
            <6> QED
              BY <6>3, <6>7
          <5>6. (Size(r) = 0) = TRUE
            BY <5>1
          <5> QED
            BY <5>1, <5>4, <5>5, <5>6
        <4>2. CASE body # NoBody
          <5>1. told = [asked EXCEPT !.http.streaming = Size(r)]
            BY <2>7, <4>2
          <5> HIDE DEF told
          <5>2. /\ told \in Conns /\ Ready(told) /\ told.http.current = r /\ told.http.streaming = Size(r)
                /\ \A i, fin : Bodies(asked, i, fin) => Bodies(told, i, fin)
            BY <1>2, <2>6, <3>1, <5>1, StreamingIs
          <5>3. ASSUME ~EmptyBodyRead PROVE Bodies(told, 0, Size(r) = 0)
            <6>1. Bodies(told, 0, FALSE)
              BY <3>1, <5>2, <5>3
            <6>2. CASE Size(r) = 0
              <7>1. ~Reads(r)
                BY <1>3, <2>7, <4>2, <5>3, <6>2 DEF EmptyBodyRead, Reads
              <7>2. Bodies(told, 0, TRUE)
                <8>1. r \in Nat
                  BY <1>2 DEF r
                <8>2. \A p \in DOMAIN requests : p \in Nat
                  BY <1>2, RequestType
                <8>3. \A p \in DOMAIN requests :
                        IF p > r \/ ~Reads(p) THEN told.log.body[p] = <<>> /\ told.log.fins[p] = 0
                        ELSE p < r => told.log.body[p] = Body(p) /\ told.log.fins[p] = 1
                  BY <5>2, <6>1 DEF Bodies
                <8>4. \A p \in DOMAIN requests : ~(p > r \/ ~Reads(p)) => p < r
                  BY <7>1, <8>1, <8>2
                <8>5. told.http.inStream = 0
                  BY <5>2, <6>1, <7>1 DEF Bodies
                <8> QED
                  BY <5>2, <8>3, <8>4, <8>5 DEF Bodies
              <7>3. (Size(r) = 0) = TRUE
                BY <6>2
              <7> QED
                BY <7>2, <7>3
            <6>3. CASE Size(r) # 0
              <7>1. (Size(r) = 0) = FALSE
                BY <6>3
              <7> QED
                BY <6>1, <7>1
            <6> QED
              BY <6>2, <6>3
          <5> QED
            BY <5>2, <5>3
        <4> QED
          BY <4>1, <4>2
      <3> HIDE DEF told
      <3>3. /\ done \in Conns /\ Ready(done) /\ done.http.current = r /\ done.http.streaming = Size(r)
            /\ done.http.fallback = <<>>
            /\ \A i, fin : Bodies(told, i, fin) => Bodies(done, i, fin)
        <4>1. <<>> \in Seq(Bytes)
          OBVIOUS
        <4> HIDE DEF r
        <4> QED
          BY <1>2, <3>2, <4>1, FallbackIs
      <3> HIDE DEF done
      <3>4. done.http.state = "open"
        BY <3>3 DEF Ready
      <3>5. Parses(done.http, left, sending, next)
        <4>1. done.http.fallback \o left \o sending = left \o sending
          <5>1. <<>> \o left = left
            BY <2>4, ConcatNothing
          <5> QED
            BY <3>3, <5>1
        <4>2. Keeps(done.http)
          BY <3>3 DEF Keeps, HttpAssumption
        <4>3. Stream(left \o sending, r, Size(r))
          BY <2>5, <2>6
        <4> HIDE DEF r, stream
        <4>4. next = IF Size(r) > 0 THEN "stream" ELSE "parse"
          <5>1. CASE body = NoBody
            BY <2>7, <5>1 DEF next, NoBody
          <5>2. CASE body # NoBody
            BY <2>7, <5>2 DEF next
          <5> QED
            BY <5>1, <5>2
        <4>5. Size(r) <= Whole(r) /\ Size(r) \in Nat
          BY <2>6
        <4>6. (Size(r) > 0 /\ next = "stream") \/ (Size(r) = 0 /\ next = "parse")
          BY <4>4, <4>5
        <4> QED
          BY <3>3, <4>1, <4>2, <4>3, <4>5, <4>6 DEF Parses
      <3>6. ASSUME ~EmptyBodyRead PROVE Bodies(done, Whole(r) - Size(r), Size(r) = 0)
        <4>1. Whole(r) - Size(r) = 0
          BY <2>6
        <4>2. Bodies(told, 0, Size(r) = 0)
          BY <3>2, <3>6
        <4> HIDE DEF r
        <4> QED
          BY <3>3, <4>1, <4>2
      <3>7. Holds(done, left, sending, next)
        BY <3>3, <3>4, <3>5, <3>6 DEF Holds
      <3>8. Becomes(done, left, next)
        BY <2>1, <2>11
      <3> QED
        BY <1>2, <2>4, <2>9, <3>3, <3>4, <3>7, <3>8, BecomesInv
    <2> QED
      BY <2>10, <2>11
  <1> QED
    BY <1>3, <1>5, <1>6, <1>7

-----------------------------------------------------------------------------
(* The invariant.                                                          *)

(* A connection where nothing was received, nor answered.                  *)
LEMMA InitConn ==
    ASSUME HttpAssumption, requests \in Seq(Request), HttpInit
    PROVE  Conn \in Conns /\ Ready(Conn) /\ Bodies(Conn, 0, TRUE)
  <1>1. /\ http = [state |-> "open", timer |-> TRUE, fallback |-> <<>>, streaming |-> 0,
                   current |-> 0, pending |-> FALSE, calls |-> {}, offset |-> 0,
                   onAborted |-> 0, onWritable |-> 0, inStream |-> 0]
        /\ log = [seen |-> <<>>, body |-> [r \in DOMAIN requests |-> <<>>],
                  fins |-> [r \in DOMAIN requests |-> 0], out |-> <<>>,
                  aborted |-> [r \in DOMAIN requests |-> 0]]
        /\ Conn.http = http /\ Conn.log = log /\ Conn = [http |-> http, log |-> log]
    BY DEF HttpInit, Conn
  <1>2. http \in Https
    BY <1>1 DEF Https, Owner
  <1>3. log \in Logs
    <2>1. [r \in DOMAIN requests |-> <<>>] \in [DOMAIN requests -> Seq(Bytes)]
      OBVIOUS
    <2>2. [r \in DOMAIN requests |-> 0] \in [DOMAIN requests -> Nat]
      OBVIOUS
    <2>3. <<>> \in Seq(DOMAIN requests) /\ <<>> \in Seq(Pieces)
      OBVIOUS
    <2> QED
      BY <1>1, <2>1, <2>2, <2>3 DEF Logs
  <1>4. Conn \in Conns
    BY <1>1, <1>2, <1>3 DEF Conns
  <1>5. /\ http.state = "open" /\ http.timer = TRUE /\ http.current = 0 /\ http.pending = FALSE
        /\ http.onAborted = 0 /\ http.onWritable = 0 /\ http.inStream = 0
        /\ log.seen = <<>> /\ log.out = <<>> /\ \A r \in DOMAIN requests : log.aborted[r] = 0
        /\ \A r \in DOMAIN requests : log.body[r] = <<>> /\ log.fins[r] = 0
    BY <1>1
  <1>6. \A r \in DOMAIN requests : r > 0
    BY RequestType
  <1>7. Answers(Conn)
    <2>1. DOMAIN log.out = {} /\ 1..0 = {}
      BY <1>5
    <2> QED
      BY <1>1, <1>5, <2>1 DEF Answers, WellFormed
  <1>8. Tells(Conn)
    <2>1. <<>> = [i \in 1..0 |-> i]
      OBVIOUS
    <2> QED
      BY <1>1, <1>5, <2>1 DEF Tells
  <1>9. Waits(Conn) /\ Attaches(Conn) /\ Times(Conn)
    BY <1>1, <1>5 DEF Waits, Attaches, Times
  <1>10. Bodies(Conn, 0, TRUE)
    BY <1>1, <1>5, <1>6 DEF Bodies
  <1> QED
    BY <1>1, <1>4, <1>5, <1>7, <1>8, <1>9, <1>10 DEF Ready

(* Where a connection starts.                                              *)
LEMMA InitInv ==
    ASSUME HttpAssumption, HttpInit
    PROVE  HttpInv
  <1>1. requests \in Seq(Request)
    BY DEF HttpInit, HttpAssumption
  <1>2. Conn \in Conns /\ Ready(Conn) /\ Bodies(Conn, 0, TRUE)
    BY <1>1, InitConn
  <1>3. sending \in Seq(Bytes) /\ Stream(sending, 0, 0)
    BY <1>1, StreamStarts DEF HttpInit
  <1>4. chunk = <<>> /\ stage = "idle" /\ chunk \in Seq(Bytes)
    BY DEF HttpInit
  <1>5. /\ Conn.http = http /\ http.state = "open" /\ http.fallback = <<>> /\ http.streaming = 0
        /\ http.current = 0
    BY DEF HttpInit, Conn
  <1>6. HttpTypes
    BY <1>1, <1>3, <1>4 DEF HttpTypes
  <1>7. http.fallback \o chunk \o sending = sending
    <2>1. <<>> \in Seq(Bytes) /\ <<>> \o <<>> = <<>> /\ <<>> \o sending = sending
      BY <1>3, ConcatNothing
    <2> QED
      BY <1>4, <1>5, <2>1
  <1>8. Keeps(http)
    BY <1>5 DEF Keeps, HttpAssumption
  <1>9. Parses(http, chunk, sending, stage)
    BY <1>3, <1>4, <1>5, <1>7, <1>8 DEF Parses, Whole
  <1>10. Bodies(Conn, Whole(http.current) - http.streaming, http.streaming = 0)
    <2>1. Whole(http.current) - http.streaming = 0 /\ (http.streaming = 0) = TRUE
      BY <1>5 DEF Whole
    <2> QED
      BY <1>2, <2>1
  <1> QED
    BY <1>2, <1>5, <1>6, <1>9, <1>10 DEF HttpInv, Holds

(* Nothing happens to the connection.                                      *)
LEMMA StutterInv ==
    ASSUME HttpInv, UNCHANGED httpVars
    PROVE  HttpInv'
  <1>1. /\ requests' = requests /\ sending' = sending /\ chunk' = chunk /\ stage' = stage
        /\ http' = http /\ log' = log
    BY DEF httpVars
  <1>2. HttpTypes /\ Holds(Conn, chunk, sending, stage)
    BY DEF HttpInv
  <1>3. HttpTypes'
    <2>1. Seq(Bytes)' = Seq(Bytes)
      BY <1>1, SameRequests
    <2> QED
      BY <1>1, <1>2, <2>1 DEF HttpTypes
  <1>4. Holds(Conn, chunk, sending, stage)'
    <2>1. Conn' = Conn
      BY <1>1 DEF Conn
    <2>2. \A x, y, z, w : Holds(x, y, z, w) => Holds(x, y, z, w)'
      BY <1>1, SameRequests
    <2> QED
      BY <1>1, <1>2, <2>1, <2>2
  <1> QED
    BY <1>3, <1>4 DEF HttpInv

(* Every step of the parser, and every callback.                           *)
LEMMA StepInv ==
    ASSUME HttpAssumption, HttpInv, [HttpStep]_httpVars
    PROVE  HttpInv'
  <1>1. CASE \E n \in 1..Len(sending) : HttpData(n)
    BY <1>1, DataInv
  <1>2. CASE StreamBody
    BY <1>2, StreamInv
  <1>3. CASE \E n \in 0..ReplySize : JoinFallback(n)
    BY <1>3, JoinInv
  <1>4. CASE \E n \in 0..ReplySize : ParseRequest(n)
    BY <1>4, ParseInv
  <1>5. CASE KeepRest
    BY <1>5, KeepInv
  <1>6. CASE \E failed \in BOOLEAN : UncorkHttp(failed)
    BY <1>6, UncorkInv
  <1>7. CASE \E failed \in BOOLEAN : AnswerChunk(failed)
    BY <1>7, AnswerChunkInv
  <1>8. CASE Answer
    BY <1>8, AnswerInv
  <1>9. CASE \E n \in Taken : HttpWritable(n)
    BY <1>9, WritableInv
  <1>10. CASE HttpTimeout \/ HttpGone
    <2>1. Open /\ Becomes(Close(Conn), <<>>, "idle") /\ "idle" \in {"idle", "end"}
      BY <1>10 DEF HttpTimeout, HttpGone, Between
    <2> QED
      BY <2>1, CloseInv
  <1>11. CASE UNCHANGED httpVars
    BY <1>11, StutterInv
  <1> QED
    BY <1>1, <1>2, <1>3, <1>4, <1>5, <1>6, <1>7, <1>8, <1>9, <1>10, <1>11 DEF HttpStep

(* Whatever the requests, the chunks and the callbacks, the invariant      *)
(* holds throughout.                                                       *)
THEOREM HttpAlways == HttpSpec => []HttpInv
  <1>1. HttpInit => HttpInv
    BY HttpAssumption, InitInv
  <1>2. HttpInv /\ [HttpStep]_httpVars => HttpInv'
    BY HttpAssumption, StepInv
  <1> QED
    BY <1>1, <1>2, PTL DEF HttpSpec

-----------------------------------------------------------------------------
(* What the invariant says.                                                *)

(* A connection that is open, or not HTTP's any more.                      *)
LEMMA InvParts ==
    ASSUME HttpInv
    PROVE  /\ requests \in Seq(Request) /\ Conn.http = http /\ Conn.log = log
           /\ \/ Open /\ Ready(Conn)
              \/ ~Open /\ Over(Conn) /\ Keeps(http) /\ stage = "idle" /\ (~EmptyBodyRead => BodyParts(Conn))
  <1>1. Conn.http = http /\ Conn.log = log
    BY DEF Conn
  <1> QED
    BY <1>1 DEF HttpInv, HttpTypes, Holds, Open

(* The requests that were seen by a connection at rest.                    *)
LEMMA ToldIs ==
    ASSUME HttpInv, Open
    PROVE  Told = 1..http.current /\ Len(log.seen) = http.current /\ http.current \in Nat
  <1>1. /\ requests \in Seq(Request) /\ Conn \in Conns /\ Tells(Conn) /\ Conn.http = http /\ Conn.log = log
    BY OpenInv DEF HttpTypes, Ready
  <1>2. http.current \in Nat
    BY <1>1, CurrentType
  <1>3. log.seen = [i \in 1..http.current |-> i]
    BY <1>1 DEF Tells
  <1> QED
    BY <1>2, <1>3, SeenIs DEF Told

(* The fallback has room for what it keeps.                                *)
LEMMA FallbackInv == HttpInv => FallbackBounded
  <1> SUFFICES ASSUME HttpInv PROVE FallbackBounded
    OBVIOUS
  <1>1. CASE Open
    BY <1>1, OpenInv DEF Parses, Keeps, FallbackBounded
  <1>2. CASE ~Open
    BY <1>2, InvParts DEF Keeps, FallbackBounded
  <1> QED
    BY <1>1, <1>2

(* The answers of all requests are well formed.                            *)
LEMMA AnswersInv == HttpInv => AnswersWhole
  <1> SUFFICES ASSUME HttpInv PROVE AnswersWhole
    OBVIOUS
  <1>1. WellFormed(log.out)
    <2>1. CASE Open
      BY <2>1, InvParts DEF Ready, Answers
    <2>2. CASE ~Open
      BY <2>2, InvParts DEF Over
    <2> QED
      BY <2>1, <2>2
  <1> QED
    BY <1>1 DEF WellFormed, AnswersWhole

(* Who was answered and who was told of an abort.                          *)
LEMMA AbortedInv == HttpInv => AnsweredOrAborted
  <1> SUFFICES ASSUME HttpInv PROVE AnsweredOrAborted
    OBVIOUS
  <1>1. CASE Open
    <2>1. /\ requests \in Seq(Request) /\ Conn \in Conns /\ Answers(Conn) /\ Tells(Conn)
          /\ Conn.http = http /\ Conn.log = log
      BY <1>1, InvParts DEF Ready
    <2>2. Told = 1..http.current
      BY <1>1, ToldIs
    <2>3. \A r \in 1..http.current : r \in DOMAIN requests
      BY <2>1, CurrentType
    <2>4. ASSUME NEW r \in 1..http.current
          PROVE  IF ~Asks(r) THEN log.aborted[r] = 0
                 ELSE log.aborted[r] + (IF Answered(log.out, r) THEN 1 ELSE 0)
                         = IF Open /\ http.pending /\ http.current = r THEN 0 ELSE 1
      <3>1. log.aborted[r] = 0
        BY <2>1, <2>3 DEF Tells
      <3>2. Asks(r) => (Answered(log.out, r) <=> ~(http.pending /\ http.current = r))
        BY <2>1 DEF Answers
      <3>3. CASE http.pending /\ http.current = r
        BY <1>1, <3>1, <3>2, <3>3
      <3>4. CASE ~(http.pending /\ http.current = r)
        BY <1>1, <3>1, <3>2, <3>4
      <3> QED
        BY <3>3, <3>4
    <2> QED
      BY <2>2, <2>4 DEF AnsweredOrAborted
  <1>2. CASE ~Open
    <2>1. Heard(Conn) /\ SeenOf(Conn) = Told /\ Conn.log = log
      BY <1>2, InvParts DEF Over, SeenOf, Told
    <2> QED
      BY <1>2, <2>1 DEF Heard, AnsweredOrAborted
  <1> QED
    BY <1>1, <1>2

(* When the timeout is armed.                                              *)
LEMMA TimeoutInv == HttpInv => IdleHasTimeout
  <1> SUFFICES ASSUME HttpInv, Open PROVE IdleHasTimeout
    BY DEF IdleHasTimeout, Between
  <1>1. Times(Conn) /\ Conn.http = http
    BY InvParts DEF Ready
  <1>2. Told = 1..http.current
    BY ToldIs
  <1> QED
    BY <1>1, <1>2 DEF Times, IdleHasTimeout

(* Nothing of the stream is left: every request was handled, and no body   *)
(* is being read.                                                          *)
LEMMA NothingLeft ==
    ASSUME HttpInv, Open, stage = "idle", sending = <<>>, \A r \in DOMAIN requests : requests[r].sound
    PROVE  http.streaming = 0 /\ http.current = Count
  <1> DEFINE f == http.fallback
             q == http.current
  <1>1. /\ requests \in Seq(Request) /\ Parses(http, chunk, sending, stage) /\ f \in Seq(Bytes)
        /\ q \in 0..Count /\ http.streaming \in Nat
    BY OpenInv DEF HttpTypes
  <1>2. chunk = <<>>
    BY <1>1 DEF Parses
  <1>3. f \o chunk \o sending = f
    <2> HIDE DEF f
    <2> QED
      BY <1>1, <1>2, ConcatNothing
  <1>4. Stream(f, q, http.streaming)
    BY <1>1, <1>3 DEF Parses
  <1>5. http.streaming = 0
    <2>1. CASE f # <<>>
      BY <1>1, <2>1 DEF Parses, Keeps
    <2>2. CASE f = <<>>
      BY <1>1, <1>4, <2>2 DEF Stream, Begins
    <2> QED
      BY <2>1, <2>2
  <1>6. Count \in Nat
    BY <1>1 DEF Count
  <1>7. ASSUME q # Count PROVE FALSE
    <2>1. q \in 0..(Count - 1)
      BY <1>1, <1>6, <1>7
    <2>2. Stream(f, q, 0)
      BY <1>4, <1>5
    <2> DEFINE r == q + 1
    <2>3. /\ r \in DOMAIN requests /\ f # <<>> /\ Len(f) >= requests[r].head + Size(r)
      <3> HIDE DEF f, q
      <3> QED
        BY <1>1, <2>1, <2>2, HeadNext
    <2>4. GetHeaders(f) = 0
      BY <1>1, <2>3 DEF Parses
    <2>5. GetHeaders(f) = IF requests[r].sound /\ requests[r].head <= Len(f) THEN requests[r].head ELSE 0
      <3> DEFINE none == <<>>
      <3>1. f \o none = f /\ none \in Seq(Bytes)
        <4> HIDE DEF f
        <4> QED
          BY <1>1, ConcatNothing
      <3> HIDE DEF f, none, q
      <3>2. Stream(f \o none, q, 0)
        BY <2>2, <3>1
      <3> QED
        BY <1>1, <2>3, <3>1, <3>2, HeadersIs DEF r
    <2>6. requests[r].head \in Nat /\ requests[r].head >= 1 /\ Size(r) \in Nat /\ Len(f) \in Nat
      BY <1>1, <2>3, RequestType
    <2>7. requests[r].sound
      BY <2>3
    <2> HIDE DEF f, r
    <2>8. requests[r].head <= Len(f)
      BY <2>3, <2>6
    <2> QED
      BY <2>4, <2>5, <2>6, <2>7, <2>8
  <1> QED
    BY <1>5, <1>7

(* What the readers were given.                                            *)
LEMMA BodiesInv == HttpInv => BodiesWhole
  <1> SUFFICES ASSUME HttpInv, ~EmptyBodyRead
               PROVE  /\ log.seen = [i \in 1..Len(log.seen) |-> i]
                      /\ BodyParts(Conn)
                      /\ (Between /\ sending = <<>> /\ \A r \in DOMAIN requests : requests[r].sound) =>
                            /\ Len(log.seen) = Len(requests)
                            /\ \A r \in DOMAIN requests : Does(r) \in {"read", "early"} => log.fins[r] = 1
    <2>1. Conn.log = log
      BY DEF Conn
    <2> QED
      BY <2>1 DEF BodiesWhole, BodyParts
  <1>1. CASE ~Open
    <2>1. Over(Conn) /\ BodyParts(Conn) /\ Conn.log = log
      BY <1>1, InvParts
    <2> QED
      BY <1>1, <2>1 DEF Over, Between
  <1>2. CASE Open
    <2> DEFINE q == http.current
               k == Whole(q) - http.streaming
               fin == http.streaming = 0
    <2>1. /\ requests \in Seq(Request) /\ Conn \in Conns /\ Tells(Conn) /\ Conn.http = http /\ Conn.log = log
          /\ http.streaming \in Nat /\ Whole(q) \in Nat /\ Parses(http, chunk, sending, stage)
          /\ Bodies(Conn, k, fin)
      BY <1>2, OpenInv DEF HttpTypes, Ready
    <2>2. Len(log.seen) = q /\ q \in Nat
      BY <1>2, ToldIs
    <2>3. log.seen = [i \in 1..Len(log.seen) |-> i]
      BY <2>1, <2>2 DEF Tells
    <2>4. BodyParts(Conn)
      <3>1. k \in 0..Whole(Conn.http.current) /\ (fin => k = Whole(Conn.http.current))
        BY <2>1 DEF Parses
      <3> HIDE DEF k, fin
      <3> QED
        BY <2>1, <3>1, BodiesParts
    <2>5. ASSUME Between, sending = <<>>, \A r \in DOMAIN requests : requests[r].sound
          PROVE  /\ Len(log.seen) = Len(requests)
                 /\ \A r \in DOMAIN requests : Does(r) \in {"read", "early"} => log.fins[r] = 1
      <3>1. http.streaming = 0 /\ q = Count
        BY <1>2, <2>5, NothingLeft DEF Between
      <3>2. ASSUME NEW r \in DOMAIN requests, Reads(r) PROVE log.fins[r] = 1
        <4>1. r \in Nat /\ r <= q
          BY <2>1, <3>1, RequestType
        <4>2. ~(r > q \/ ~Reads(r))
          BY <2>2, <3>2, <4>1
        <4>3. fin
          BY <3>1
        <4> QED
          BY <2>1, <3>2, <4>2, <4>3 DEF Bodies
      <3> QED
        BY <2>2, <3>1, <3>2 DEF Reads, Count
    <2> QED
      BY <2>3, <2>4, <2>5
  <1> QED
    BY <1>1, <1>2

(* However the stream is cut into chunks, requests are handled in order,   *)
(* once each; a reader is given its own body, whole, in order and with one *)
(* end; and when everything has arrived nothing is stuck in the parser     *)
(* (HttpParser::consumePostPadded and fenceAndConsumePostPadded).          *)
THEOREM HttpBodiesWhole == HttpSpec => []BodiesWhole
  BY HttpAlways, BodiesInv, PTL

(* A handler that waits hears of its request exactly once: it has answered *)
(* or it is told of the abort, never both (markDone, on_close).            *)
THEOREM HttpAnsweredOrAborted == HttpSpec => []AnsweredOrAborted
  BY HttpAlways, AbortedInv, PTL

(* Answers are well formed, carry their bytes once and in order, and do    *)
(* not mix (HttpResponse::write, end and tryEnd).                          *)
THEOREM HttpAnswersWhole == HttpSpec => []AnswersWhole
  BY HttpAlways, AnswersInv, PTL

(* A connection that waits for the peer has its timeout armed              *)
(* (HTTP_IDLE_TIMEOUT_S in HttpContext and HttpResponse).                  *)
THEOREM HttpIdleHasTimeout == HttpSpec => []IdleHasTimeout
  BY HttpAlways, TimeoutInv, PTL

(* The parser keeps no more of a head than its fallback has room for, and  *)
(* nothing while it reads a body (MAX_FALLBACK_SIZE).                      *)
THEOREM HttpFallbackBounded == HttpSpec => []FallbackBounded
  BY HttpAlways, FallbackInv, PTL

=============================================================================
