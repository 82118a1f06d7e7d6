---------------------------- MODULE StreamProofs ----------------------------
(***************************************************************************)
(* Theorems about the bytes that reach the peers, as long as the sends of  *)
(* the front thread do not overlap callbacks: for every set of sockets and *)
(* every size that lets a frame fit into the cork buffer.                  *)
(***************************************************************************)
EXTENDS WebSocketsProofs

-----------------------------------------------------------------------------
(* Sequences of bytes.                                                     *)

\* The two parts of a sequence make it up.
LEMMA PartsMakeUp ==
  ASSUME NEW S, NEW b \in Seq(S), NEW k \in 0..Len(b)
  PROVE  /\ SubSeq(b, 1, k) \o SubSeq(b, k + 1, Len(b)) = b
         /\ Len(SubSeq(b, k + 1, Len(b))) <= Len(b)
<1>1. Len(b) \in Nat /\ 1 \in 1..(Len(b) + 1) /\ k \in (1 - 1)..Len(b) /\ Len(b) \in k..Len(b)
  OBVIOUS
<1>2. SubSeq(b, 1, k) \o SubSeq(b, k + 1, Len(b)) = SubSeq(b, 1, Len(b))
  BY <1>1, ConcatAdjacentSubSeq
<1>3. SubSeq(b, 1, Len(b)) = b
  BY SubSeqFull
<1>4. Len(SubSeq(b, k + 1, Len(b))) <= Len(b)
  <2>1. k + 1 \in Int /\ Len(b) \in Int /\ \A i \in (k + 1)..Len(b) : b[i] \in S
    BY <1>1
  <2>2. Len(SubSeq(b, k + 1, Len(b))) = IF k + 1 <= Len(b) THEN Len(b) - (k + 1) + 1 ELSE 0
    BY <2>1, SubSeqProperties
  <2> QED BY <1>1, <2>2
<1> QED BY <1>2, <1>3, <1>4

\* Concatenation of bytes is associative.
LEMMA Associates ==
  ASSUME NEW p \in Seq(Byte), NEW q \in Seq(Byte), NEW r \in Seq(Byte)
  PROVE  (p \o q) \o r = p \o (q \o r)
OBVIOUS

-----------------------------------------------------------------------------
(* What the write path does to the bytes of the socket it is called for.   *)

\* The bytes of a socket that left the cork buffer.
Out(n, s) == n.wire[s] \o n.buffer[s]

\* From n to m nothing happened to the bytes of sockets other than s.
Elsewhere(n, m, s) ==
    /\ m \in Net
    /\ m.closed = n.closed
    /\ m.shut = n.shut
    /\ \A t \in Sockets \ {s} : m.wire[t] = n.wire[t] /\ m.buffer[t] = n.buffer[t]

\* The same for the cork buffer.
CorkAlone(n, m) == m.cork = n.cork /\ m.corked = n.corked

\* One call after the other.
LEMMA ElsewhereTwice ==
  ASSUME NEW n, NEW m, NEW o, NEW s, Elsewhere(n, m, s), Elsewhere(m, o, s)
  PROVE  Elsewhere(n, o, s)
BY DEF Elsewhere

\* The kernel takes the beginning of the bytes, and the rest remains.
LEMMA SysWriteFlow ==
  ASSUME NEW n \in Net, NEW s \in Sockets, NEW b \in Seq(Byte)
  PROVE  /\ Elsewhere(n, SysWrite(n, s, b), s)
         /\ CorkAlone(n, SysWrite(n, s, b))
         /\ SysWrite(n, s, b).buffer = n.buffer
         /\ Remaining(n, s, b) \in Seq(Byte)
         /\ Len(Remaining(n, s, b)) <= Len(b)
         /\ SysWrite(n, s, b).wire[s] \o Remaining(n, s, b) = n.wire[s] \o b
<1> DEFINE k == Taken(n, s, b)
           m == SysWrite(n, s, b)
           r == Remaining(n, s, b)
           x == SubSeq(b, 1, k)
<1>1. k \in 0..Len(b)
  BY TakenType
<1>2. x \in Seq(Byte) /\ r \in Seq(Byte) /\ x \o r = b /\ Len(r) <= Len(b)
  <2> HIDE DEF k
  <2>1. r = SubSeq(b, k + 1, Len(b))
    BY DEF Remaining, k
  <2>2. SubSeq(b, 1, k) \in Seq(Byte) /\ SubSeq(b, k + 1, Len(b)) \in Seq(Byte)
    BY <1>1, Parts
  <2>3. /\ SubSeq(b, 1, k) \o SubSeq(b, k + 1, Len(b)) = b
        /\ Len(SubSeq(b, k + 1, Len(b))) <= Len(b)
    BY <1>1, PartsMakeUp
  <2> QED BY <2>1, <2>2, <2>3
<1>3. /\ m \in Net
      /\ m.buffer = n.buffer
      /\ m.cork = n.cork
      /\ m.corked = n.corked
      /\ Touched(n, m, s)
  BY SysWriteNet
<1>4. m.wire = [n.wire EXCEPT ![s] = @ \o x]
  BY DEF SysWrite, Net
<1> HIDE DEF m, r, x
<1>5. n.wire \in [Sockets -> Seq(Byte)]
  BY DEF Net
<1>6. m.wire[s] = n.wire[s] \o x /\ \A t \in Sockets \ {s} : m.wire[t] = n.wire[t]
  BY <1>4, <1>5
<1>7. m.wire[s] \o r = n.wire[s] \o b
  <2>1. n.wire[s] \in Seq(Byte)
    BY <1>5
  <2>2. (n.wire[s] \o x) \o r = n.wire[s] \o (x \o r)
    BY <1>2, <2>1, Associates
  <2> QED BY <1>2, <1>6, <2>2
<1>8. Elsewhere(n, m, s)
  BY <1>3, <1>6 DEF Touched, Elsewhere
<1> QED BY <1>2, <1>3, <1>7, <1>8 DEF m, r, CorkAlone

\* A buffer is replaced, and nothing else.
LEMMA BufferFlow ==
  ASSUME NEW n \in Net, NEW s \in Sockets, NEW b \in Seq(Byte)
  PROVE  LET m == [n EXCEPT !.buffer[s] = b]
         IN  Elsewhere(n, m, s) /\ CorkAlone(n, m) /\ m.wire = n.wire /\ m.buffer[s] = b
BY DEF Net, Elsewhere, CorkAlone

\* Draining moves bytes from the buffer to the wire.
LEMMA DrainFlow ==
  ASSUME NEW n \in Net, NEW s \in Sockets
  PROVE  /\ Elsewhere(n, Drain(n, s), s)
         /\ CorkAlone(n, Drain(n, s))
         /\ Out(Drain(n, s), s) = Out(n, s)
         /\ Len(Drain(n, s).buffer[s]) <= Len(n.buffer[s])
<1> DEFINE b == n.buffer[s]
           m == SysWrite(n, s, b)
           r == Remaining(n, s, b)
           d == [m EXCEPT !.buffer[s] = r]
<1>1. b \in Seq(Byte)
  BY DEF Net
<1>2. /\ Elsewhere(n, m, s)
      /\ CorkAlone(n, m)
      /\ r \in Seq(Byte)
      /\ Len(r) <= Len(b)
      /\ m.wire[s] \o r = n.wire[s] \o b
  <2> HIDE DEF b
  <2> QED BY <1>1, SysWriteFlow
<1>3. Drain(n, s) = d
  BY DEF Drain
<1>4. m \in Net
  BY <1>2 DEF Elsewhere
<1> HIDE DEF b, m, r
<1>5. Elsewhere(m, d, s) /\ CorkAlone(m, d) /\ d.wire = m.wire /\ d.buffer[s] = r
  BY <1>2, <1>4, BufferFlow
<1> HIDE DEF d
<1>6. Elsewhere(n, d, s)
  BY <1>2, <1>5, ElsewhereTwice
<1>7. Out(d, s) = Out(n, s) /\ Len(d.buffer[s]) <= Len(n.buffer[s]) /\ CorkAlone(n, d)
  BY <1>2, <1>5 DEF Out, CorkAlone, b
<1> QED BY <1>3, <1>6, <1>7

\* Past an empty buffer all of src follows what went before.
LEMMA WriteThroughFlow ==
  ASSUME NEW n \in Net, NEW s \in Sockets, NEW src \in Seq(Byte), n.buffer[s] = <<>>
  PROVE  LET w == WriteThrough(n, s, src)
         IN  /\ Elsewhere(n, w.net, s)
             /\ CorkAlone(n, w.net)
             /\ Out(w.net, s) = Out(n, s) \o src
             /\ Len(w.net.buffer[s]) <= Len(src)
             /\ ~w.failed => w.net.buffer[s] = <<>>
<1> DEFINE m == SysWrite(n, s, src)
           r == Remaining(n, s, src)
           w == WriteThrough(n, s, src)
<1>1. /\ Elsewhere(n, m, s)
      /\ CorkAlone(n, m)
      /\ m.buffer = n.buffer
      /\ r \in Seq(Byte)
      /\ Len(r) <= Len(src)
      /\ m.wire[s] \o r = n.wire[s] \o src
  BY SysWriteFlow
<1>2. m \in Net /\ m.wire[s] \in Seq(Byte) /\ n.wire[s] \in Seq(Byte)
  BY <1>1 DEF Elsewhere, Net
<1>3. Out(n, s) \o src = n.wire[s] \o src
  BY <1>2, ConcatEmptySeq DEF Out
<1>4. CASE r = <<>>
  <2>1. w = [net |-> m, failed |-> FALSE]
    BY <1>4 DEF WriteThrough, Done
  <2> HIDE DEF m, r, w
  <2>2. m.buffer[s] = <<>> /\ Len(src) \in Nat /\ Len(<<>>) = 0
    BY <1>1
  <2>3. Out(m, s) = Out(n, s) \o src
    BY <1>1, <1>3, <1>4, <2>2 DEF Out
  <2> QED BY <1>1, <2>1, <2>2, <2>3 DEF w
<1>5. CASE r # <<>>
  <2> DEFINE b == m.buffer[s] \o r
             d == [m EXCEPT !.buffer[s] = b]
  <2>1. w = [net |-> d, failed |-> TRUE]
    BY <1>5 DEF WriteThrough, Failed
  <2> HIDE DEF m, r, w
  <2>2. b = r
    BY <1>1, ConcatEmptySeq
  <2>3. b \in Seq(Byte)
    BY <1>1, <2>2
  <2> HIDE DEF b
  <2>4. Elsewhere(m, d, s) /\ CorkAlone(m, d) /\ d.wire = m.wire /\ d.buffer[s] = b
    BY <1>2, <2>3, BufferFlow
  <2> HIDE DEF d
  <2>5. Elsewhere(n, d, s) /\ CorkAlone(n, d)
    BY <1>1, <2>4, ElsewhereTwice DEF CorkAlone
  <2>6. Out(d, s) = Out(n, s) \o src
    BY <1>1, <1>3, <2>2, <2>4 DEF Out
  <2> QED BY <1>1, <2>1, <2>2, <2>4, <2>5, <2>6 DEF w
<1> QED BY <1>4, <1>5


\* A write that is not corked puts all of src behind what went before.
LEMMA WriteUncorkedFlow ==
  ASSUME NEW n \in Net, NEW s \in Sockets \ n.closed, NEW src \in Seq(Byte)
  PROVE  LET w == WriteUncorked(n, s, src)
         IN  /\ Elsewhere(n, w.net, s)
             /\ CorkAlone(n, w.net)
             /\ Out(w.net, s) = Out(n, s) \o src
             /\ Len(w.net.buffer[s]) <= Len(n.buffer[s]) + Len(src)
             /\ ~w.failed => w.net.buffer[s] = <<>>
<1> DEFINE d == Drain(n, s)
           w == WriteUncorked(n, s, src)
<1>1. /\ Elsewhere(n, d, s)
      /\ CorkAlone(n, d)
      /\ Out(d, s) = Out(n, s)
      /\ Len(d.buffer[s]) <= Len(n.buffer[s])
  BY DrainFlow
<1>2. /\ d \in Net
      /\ d.wire[s] \in Seq(Byte) /\ d.buffer[s] \in Seq(Byte)
      /\ n.buffer[s] \in Seq(Byte)
  BY <1>1 DEF Elsewhere, Net
<1>3. CASE d.buffer[s] # <<>>
  <2> DEFINE b == d.buffer[s] \o src
             e == [d EXCEPT !.buffer[s] = b]
  <2>1. w = [net |-> e, failed |-> TRUE]
    BY <1>3 DEF WriteUncorked, Failed
  <2> HIDE DEF d, w
  <2>2. /\ b \in Seq(Byte)
        /\ Len(b) <= Len(n.buffer[s]) + Len(src)
        /\ d.wire[s] \o b = Out(d, s) \o src
    <3>1. d.wire[s] \in Seq(Byte) /\ d.buffer[s] \in Seq(Byte) /\ n.buffer[s] \in Seq(Byte)
      BY <1>2 DEF d
    <3>2. Len(d.buffer[s]) <= Len(n.buffer[s])
      BY <1>1 DEF d
    <3> DEFINE x == d.buffer[s]
               y == d.wire[s]
               z == n.buffer[s]
    <3> HIDE DEF x, y, z
    <3>3. x \in Seq(Byte) /\ y \in Seq(Byte) /\ z \in Seq(Byte) /\ Len(x) <= Len(z)
      BY <3>1, <3>2 DEF x, y, z
    <3>4. x \o src \in Seq(Byte) /\ Len(x \o src) = Len(x) + Len(src)
      BY <3>3
    <3>5. Len(x) \in Nat /\ Len(z) \in Nat /\ Len(src) \in Nat
      BY <3>3
    <3>6. Len(x \o src) <= Len(z) + Len(src)
      BY <3>3, <3>4, <3>5
    <3>7. y \o (x \o src) = (y \o x) \o src
      BY <3>3, Associates
    <3> QED BY <3>4, <3>6, <3>7 DEF Out, x, y, z
  <2> HIDE DEF b
  <2>3. Elsewhere(d, e, s) /\ CorkAlone(d, e) /\ e.wire = d.wire /\ e.buffer[s] = b
    BY <1>2, <2>2, BufferFlow
  <2> HIDE DEF e
  <2>4. Elsewhere(n, e, s) /\ CorkAlone(n, e)
    BY <1>1, <2>3, ElsewhereTwice DEF CorkAlone
  <2>5. Out(e, s) = Out(n, s) \o src
    BY <1>1, <2>2, <2>3 DEF Out
  <2> QED BY <2>1, <2>2, <2>3, <2>4, <2>5 DEF w
<1>4. CASE d.buffer[s] = <<>>
  <2> DEFINE v == WriteThrough(d, s, src)
  <2>1. w = v
    BY <1>4 DEF WriteUncorked
  <2> HIDE DEF d, w
  <2>2. /\ Elsewhere(d, v.net, s)
        /\ CorkAlone(d, v.net)
        /\ Out(v.net, s) = Out(d, s) \o src
        /\ Len(v.net.buffer[s]) <= Len(src)
        /\ ~v.failed => v.net.buffer[s] = <<>>
    BY <1>2, <1>4, WriteThroughFlow
  <2> HIDE DEF v
  <2>3. Elsewhere(n, v.net, s) /\ CorkAlone(n, v.net)
    BY <1>1, <2>2, ElsewhereTwice DEF CorkAlone
  <2>4. v.net.buffer[s] \in Seq(Byte)
    BY <2>2 DEF Elsewhere, Net
  <2>5. Len(v.net.buffer[s]) <= Len(n.buffer[s]) + Len(src)
    BY <1>2, <2>2, <2>4
  <2> QED BY <1>1, <2>1, <2>2, <2>3, <2>5 DEF w
<1> QED BY <1>3, <1>4

\* On a closed socket nothing is written.
LEMMA WriteUncorkedClosed ==
  ASSUME NEW n, NEW s, s \in n.closed, NEW src
  PROVE  WriteUncorked(n, s, src) = [net |-> n, failed |-> FALSE]
BY DEF WriteUncorked, Done

-----------------------------------------------------------------------------
(* The ways src can take in a call that takes the connection's state from  *)
(* n to m.                                                                 *)

\* Past the cork buffer.
Direct(n, m, s, src) ==
    /\ CorkAlone(n, m)
    /\ Out(m, s) = Out(n, s) \o src
    /\ Len(m.buffer[s]) <= Len(n.buffer[s]) + Len(src)

\* To the cork buffer.
IntoCork(n, m, s, src) ==
    /\ n.corked = s
    /\ m.corked = s
    /\ m.cork = n.cork \o src
    /\ Len(m.cork) <= CorkSize
    /\ Out(m, s) = Out(n, s)
    /\ Len(m.buffer[s]) <= Len(n.buffer[s])

\* Behind the flushed cork buffer, unless flushing fails.
Flushed(n, m, s, src, failed) ==
    /\ n.corked = s
    /\ m.corked = NoSocket
    /\ m.cork = <<>>
    /\ \/ Out(m, s) = (Out(n, s) \o n.cork) \o src
       \/ failed /\ Out(m, s) = Out(n, s) \o n.cork
    /\ Len(m.buffer[s]) <= Len(n.buffer[s]) + Len(n.cork) + Len(src)

\* The cork buffer is given to another socket.
LEMMA CorkedFlow ==
  ASSUME NEW n \in Net, NEW s, NEW c \in Sockets \cup {NoSocket}
  PROVE  LET m == [n EXCEPT !.corked = c]
         IN  /\ Elsewhere(n, m, s)
             /\ m.corked = c /\ m.cork = n.cork
             /\ m.wire = n.wire /\ m.buffer = n.buffer
BY DEF Net, Elsewhere

\* It is filled or emptied.
LEMMA CorkFlow ==
  ASSUME NEW n \in Net, NEW s, NEW b \in Seq(Byte)
  PROVE  LET m == [n EXCEPT !.cork = b]
         IN  /\ Elsewhere(n, m, s)
             /\ m.corked = n.corked /\ m.cork = b
             /\ m.wire = n.wire /\ m.buffer = n.buffer
BY DEF Net, Elsewhere

\* Lengths that grow in two steps.
LEMMA TwoSteps ==
  ASSUME NEW x \in Nat, NEW y \in Nat, NEW z \in Nat, NEW k \in Nat, NEW l \in Nat,
         y <= x + k
  PROVE  y <= x + k + l /\ (z <= y + l => z <= x + k + l)
OBVIOUS

\* The same with a step that does not grow.
LEMMA ThreeLengths ==
  ASSUME NEW x \in Nat, NEW y \in Nat, NEW z \in Nat, NEW k \in Nat, NEW l \in Nat,
         y <= x
  PROVE  /\ z <= y + k + l => z <= x + k + l
         /\ l = 0 /\ z <= y + k + l => z <= x + k
OBVIOUS

\* uncork flushes the cork buffer of the socket.
LEMMA UncorkFlow ==
  ASSUME NEW n \in Net, NEW s \in Sockets \ n.closed, NEW src \in Seq(Byte), n.corked = s
  PROVE  LET u == Uncork(n, s, src)
         IN  Elsewhere(n, u.net, s) /\ Flushed(n, u.net, s, src, u.failed)
<1> DEFINE m == [n EXCEPT !.corked = NoSocket]
           f == WriteUncorked(m, s, n.cork)
           g == f.net
           e == [g EXCEPT !.cork = <<>>]
           w == WriteUncorked(e, s, src)
           u == Uncork(n, s, src)
<1>1. n.cork \in Seq(Byte) /\ <<>> \in Seq(Byte) /\ NoSocket \in Sockets \cup {NoSocket}
  BY DEF Net
<1>2. /\ Elsewhere(n, m, s) /\ m.cork = n.cork /\ m.corked = NoSocket
      /\ m.wire = n.wire /\ m.buffer = n.buffer
  BY <1>1, CorkedFlow
<1>3. /\ m \in Net
      /\ s \notin m.closed
      /\ Out(m, s) = Out(n, s)
      /\ m.buffer[s] = n.buffer[s]
  BY <1>2 DEF Elsewhere, Out
<1> HIDE DEF m
<1>4. /\ Elsewhere(m, g, s)
      /\ CorkAlone(m, g)
      /\ Out(g, s) = Out(m, s) \o n.cork
      /\ Len(g.buffer[s]) <= Len(m.buffer[s]) + Len(n.cork)
      /\ ~f.failed => g.buffer[s] = <<>>
  BY <1>1, <1>3, WriteUncorkedFlow
<1> HIDE DEF g, f
<1>5. g \in Net
  BY <1>4 DEF Elsewhere
<1>6. /\ Elsewhere(g, e, s) /\ e.cork = <<>> /\ e.corked = g.corked
      /\ e.wire = g.wire /\ e.buffer = g.buffer
  BY <1>1, <1>5, CorkFlow
<1>7. /\ e \in Net
      /\ s \notin e.closed
      /\ Out(e, s) = Out(n, s) \o n.cork
      /\ e.corked = NoSocket
      /\ Len(e.buffer[s]) <= Len(n.buffer[s]) + Len(n.cork)
  BY <1>2, <1>3, <1>4, <1>6 DEF Elsewhere, Out, CorkAlone
<1>8. Elsewhere(n, e, s)
  BY <1>2, <1>4, <1>6, ElsewhereTwice
<1>9. u = IF n.cork # <<>> /\ f.failed THEN [net |-> e, failed |-> TRUE] ELSE w
  BY DEF Uncork, Failed, m, g, f
<1> HIDE DEF e
<1>10. /\ Elsewhere(e, w.net, s)
       /\ CorkAlone(e, w.net)
       /\ Out(w.net, s) = Out(e, s) \o src
       /\ Len(w.net.buffer[s]) <= Len(e.buffer[s]) + Len(src)
  <2>1. s \in Sockets \ e.closed
    BY <1>7
  <2> QED BY <1>7, <2>1, WriteUncorkedFlow
<1>11. Elsewhere(n, w.net, s)
  BY <1>8, <1>10, ElsewhereTwice
<1>12. /\ Len(e.buffer[s]) \in Nat
       /\ Len(n.buffer[s]) \in Nat
       /\ Len(w.net.buffer[s]) \in Nat
       /\ Len(n.cork) \in Nat
       /\ Len(src) \in Nat
  <2>1. e.buffer[s] \in Seq(Byte) /\ n.buffer[s] \in Seq(Byte) /\ w.net.buffer[s] \in Seq(Byte)
    BY <1>7, <1>10 DEF Elsewhere, Net
  <2> QED BY <1>1, <2>1
<1> HIDE DEF w, u
<1>13. CASE n.cork # <<>> /\ f.failed
  <2>1. u.net = e /\ u.failed
    BY <1>9, <1>13
  <2>2. Len(e.buffer[s]) <= Len(n.buffer[s]) + Len(n.cork) + Len(src)
    BY <1>7, <1>12, TwoSteps
  <2>3. Flushed(n, u.net, s, src, u.failed)
    BY <1>6, <1>7, <2>1, <2>2 DEF Flushed
  <2> QED BY <1>8, <2>1, <2>3 DEF u
<1>14. CASE ~(n.cork # <<>> /\ f.failed)
  <2>1. u = w
    BY <1>9, <1>14
  <2>2. Len(w.net.buffer[s]) <= Len(n.buffer[s]) + Len(n.cork) + Len(src)
    BY <1>7, <1>10, <1>12, TwoSteps
  <2>3. Flushed(n, w.net, s, src, w.failed)
    BY <1>6, <1>7, <1>10, <2>2 DEF Flushed, CorkAlone
  <2> QED BY <1>11, <2>1, <2>3 DEF u
<1> QED BY <1>13, <1>14

\* A call takes one of these ways.
Way(n, m, s, src, failed) ==
    /\ Elsewhere(n, m, s)
    /\ Direct(n, m, s, src) \/ IntoCork(n, m, s, src) \/ Flushed(n, m, s, src, failed)

\* So does write; and a socket that is not corked is never corked by it,
\* while one with an empty buffer writes to the cork buffer if src fits.
LEMMA WriteFlow ==
  ASSUME NEW n \in Net, NEW s \in Sockets \ n.closed, NEW src \in Seq(Byte)
  PROVE  LET w == Write(n, s, src)
         IN  /\ Way(n, w.net, s, src, w.failed)
             /\ n.corked # s => Direct(n, w.net, s, src)
             /\ n.corked = s /\ n.buffer[s] = <<>> /\ Len(n.cork) + Len(src) <= CorkSize
                  => IntoCork(n, w.net, s, src) /\ ~w.failed
<1> DEFINE d == Drain(n, s)
           w == Write(n, s, src)
           v == WriteUncorked(n, s, src)
           u == Uncork(d, s, src)
           c == n.cork \o src
           e == [d EXCEPT !.cork = c]
<1>1. /\ Elsewhere(n, d, s)
      /\ CorkAlone(n, d)
      /\ Out(d, s) = Out(n, s)
      /\ Len(d.buffer[s]) <= Len(n.buffer[s])
  BY DrainFlow
<1>2. /\ d \in Net
      /\ s \in Sockets \ d.closed
      /\ n.cork \in Seq(Byte)
      /\ d.buffer[s] \in Seq(Byte)
      /\ n.buffer[s] \in Seq(Byte)
  BY <1>1 DEF Elsewhere, Net
<1>3. n.buffer[s] = <<>> => d.buffer[s] = <<>>
  <2> DEFINE x == d.buffer[s]
             y == n.buffer[s]
  <2>1. x \in Seq(Byte) /\ y \in Seq(Byte) /\ Len(x) <= Len(y)
    BY <1>1, <1>2
  <2> HIDE DEF x, y
  <2>2. y = <<>> => Len(y) = 0
    OBVIOUS
  <2>3. Len(x) <= 0 => x = <<>>
    BY <2>1
  <2> QED BY <2>1, <2>2, <2>3 DEF x, y
<1>4. CASE n.corked # s \/ d.buffer[s] # <<>>
  <2>1. w = v
    BY <1>4 DEF Write
  <2>2. Elsewhere(n, v.net, s) /\ Direct(n, v.net, s, src)
    <3> HIDE DEF v
    <3>1. /\ Elsewhere(n, v.net, s)
          /\ CorkAlone(n, v.net)
          /\ Out(v.net, s) = Out(n, s) \o src
          /\ Len(v.net.buffer[s]) <= Len(n.buffer[s]) + Len(src)
      BY WriteUncorkedFlow DEF v
    <3> QED BY <3>1 DEF Direct
  <2> HIDE DEF w, v, d
  <2>3. Way(n, w.net, s, src, w.failed) /\ Direct(n, w.net, s, src)
    BY <2>1, <2>2 DEF Way
  <2> QED BY <1>3, <1>4, <2>3 DEF w
<1>5. CASE n.corked = s /\ d.buffer[s] = <<>> /\ Len(n.cork) + Len(src) <= CorkSize
  <2>1. w = [net |-> e, failed |-> FALSE]
    BY <1>1, <1>5 DEF Write, Done, CorkAlone
  <2> HIDE DEF d
  <2>2. c \in Seq(Byte) /\ Len(c) = Len(n.cork) + Len(src)
    BY <1>2
  <2> HIDE DEF c
  <2>3. /\ Elsewhere(d, e, s)
        /\ e.corked = d.corked /\ e.cork = c
        /\ e.wire = d.wire /\ e.buffer = d.buffer
    BY <1>2, <2>2, CorkFlow
  <2> HIDE DEF e
  <2>4. Elsewhere(n, e, s)
    BY <1>1, <2>3, ElsewhereTwice
  <2>5. IntoCork(n, e, s, src)
    BY <1>1, <1>5, <2>2, <2>3 DEF IntoCork, CorkAlone, Out, c
  <2>6. w.net = e /\ w.failed = FALSE
    BY <2>1
  <2> HIDE DEF w
  <2>7. Way(n, w.net, s, src, w.failed) /\ IntoCork(n, w.net, s, src) /\ ~w.failed
    BY <2>4, <2>5, <2>6 DEF Way
  <2> QED BY <1>5, <2>7 DEF w
<1>6. CASE n.corked = s /\ d.buffer[s] = <<>> /\ ~(Len(n.cork) + Len(src) <= CorkSize)
  <2>1. w = u
    BY <1>1, <1>2, <1>6 DEF Write, CorkAlone, Elsewhere
  <2>2. d.corked = s /\ d.cork = n.cork
    BY <1>1, <1>6 DEF CorkAlone
  <2> HIDE DEF d
  <2>3. Elsewhere(d, u.net, s) /\ Flushed(d, u.net, s, src, u.failed)
    BY <1>2, <2>2, UncorkFlow
  <2> HIDE DEF u, w
  <2>4. Elsewhere(n, u.net, s)
    BY <1>1, <2>3, ElsewhereTwice
  <2>5. Len(u.net.buffer[s]) <= Len(n.buffer[s]) + Len(n.cork) + Len(src)
    <3>1. u.net.buffer[s] \in Seq(Byte)
      BY <2>4 DEF Elsewhere, Net
    <3>2. /\ Len(d.buffer[s]) \in Nat /\ Len(n.buffer[s]) \in Nat
          /\ Len(n.cork) \in Nat /\ Len(src) \in Nat /\ Len(u.net.buffer[s]) \in Nat
      BY <1>2, <3>1
    <3>3. Len(u.net.buffer[s]) <= Len(d.buffer[s]) + Len(n.cork) + Len(src)
      BY <2>2, <2>3 DEF Flushed
    <3> QED BY <1>1, <3>2, <3>3, ThreeLengths
  <2>6. Flushed(n, u.net, s, src, u.failed)
    BY <1>1, <1>6, <2>2, <2>3, <2>5 DEF Flushed
  <2>7. Way(n, w.net, s, src, w.failed)
    BY <2>1, <2>4, <2>6 DEF Way
  <2> QED BY <1>6, <2>7 DEF w
<1> QED BY <1>4, <1>5, <1>6

\* A frame with room to spare goes straight into the cork buffer.
LEMMA FormatFlow ==
  ASSUME NEW n \in Net, NEW s \in Sockets \ n.closed, NEW frame \in Seq(Byte), n.corked = s
  PROVE  LET w == Format(n, s, frame)
         IN  /\ Way(n, w.net, s, frame, w.failed)
             /\ Len(n.cork) + Len(frame) < CorkSize
                  => IntoCork(n, w.net, s, frame) /\ ~w.failed
<1> DEFINE w == Format(n, s, frame)
           v == Write(n, s, frame)
           c == n.cork \o frame
           e == [n EXCEPT !.cork = c]
<1>1. n.cork \in Seq(Byte)
  BY DEF Net
<1>2. CASE Len(n.cork) + Len(frame) < CorkSize
  <2>1. w.net = e /\ w.failed = FALSE
    BY <1>2 DEF Format, Done
  <2>2. c \in Seq(Byte) /\ Len(c) = Len(n.cork) + Len(frame)
    BY <1>1
  <2>3. Len(c) <= CorkSize
    <3>1. Len(n.cork) \in Nat /\ Len(frame) \in Nat
      BY <1>1
    <3> QED BY <1>2, <2>2, <3>1, SizeAssumption
  <2> HIDE DEF c
  <2>4. /\ Elsewhere(n, e, s)
        /\ e.corked = n.corked /\ e.cork = c
        /\ e.wire = n.wire /\ e.buffer = n.buffer
    BY <2>2, CorkFlow
  <2> HIDE DEF e
  <2>5. n.buffer[s] \in Seq(Byte)
    BY DEF Net
  <2>6. Len(e.buffer[s]) <= Len(n.buffer[s])
    BY <2>4, <2>5
  <2>7. IntoCork(n, e, s, frame)
    BY <2>3, <2>4, <2>6 DEF IntoCork, Out, c
  <2> HIDE DEF w
  <2>8. Way(n, w.net, s, frame, w.failed) /\ IntoCork(n, w.net, s, frame) /\ ~w.failed
    BY <2>1, <2>4, <2>7 DEF Way
  <2> QED BY <2>8 DEF w
<1>3. CASE ~(Len(n.cork) + Len(frame) < CorkSize)
  <2>1. w = v
    BY <1>3 DEF Format
  <2>2. Way(n, v.net, s, frame, v.failed)
    BY WriteFlow
  <2> QED BY <1>3, <2>1, <2>2
<1> QED BY <1>2, <1>3

\* send on the corked socket, or while none is corked: then a frame that
\* fits into the cork buffer is flushed at once.
LEMMA SendFrameFlow ==
  ASSUME NEW n \in Net, NEW s \in Sockets \ n.closed, NEW frame \in Seq(Byte),
         n.corked = s \/ (n.corked = NoSocket /\ n.cork = <<>> /\ Len(frame) < CorkSize)
  PROVE  LET w == SendFrame(n, s, frame)
         IN  /\ Way(n, w.net, s, frame, w.failed)
             /\ n.corked = NoSocket => Direct(n, w.net, s, frame)
             /\ n.corked = s /\ Len(n.cork) + Len(frame) < CorkSize
                  => IntoCork(n, w.net, s, frame)
<1> DEFINE w == SendFrame(n, s, frame)
<1>0. s # NoSocket
  BY NoSocketAssumption
<1>1. CASE n.corked = s
  <2> DEFINE f == Format(n, s, frame)
  <2>1. w = f
    BY <1>0, <1>1 DEF SendFrame
  <2>2. /\ Way(n, f.net, s, frame, f.failed)
        /\ Len(n.cork) + Len(frame) < CorkSize => IntoCork(n, f.net, s, frame)
    BY <1>1, FormatFlow
  <2> QED BY <1>0, <1>1, <2>1, <2>2
<1>2. CASE n.corked = NoSocket /\ n.cork = <<>> /\ Len(frame) < CorkSize
  <2> DEFINE m == Cork(n, s)
             f == Format(m, s, frame)
             g == f.net
             u == Uncork(g, s, <<>>)
  <2>1. /\ Elsewhere(n, m, s)
        /\ m.corked = s /\ m.cork = n.cork
        /\ m.wire = n.wire /\ m.buffer = n.buffer
    BY CorkedFlow DEF Cork
  <2>2. w = IF ~f.failed THEN u ELSE f
    BY <1>2 DEF SendFrame
  <2> HIDE DEF m, w
  <2>3. m \in Net /\ s \in Sockets \ m.closed
    BY <2>1 DEF Elsewhere
  <2>4. Len(m.cork) + Len(frame) < CorkSize
    <3>1. Len(<<>>) = 0 /\ Len(frame) \in Nat
      OBVIOUS
    <3> QED BY <1>2, <2>1, <3>1
  <2>5. Elsewhere(m, g, s) /\ IntoCork(m, g, s, frame) /\ ~f.failed
    BY <2>1, <2>3, <2>4, FormatFlow DEF Way
  <2> HIDE DEF f, g
  <2>6. g \in Net /\ s \in Sockets \ g.closed /\ g.corked = s /\ <<>> \in Seq(Byte)
    BY <2>3, <2>5 DEF Elsewhere, IntoCork
  <2>7. Elsewhere(g, u.net, s) /\ Flushed(g, u.net, s, <<>>, u.failed)
    BY <2>6, UncorkFlow
  <2> HIDE DEF u
  <2>8. w = u
    BY <2>2, <2>5
  <2>9. Elsewhere(n, u.net, s)
    BY <2>1, <2>5, <2>7, ElsewhereTwice
  <2>10. g.cork = frame /\ Out(g, s) = Out(n, s)
    <3>1. <<>> \o frame = frame
      BY ConcatEmptySeq
    <3> QED BY <1>2, <2>1, <2>5, <3>1 DEF IntoCork, Out
  <2>11. Out(u.net, s) = Out(n, s) \o frame
    <3>1. n.wire[s] \in Seq(Byte) /\ n.buffer[s] \in Seq(Byte)
      BY DEF Net
    <3>2. Out(n, s) \in Seq(Byte)
      BY <3>1 DEF Out
    <3>3. Out(n, s) \o frame \in Seq(Byte)
      BY <3>2
    <3>4. (Out(n, s) \o frame) \o <<>> = Out(n, s) \o frame
      BY <3>3, ConcatEmptySeq
    <3> QED BY <2>7, <2>10, <3>4 DEF Flushed
  <2>12. Len(u.net.buffer[s]) <= Len(n.buffer[s]) + Len(frame)
    <3>1. u.net.buffer[s] \in Seq(Byte) /\ n.buffer[s] \in Seq(Byte) /\ g.buffer[s] \in Seq(Byte)
      BY <2>6, <2>9 DEF Elsewhere, Net
    <3>2. /\ Len(u.net.buffer[s]) \in Nat /\ Len(n.buffer[s]) \in Nat
          /\ Len(g.buffer[s]) \in Nat /\ Len(frame) \in Nat /\ Len(<<>>) = 0
      BY <3>1
    <3>3. Len(u.net.buffer[s]) <= Len(g.buffer[s]) + Len(frame) + Len(<<>>)
      BY <2>7, <2>10 DEF Flushed
    <3>4. Len(g.buffer[s]) <= Len(n.buffer[s])
      BY <2>1, <2>5 DEF IntoCork
    <3> QED BY <3>2, <3>3, <3>4, ThreeLengths
  <2>13. CorkAlone(n, u.net)
    BY <1>2, <2>7 DEF Flushed, CorkAlone
  <2>14. Direct(n, u.net, s, frame)
    BY <2>11, <2>12, <2>13 DEF Direct
  <2>15. Way(n, w.net, s, frame, w.failed) /\ Direct(n, w.net, s, frame)
    BY <2>8, <2>9, <2>14 DEF Way
  <2> QED BY <1>0, <1>2, <2>15 DEF w
<1> QED BY <1>1, <1>2

-----------------------------------------------------------------------------
(* The inductive invariants.                                               *)

\* All bytes of a socket, in the order in which the peer is to see them.
Line(n, s) == Out(n, s) \o (IF n.corked = s THEN n.cork ELSE <<>>)

\* Bytes b are whole frames of those in fr, which were sent to s.
Whole(fr, s, b) ==
    \A i \in DOMAIN b :
        /\ b[i][2] \in DOMAIN fr
        /\ Begins(s, b[i]) \/ (i > 1 /\ Joined(s, b[i - 1], b[i]))
        /\ \/ b[i][1] = s /\ b[i][3] = fr[b[i][2]].size
           \/ i < Len(b) /\ Joined(s, b[i], b[i + 1])

\* Frame f has not been lost.
Has(b, s, f) == \E i \in DOMAIN b : b[i] = <<s, f, 1>>

\* What is in the cork buffer and what is not are whole frames, among them
\* all for which send returned true.
Sound(n, fr, s) ==
    /\ Whole(fr, s, Out(n, s))
    /\ n.corked = s => Whole(fr, s, n.cork)
    /\ \A f \in DOMAIN fr : fr[f].ok => Has(Line(n, s), s, f)

\* The buffer of a socket exceeds the limit by one frame while frames that
\* were corked before it are still to be flushed, and then by those, too.
Bounded(n, s) ==
    /\ Len(n.buffer[s]) <= MaxBackpressure + MaxFrame + CorkSize
    /\ n.corked = s /\ n.cork # <<>> => Len(n.buffer[s]) <= MaxBackpressure + MaxFrame

\* Nothing but the socket of the callback is corked, and nothing is left in
\* the cork buffer without it.
CorkOwned ==
    /\ net.corked = NoSocket => net.cork = <<>>
    /\ net.corked # NoSocket => loop.at # "idle" /\ net.corked = loop.s
    /\ Len(net.cork) <= CorkSize

\* Where the threads are between steps.
Resting ==
    /\ sender = SenderIdle
    /\ loop.at = "idle" => loop = LoopIdle
    /\ loop.at = "opening" => loop.s \notin net.closed

\* Nothing is sent before the upgrade.
Fresh == \A s \in Sockets \ upgraded : frames[s] = <<>> /\ net.buffer[s] = <<>>

StreamInv ==
    /\ SocketsInv
    /\ CorkOwned
    /\ Resting
    /\ Fresh
    /\ \A s \in Sockets \ net.closed : Sound(net, frames[s], s)
    /\ MaxBackpressure # 0 => \A s \in Sockets : Bounded(net, s)

\* Frames follow each other as they were sent.
Ordered(s, b) ==
    \A i \in 1..(Len(b) - 1) : Joined(s, b[i], b[i + 1]) \/ b[i][2] < b[i + 1][2]

\* The frames in order, and all of them.
Arranged(n, fr, s) ==
    /\ Ordered(s, Line(n, s))
    /\ \A f \in DOMAIN fr : Has(Line(n, s), s, f)

\* All that the callback under way has sent so far is in the cork buffer.
CorkHolds ==
    /\ loop.at = "opening" =>
         /\ loop.s \notin ending
         /\ net.corked = loop.s /\ Len(net.cork) <= MaxFrame
    /\ loop.at = "data" =>
         net.corked = loop.s /\ Len(net.cork) <= MaxFrame * loop.replies

\* Once the FIN is sent the socket is not written to.
ShutInv == \A s \in net.shut \ net.closed : s \in ending /\ loop.s # s /\ net.buffer[s] = <<>>

OrderInv ==
    /\ StreamInv
    /\ CorkHolds
    /\ ShutInv
    /\ \A s \in Sockets \ net.closed : Arranged(net, frames[s], s)

-----------------------------------------------------------------------------
(* Whole frames.                                                           *)

\* The i-th byte of two sequences put together.
LEMMA ByteOfTwo ==
  ASSUME NEW a \in Seq(Byte), NEW b \in Seq(Byte)
  PROVE  /\ Len(a) \in Nat /\ Len(b) \in Nat
         /\ DOMAIN a = 1..Len(a) /\ DOMAIN b = 1..Len(b)
         /\ DOMAIN (a \o b) = 1..(Len(a) + Len(b))
         /\ Len(a \o b) = Len(a) + Len(b)
         /\ \A i \in 1..Len(a) : (a \o b)[i] = a[i]
         /\ \A i \in 1..Len(b) : (a \o b)[Len(a) + i] = b[i]
OBVIOUS

\* Whole frames behind whole frames are whole frames.
LEMMA WholeConcat ==
  ASSUME NEW fr, NEW s, NEW a \in Seq(Byte), NEW b \in Seq(Byte),
         Whole(fr, s, a), Whole(fr, s, b)
  PROVE  Whole(fr, s, a \o b)
<1> DEFINE c == a \o b
           k == Len(a)
           l == Len(b)
<1>1. /\ k \in Nat /\ l \in Nat
      /\ DOMAIN a = 1..k /\ DOMAIN b = 1..l
      /\ DOMAIN c = 1..(k + l)
      /\ Len(c) = k + l
      /\ \A i \in 1..k : c[i] = a[i]
      /\ \A i \in 1..l : c[k + i] = b[i]
  BY ByteOfTwo
<1> HIDE DEF c
<1>2. ASSUME NEW i \in DOMAIN c
      PROVE  /\ c[i][2] \in DOMAIN fr
             /\ Begins(s, c[i]) \/ (i > 1 /\ Joined(s, c[i - 1], c[i]))
             /\ \/ c[i][1] = s /\ c[i][3] = fr[c[i][2]].size
                \/ i < Len(c) /\ Joined(s, c[i], c[i + 1])
  <2>1. CASE i \in 1..k
    <3>1. /\ a[i][2] \in DOMAIN fr
          /\ Begins(s, a[i]) \/ (i > 1 /\ Joined(s, a[i - 1], a[i]))
          /\ \/ a[i][1] = s /\ a[i][3] = fr[a[i][2]].size
             \/ i < k /\ Joined(s, a[i], a[i + 1])
      BY <1>1, <2>1 DEF Whole
    <3>2. /\ c[i] = a[i]
          /\ i > 1 => c[i - 1] = a[i - 1]
          /\ i < k => c[i + 1] = a[i + 1] /\ i < Len(c)
      BY <1>1, <2>1
    <3> QED BY <3>1, <3>2
  <2>2. CASE i \notin 1..k
    <3> DEFINE j == i - k
    <3>1. j \in 1..l /\ k + j = i /\ (j > 1 => i > 1) /\ (j < l => i < Len(c))
      BY <1>1, <2>2
    <3> HIDE DEF j, k, l
    <3>2. /\ b[j][2] \in DOMAIN fr
          /\ Begins(s, b[j]) \/ (j > 1 /\ Joined(s, b[j - 1], b[j]))
          /\ \/ b[j][1] = s /\ b[j][3] = fr[b[j][2]].size
             \/ j < l /\ Joined(s, b[j], b[j + 1])
      BY <1>1, <3>1 DEF Whole, l
    <3>3. c[i] = b[j]
      BY <1>1, <3>1
    <3>4. j > 1 => c[i - 1] = b[j - 1]
      <4>1. j > 1 => j - 1 \in 1..l /\ k + (j - 1) = i - 1
        BY <1>1, <3>1
      <4> QED BY <1>1, <4>1
    <3>5. j < l => c[i + 1] = b[j + 1]
      <4>1. j < l => j + 1 \in 1..l /\ k + (j + 1) = i + 1
        BY <1>1, <3>1
      <4> QED BY <1>1, <4>1
    <3> QED BY <3>1, <3>2, <3>3, <3>4, <3>5
  <2> QED BY <2>1, <2>2
<1> QED BY <1>2 DEF Whole, c

\* They remain so when another frame is sent.
LEMMA WholeGrows ==
  ASSUME NEW fr \in Seq(Frame), NEW x \in Frame, NEW s, NEW b, Whole(fr, s, b)
  PROVE  Whole(Append(fr, x), s, b)
<1> DEFINE gr == Append(fr, x)
<1>1. \A f \in DOMAIN fr : f \in DOMAIN gr /\ gr[f] = fr[f]
  OBVIOUS
<1> HIDE DEF gr
<1>2. Whole(gr, s, b)
  BY <1>1 DEF Whole
<1> QED BY <1>2 DEF gr

\* The bytes of the next frame of s, as NewFrame has them.
NextFrame(fr, s, size) == [i \in 1..size |-> <<s, Len(fr) + 1, i>>]

\* The next frame is a whole frame, and begins with its first byte.
LEMMA FrameWhole ==
  ASSUME NEW fr \in Seq(Frame), NEW x \in Frame, NEW s \in Sockets
  PROVE  LET b == NextFrame(fr, s, x.size)
         IN  /\ b \in Seq(Byte)
             /\ Len(b) = x.size
             /\ Whole(Append(fr, x), s, b)
             /\ Has(b, s, Len(fr) + 1)
             /\ Ordered(s, b)
             /\ \A i \in DOMAIN b : b[i][2] = Len(fr) + 1
<1> DEFINE k == x.size
           g == Len(fr) + 1
           b == [i \in 1..k |-> <<s, g, i>>]
           gr == Append(fr, x)
<1>1. k \in Nat /\ k >= 1
  BY FrameAssumption DEF Frame
<1>2. g \in Nat /\ g \in DOMAIN gr /\ gr[g] = x
  OBVIOUS
<1> HIDE DEF g, gr
<1>3. \A i \in 1..k : <<s, g, i>> \in Byte
  BY <1>1, <1>2 DEF Byte
<1>4. b \in [1..k -> Byte] /\ DOMAIN b = 1..k /\ \A i \in 1..k : b[i] = <<s, g, i>>
  BY <1>3
<1> HIDE DEF b
<1>5. b \in Seq(Byte) /\ Len(b) = k
  <2> HIDE DEF k
  <2>1. b \in Seq(Byte)
    BY <1>1, <1>4
  <2> QED BY <1>1, <1>4, <2>1
<1>6. \A i \in 1..k : /\ b[i][1] = s /\ b[i][2] = g /\ b[i][3] = i
  BY <1>4
<1>7. \A i \in 1..k : i < k => Joined(s, b[i], b[i + 1])
  <2>1. \A i \in 1..k : i < k => i + 1 \in 1..k
    BY <1>1
  <2> QED BY <1>4, <1>6, <2>1 DEF Joined
<1>8. \A i \in 1..k : i > 1 => Joined(s, b[i - 1], b[i])
  <2>1. ASSUME NEW i \in 1..k, i > 1
        PROVE  Joined(s, b[i - 1], b[i])
    <3>1. i - 1 \in 1..k /\ i - 1 < k /\ (i - 1) + 1 = i
      BY <1>1, <2>1
    <3> QED BY <1>7, <3>1
  <2> QED BY <2>1
<1>9. Whole(gr, s, b)
  <2>1. ASSUME NEW i \in DOMAIN b
        PROVE  /\ b[i][2] \in DOMAIN gr
               /\ Begins(s, b[i]) \/ (i > 1 /\ Joined(s, b[i - 1], b[i]))
               /\ \/ b[i][1] = s /\ b[i][3] = gr[b[i][2]].size
                  \/ i < Len(b) /\ Joined(s, b[i], b[i + 1])
    <3>1. i \in 1..k
      BY <1>4
    <3>2. b[i][2] \in DOMAIN gr
      BY <1>2, <1>6, <3>1
    <3>3. Begins(s, b[i]) \/ (i > 1 /\ Joined(s, b[i - 1], b[i]))
      <4>1. i = 1 \/ i > 1
        <5>1. i \in Nat /\ i >= 1
          BY <1>1, <3>1
        <5> QED BY <5>1
      <4> QED BY <1>6, <1>8, <3>1, <4>1 DEF Begins
    <3>4. \/ b[i][1] = s /\ b[i][3] = gr[b[i][2]].size
          \/ i < Len(b) /\ Joined(s, b[i], b[i + 1])
      <4>1. i = k \/ i < k
        BY <1>1, <3>1
      <4> QED BY <1>2, <1>5, <1>6, <1>7, <3>1, <4>1
    <3> QED BY <3>2, <3>3, <3>4
  <2> QED BY <2>1 DEF Whole
<1>10. Has(b, s, g)
  <2>1. 1 \in 1..k
    BY <1>1
  <2> QED BY <1>4, <2>1 DEF Has
<1>11. Ordered(s, b)
  <2>1. \A i \in 1..(Len(b) - 1) : i \in 1..k /\ i < k
    BY <1>1, <1>5
  <2> QED BY <1>7, <2>1 DEF Ordered
<1>12. NextFrame(fr, s, x.size) = b
  BY DEF NextFrame, b, g
<1> QED BY <1>4, <1>5, <1>6, <1>9, <1>10, <1>11, <1>12 DEF g, gr

\* A frame is not lost by what goes before or behind it.
LEMMA HasConcat ==
  ASSUME NEW a \in Seq(Byte), NEW b \in Seq(Byte), NEW s, NEW f, Has(a, s, f) \/ Has(b, s, f)
  PROVE  Has(a \o b, s, f)
<1> DEFINE c == a \o b
           k == Len(a)
           l == Len(b)
<1>1. /\ k \in Nat /\ l \in Nat
      /\ DOMAIN a = 1..k /\ DOMAIN b = 1..l
      /\ DOMAIN c = 1..(k + l)
      /\ \A i \in 1..k : c[i] = a[i]
      /\ \A i \in 1..l : c[k + i] = b[i]
  BY ByteOfTwo
<1> HIDE DEF c
<1>2. CASE Has(a, s, f)
  <2>1. PICK i \in 1..k : a[i] = <<s, f, 1>>
    BY <1>1, <1>2 DEF Has
  <2>2. i \in DOMAIN c /\ c[i] = <<s, f, 1>>
    BY <1>1, <2>1
  <2> QED BY <2>2 DEF Has, c
<1>3. CASE Has(b, s, f)
  <2>1. PICK i \in 1..l : b[i] = <<s, f, 1>>
    BY <1>1, <1>3 DEF Has
  <2>2. k + i \in DOMAIN c /\ c[k + i] = <<s, f, 1>>
    BY <1>1, <2>1
  <2> QED BY <2>2 DEF Has, c
<1> QED BY <1>2, <1>3

\* The order of frames is kept if a later one follows.
LEMMA OrderedConcat ==
  ASSUME NEW s, NEW a \in Seq(Byte), NEW b \in Seq(Byte), Ordered(s, a), Ordered(s, b),
         \A i \in DOMAIN a, j \in DOMAIN b : a[i][2] < b[j][2]
  PROVE  Ordered(s, a \o b)
<1> DEFINE c == a \o b
           k == Len(a)
           l == Len(b)
<1>1. /\ k \in Nat /\ l \in Nat
      /\ DOMAIN a = 1..k /\ DOMAIN b = 1..l
      /\ Len(c) = k + l
      /\ \A i \in 1..k : c[i] = a[i]
      /\ \A i \in 1..l : c[k + i] = b[i]
  BY ByteOfTwo
<1> HIDE DEF c
<1>2. ASSUME NEW i \in 1..(Len(c) - 1)
      PROVE  Joined(s, c[i], c[i + 1]) \/ c[i][2] < c[i + 1][2]
  <2>1. CASE i < k
    <3>1. i \in 1..k /\ i + 1 \in 1..k /\ i \in 1..(k - 1)
      BY <1>1, <2>1
    <3> QED BY <1>1, <3>1 DEF Ordered
  <2>2. CASE i = k
    <3>1. i \in 1..k /\ 1 \in 1..l /\ i + 1 = k + 1
      BY <1>1, <2>2
    <3> QED BY <1>1, <3>1
  <2>3. CASE i > k
    <3> DEFINE j == i - k
    <3>1. j \in 1..(l - 1) /\ j \in 1..l /\ j + 1 \in 1..l /\ k + j = i /\ k + (j + 1) = i + 1
      BY <1>1, <2>3
    <3>2. c[i] = b[j] /\ c[i + 1] = b[j + 1]
      BY <1>1, <3>1
    <3> QED BY <3>1, <3>2 DEF Ordered
  <2>4. i \in Int /\ k \in Int
    BY <1>1
  <2> QED BY <2>1, <2>2, <2>3, <2>4
<1> QED BY <1>2 DEF Ordered, c

\* A frame lies in one of two sequences if it lies in both together.
LEMMA HasSplit ==
  ASSUME NEW a \in Seq(Byte), NEW b \in Seq(Byte), NEW s, NEW f, Has(a \o b, s, f)
  PROVE  Has(a, s, f) \/ Has(b, s, f)
<1> DEFINE c == a \o b
           k == Len(a)
           l == Len(b)
<1>1. /\ k \in Nat /\ l \in Nat
      /\ DOMAIN a = 1..k /\ DOMAIN b = 1..l
      /\ DOMAIN c = 1..(k + l)
      /\ \A i \in 1..k : c[i] = a[i]
      /\ \A i \in 1..l : c[k + i] = b[i]
  BY ByteOfTwo
<1> HIDE DEF c, k, l
<1>2. PICK i \in 1..(k + l) : c[i] = <<s, f, 1>>
  BY <1>1 DEF Has, c
<1>3. CASE i \in 1..k
  BY <1>1, <1>2, <1>3 DEF Has
<1>4. CASE i \notin 1..k
  <2>1. i - k \in 1..l /\ k + (i - k) = i
    BY <1>1, <1>4
  <2>2. b[i - k] = <<s, f, 1>>
    BY <1>1, <1>2, <2>1
  <2> QED BY <1>1, <2>1, <2>2 DEF Has
<1> QED BY <1>3, <1>4

-----------------------------------------------------------------------------
(* What a write makes of one socket.                                       *)

\* The frames sent after a call that wrote src: one more, or none.
Extends(fr, gr, s, src, failed) ==
    \/ gr = fr /\ src = <<>>
    \/ \E x \in Frame : gr = Append(fr, x) /\ src = NextFrame(fr, s, x.size) /\ (x.ok => ~failed)

\* Either way of a write keeps frames whole and loses none that counts.
LEMMA SoundStep ==
  ASSUME NEW n \in Net, NEW m \in Net, NEW s \in Sockets, NEW fr \in Seq(Frame), NEW gr,
         NEW src \in Seq(Byte), NEW failed \in BOOLEAN,
         Sound(n, fr, s), Extends(fr, gr, s, src, failed),
         Direct(n, m, s, src) \/ IntoCork(n, m, s, src) \/ Flushed(n, m, s, src, failed)
  PROVE  Sound(m, gr, s)
<1> DEFINE o == Out(n, s)
           p == Out(m, s)
           c == n.cork
<1>0. s # NoSocket
  BY NoSocketAssumption
<1> DEFINE Keeps ==
             /\ Whole(gr, s, src)
             /\ \A b : Whole(fr, s, b) => Whole(gr, s, b)
             /\ \A f \in DOMAIN gr : gr[f].ok =>
                  (f \in DOMAIN fr /\ fr[f].ok) \/ (~failed /\ Has(src, s, f))
<1>1. Keeps
  <2>1. CASE gr = fr /\ src = <<>>
    <3>1. Whole(gr, s, <<>>)
      BY DEF Whole
    <3> QED BY <2>1, <3>1
  <2>2. ASSUME NEW x \in Frame, gr = Append(fr, x), src = NextFrame(fr, s, x.size),
               x.ok => ~failed
        PROVE  Keeps
    <3>1. Whole(gr, s, src) /\ Has(src, s, Len(fr) + 1)
      BY <2>2, FrameWhole
    <3>2. \A b : Whole(fr, s, b) => Whole(gr, s, b)
      BY <2>2, WholeGrows
    <3>3. \A f \in DOMAIN gr : (f \in DOMAIN fr /\ gr[f] = fr[f]) \/ (f = Len(fr) + 1 /\ gr[f] = x)
      BY <2>2
    <3> QED BY <2>2, <3>1, <3>2, <3>3
  <2> QED BY <2>1, <2>2 DEF Extends
<1>2. /\ n.wire[s] \in Seq(Byte) /\ n.buffer[s] \in Seq(Byte)
      /\ o \in Seq(Byte) /\ c \in Seq(Byte) /\ <<>> \in Seq(Byte)
  <2>1. n.wire[s] \in Seq(Byte) /\ n.buffer[s] \in Seq(Byte)
    BY DEF Net
  <2>2. o \in Seq(Byte)
    BY <2>1 DEF Out
  <2> QED BY <2>1, <2>2 DEF Net
<1>3. /\ Whole(gr, s, o)
      /\ n.corked = s => Whole(gr, s, c)
      /\ \A f \in DOMAIN fr : fr[f].ok => Has(o, s, f) \/ (n.corked = s /\ Has(c, s, f))
  <2>1. Whole(fr, s, o) /\ (n.corked = s => Whole(fr, s, c))
    BY DEF Sound
  <2>2. ASSUME NEW f \in DOMAIN fr, fr[f].ok
        PROVE  Has(o, s, f) \/ (n.corked = s /\ Has(c, s, f))
    <3>1. Has(Line(n, s), s, f)
      BY <2>2 DEF Sound
    <3>2. CASE n.corked = s
      <4>1. Has(o \o c, s, f)
        BY <3>1, <3>2 DEF Line
      <4> QED BY <1>2, <3>2, <4>1, HasSplit
    <3>3. CASE n.corked # s
      <4>1. Has(o \o <<>>, s, f) /\ o \o <<>> = o
        BY <1>2, <3>1, <3>3, ConcatEmptySeq DEF Line
      <4> QED BY <4>1
    <3> QED BY <3>2, <3>3
  <2> QED BY <1>1, <2>1, <2>2
<1> HIDE DEF o, p, c, Keeps
<1>4. \A f \in DOMAIN gr : gr[f].ok =>
         Has(o, s, f) \/ (n.corked = s /\ Has(c, s, f)) \/ (~failed /\ Has(src, s, f))
  BY <1>1, <1>3 DEF Keeps
<1>5. CASE Direct(n, m, s, src)
  <2>1. p = o \o src /\ m.cork = c /\ m.corked = n.corked
    BY <1>5 DEF Direct, CorkAlone, o, p, c
  <2>2. p \in Seq(Byte) /\ Whole(gr, s, p)
    BY <1>1, <1>2, <1>3, <2>1, WholeConcat DEF Keeps
  <2>3. \A f : Has(o, s, f) \/ Has(src, s, f) => Has(p, s, f)
    BY <1>2, <2>1, HasConcat
  <2> DEFINE d == IF n.corked = s THEN c ELSE <<>>
  <2>4. d \in Seq(Byte) /\ Line(m, s) = p \o d
    BY <1>2, <2>1 DEF Line, p
  <2>5. \A f : Has(p, s, f) \/ Has(d, s, f) => Has(Line(m, s), s, f)
    <3> HIDE DEF d
    <3> QED BY <2>2, <2>4, HasConcat
  <2>6. \A f \in DOMAIN gr : gr[f].ok => Has(Line(m, s), s, f)
    BY <1>4, <2>3, <2>5
  <2>7. m.corked = s => Whole(gr, s, m.cork)
    BY <1>3, <2>1
  <2> QED BY <2>2, <2>6, <2>7 DEF Sound, p
<1>6. CASE IntoCork(n, m, s, src)
  <2> DEFINE d == c \o src
  <2>1. p = o /\ m.cork = d /\ m.corked = s /\ n.corked = s
    BY <1>6 DEF IntoCork, o, p, c
  <2>2. d \in Seq(Byte) /\ Whole(gr, s, d)
    BY <1>1, <1>2, <1>3, <2>1, WholeConcat DEF Keeps
  <2>3. \A f : Has(c, s, f) \/ Has(src, s, f) => Has(d, s, f)
    BY <1>2, HasConcat
  <2> HIDE DEF d
  <2>4. Line(m, s) = o \o d
    BY <2>1 DEF Line, p
  <2>5. \A f : Has(o, s, f) \/ Has(d, s, f) => Has(Line(m, s), s, f)
    BY <1>2, <2>2, <2>4, HasConcat
  <2>6. \A f \in DOMAIN gr : gr[f].ok => Has(Line(m, s), s, f)
    BY <1>4, <2>3, <2>5
  <2> QED BY <1>3, <2>1, <2>2, <2>6 DEF Sound, p
<1>7. CASE Flushed(n, m, s, src, failed)
  <2> DEFINE d == o \o c
  <2>1. /\ n.corked = s
        /\ m.corked = NoSocket
        /\ p = d \o src \/ (failed /\ p = d)
    BY <1>7 DEF Flushed, o, p, c
  <2>2. d \in Seq(Byte) /\ Whole(gr, s, d)
    BY <1>2, <1>3, <2>1, WholeConcat
  <2>3. \A f : Has(o, s, f) \/ Has(c, s, f) => Has(d, s, f)
    BY <1>2, HasConcat
  <2> HIDE DEF d
  <2>4. p \in Seq(Byte) /\ Whole(gr, s, p)
    <3>1. d \o src \in Seq(Byte) /\ Whole(gr, s, d \o src)
      BY <1>1, <2>2, WholeConcat DEF Keeps
    <3> QED BY <2>1, <2>2, <3>1
  <2>5. \A f : Has(d, s, f) \/ (~failed /\ Has(src, s, f)) => Has(p, s, f)
    BY <2>1, <2>2, HasConcat
  <2>6. Line(m, s) = p
    <3>1. Line(m, s) = p \o <<>>
      BY <1>0, <2>1 DEF Line, p
    <3> QED BY <2>4, <3>1, ConcatEmptySeq
  <2>7. \A f \in DOMAIN gr : gr[f].ok => Has(Line(m, s), s, f)
    BY <1>4, <2>3, <2>5, <2>6
  <2> QED BY <1>0, <2>1, <2>4, <2>7 DEF Sound, p
<1> QED BY <1>5, <1>6, <1>7

\* A write to a socket within the limit, or one of nothing, keeps the bound.
LEMMA BoundedStep ==
  ASSUME NEW n \in Net, NEW m \in Net, NEW s \in Sockets, NEW src \in Seq(Byte), NEW failed,
         Len(n.cork) <= CorkSize,
         \/ src = <<>> /\ Bounded(n, s)
         \/ Len(src) <= MaxFrame /\ Len(n.buffer[s]) <= MaxBackpressure,
         Direct(n, m, s, src) \/ IntoCork(n, m, s, src) \/ Flushed(n, m, s, src, failed)
  PROVE  Bounded(m, s)
<1> DEFINE x == Len(n.buffer[s])
           y == Len(m.buffer[s])
           k == Len(n.cork)
           l == Len(src)
<1>1. /\ x \in Nat /\ y \in Nat /\ k \in Nat /\ l \in Nat /\ k <= CorkSize
      /\ MaxBackpressure \in Nat /\ MaxFrame \in Nat /\ CorkSize \in Nat
      /\ src = <<>> => l = 0
      /\ n.cork = <<>> => k = 0
  <2>1. n.buffer[s] \in Seq(Byte) /\ m.buffer[s] \in Seq(Byte) /\ n.cork \in Seq(Byte)
    BY DEF Net
  <2> QED BY <2>1, FrameAssumption, SizeAssumption
<1>2. s # NoSocket
  BY NoSocketAssumption
<1>3. CASE Direct(n, m, s, src)
  <2>1. y <= x + l /\ m.cork = n.cork /\ m.corked = n.corked
    BY <1>3 DEF Direct, CorkAlone
  <2>2. CASE src = <<>> /\ Bounded(n, s)
    <3>1. y <= x
      BY <1>1, <2>1, <2>2
    <3>2. /\ x <= MaxBackpressure + MaxFrame + CorkSize
          /\ n.corked = s /\ n.cork # <<>> => x <= MaxBackpressure + MaxFrame
      BY <2>2 DEF Bounded
    <3> HIDE DEF x, y
    <3>3. /\ y <= MaxBackpressure + MaxFrame + CorkSize
          /\ n.corked = s /\ n.cork # <<>> => y <= MaxBackpressure + MaxFrame
      BY <1>1, <3>1, <3>2
    <3> QED BY <2>1, <3>3 DEF Bounded, y
  <2>3. CASE l <= MaxFrame /\ x <= MaxBackpressure
    <3> HIDE DEF x, y, k, l
    <3>1. y <= MaxBackpressure + MaxFrame + CorkSize /\ y <= MaxBackpressure + MaxFrame
      BY <1>1, <2>1, <2>3
    <3> QED BY <3>1 DEF Bounded, y
  <2> QED BY <2>2, <2>3
<1>4. CASE IntoCork(n, m, s, src)
  <2>1. y <= x /\ m.cork = n.cork \o src /\ m.corked = s /\ n.corked = s
    BY <1>4 DEF IntoCork
  <2>2. CASE src = <<>> /\ Bounded(n, s)
    <3>1. m.cork = n.cork
      <4>1. n.cork \in Seq(Byte)
        BY DEF Net
      <4> QED BY <2>1, <2>2, <4>1, ConcatEmptySeq
    <3>2. /\ x <= MaxBackpressure + MaxFrame + CorkSize
          /\ n.corked = s /\ n.cork # <<>> => x <= MaxBackpressure + MaxFrame
      BY <2>2 DEF Bounded
    <3> HIDE DEF x, y
    <3>3. /\ y <= MaxBackpressure + MaxFrame + CorkSize
          /\ n.corked = s /\ n.cork # <<>> => y <= MaxBackpressure + MaxFrame
      BY <1>1, <2>1, <3>2
    <3> QED BY <2>1, <3>1, <3>3 DEF Bounded, y
  <2>3. CASE l <= MaxFrame /\ x <= MaxBackpressure
    <3> HIDE DEF x, y, k, l
    <3>1. y <= MaxBackpressure + MaxFrame + CorkSize /\ y <= MaxBackpressure + MaxFrame
      BY <1>1, <2>1, <2>3
    <3> QED BY <3>1 DEF Bounded, y
  <2> QED BY <2>2, <2>3
<1>5. CASE Flushed(n, m, s, src, failed)
  <2>1. y <= x + k + l /\ m.corked = NoSocket /\ n.corked = s
    BY <1>5 DEF Flushed
  <2>2. CASE src = <<>> /\ Bounded(n, s)
    <3>1. /\ x <= MaxBackpressure + MaxFrame + CorkSize
          /\ n.cork # <<>> => x <= MaxBackpressure + MaxFrame
          /\ l = 0
      BY <1>1, <2>1, <2>2 DEF Bounded
    <3> HIDE DEF x, y, k, l
    <3>2. n.cork = <<>> => y <= MaxBackpressure + MaxFrame + CorkSize
      BY <1>1, <2>1, <3>1
    <3>3. n.cork # <<>> => y <= MaxBackpressure + MaxFrame + CorkSize
      BY <1>1, <2>1, <3>1
    <3> QED BY <1>2, <2>1, <3>2, <3>3 DEF Bounded, y
  <2>3. CASE l <= MaxFrame /\ x <= MaxBackpressure
    <3> HIDE DEF x, y, k, l
    <3>1. y <= MaxBackpressure + MaxFrame + CorkSize
      BY <1>1, <2>1, <2>3
    <3> QED BY <1>2, <2>1, <3>1 DEF Bounded, y
  <2> QED BY <2>2, <2>3
<1> QED BY <1>3, <1>4, <1>5

\* The cork buffer is empty, or holds bytes of s.
Owned(n, s) ==
    /\ n.corked \in {s, NoSocket}
    /\ n.corked = NoSocket => n.cork = <<>>
    /\ Len(n.cork) <= CorkSize

\* The limit for backpressure allows src.
Allows(n, s, src) ==
    MaxBackpressure # 0 =>
        \/ src = <<>> /\ Bounded(n, s)
        \/ Len(src) <= MaxFrame /\ Len(n.buffer[s]) <= MaxBackpressure

\* A call that writes src to s, and makes n of m and fr of the frames gr.
Call(n, m, s, fr, gr, src, failed) ==
    /\ n \in Net /\ s \in Sockets /\ fr \in Seq(Frame)
    /\ src \in Seq(Byte) /\ failed \in BOOLEAN
    /\ Owned(n, s)
    /\ Sound(n, fr, s)
    /\ Extends(fr, gr, s, src, failed)
    /\ Way(n, m, s, src, failed)
    /\ Allows(n, s, src)

\* All of this together.
LEMMA WayStep ==
  ASSUME NEW n, NEW m, NEW s, NEW fr, NEW gr, NEW src, NEW failed,
         Call(n, m, s, fr, gr, src, failed)
  PROVE  /\ Elsewhere(n, m, s)
         /\ Owned(m, s)
         /\ m.corked \in {n.corked, NoSocket}
         /\ Sound(m, gr, s)
         /\ MaxBackpressure # 0 => Bounded(m, s)
<1>0. /\ n \in Net /\ s \in Sockets /\ fr \in Seq(Frame)
      /\ src \in Seq(Byte) /\ failed \in BOOLEAN
      /\ Owned(n, s)
      /\ Sound(n, fr, s)
      /\ Extends(fr, gr, s, src, failed)
      /\ Way(n, m, s, src, failed)
      /\ Allows(n, s, src)
  BY DEF Call
<1>1. m \in Net /\ Elsewhere(n, m, s)
  BY <1>0 DEF Way, Elsewhere
<1>2. Direct(n, m, s, src) \/ IntoCork(n, m, s, src) \/ Flushed(n, m, s, src, failed)
  BY <1>0 DEF Way
<1>3. Sound(m, gr, s)
  BY <1>0, <1>1, <1>2, SoundStep
<1>4. MaxBackpressure # 0 => Bounded(m, s)
  BY <1>0, <1>1, <1>2, BoundedStep DEF Owned, Allows
<1>5. Owned(m, s) /\ m.corked \in {n.corked, NoSocket}
  <2>1. s # NoSocket /\ Len(<<>>) = 0 /\ CorkSize \in Nat
    BY <1>0, NoSocketAssumption, SizeAssumption
  <2>2. CASE Direct(n, m, s, src)
    BY <1>0, <2>2 DEF Direct, CorkAlone, Owned
  <2>3. CASE IntoCork(n, m, s, src)
    BY <2>1, <2>3 DEF IntoCork, Owned
  <2>4. CASE Flushed(n, m, s, src, failed)
    BY <2>1, <2>4 DEF Flushed, Owned
  <2> QED BY <1>2, <2>2, <2>3, <2>4
<1> QED BY <1>1, <1>3, <1>4, <1>5

\* What does not touch bytes keeps all of it.
LEMMA SameBytes ==
  ASSUME NEW n, NEW m, NEW s,
         m.wire[s] = n.wire[s], m.buffer[s] = n.buffer[s], m.cork = n.cork, m.corked = n.corked
  PROVE  /\ \A fr : Sound(n, fr, s) => Sound(m, fr, s)
         /\ Bounded(n, s) => Bounded(m, s)
         /\ Owned(n, s) => Owned(m, s)
         /\ Line(m, s) = Line(n, s)
BY DEF Sound, Bounded, Owned, Line, Out

\* Nor does corking a socket while the cork buffer is empty.
LEMMA CorkingBytes ==
  ASSUME NEW n \in Net, NEW s \in Sockets, n.corked = NoSocket, n.cork = <<>>
  PROVE  LET m == Cork(n, s)
         IN  /\ Elsewhere(n, m, s)
             /\ m.corked = s /\ m.cork = <<>>
             /\ m.wire = n.wire /\ m.buffer = n.buffer
             /\ \A fr : Sound(n, fr, s) => Sound(m, fr, s)
             /\ Bounded(n, s) => Bounded(m, s)
             /\ Owned(m, s)
             /\ Line(m, s) = Line(n, s)
<1> DEFINE m == Cork(n, s)
<1>1. /\ Elsewhere(n, m, s)
      /\ m.corked = s /\ m.cork = <<>>
      /\ m.wire = n.wire /\ m.buffer = n.buffer
  BY CorkedFlow DEF Cork
<1> HIDE DEF m
<1>2. Line(m, s) = Line(n, s)
  BY <1>1 DEF Line, Out
<1>3. \A fr : Whole(fr, s, <<>>)
  BY DEF Whole
<1>4. \A fr : Sound(n, fr, s) => Sound(m, fr, s)
  BY <1>1, <1>2, <1>3 DEF Sound, Out
<1>5. Owned(m, s)
  <2>1. Len(<<>>) = 0 /\ CorkSize \in Nat /\ CorkSize >= 0
    BY SizeAssumption
  <2> QED BY <1>1, <2>1 DEF Owned
<1>6. Bounded(n, s) => Bounded(m, s)
  BY <1>1 DEF Bounded
<1> QED BY <1>1, <1>2, <1>4, <1>5, <1>6 DEF m

-----------------------------------------------------------------------------
(* Steps.  What is assumed of the sizes is that a frame fits into the cork *)
(* buffer, and of the threads that a send does not overlap a callback.     *)

FramesFit == ~Overlap /\ MaxFrame < CorkSize

\* A step that concerns the bytes of s alone.
LEMMA StreamStep ==
  ASSUME StreamInv, SocketsInv', NEW s \in Sockets,
         \A t \in Sockets \ {s} : /\ frames'[t] = frames[t]
                                  /\ net'.wire[t] = net.wire[t]
                                  /\ net'.buffer[t] = net.buffer[t],
         net.corked \in {s, NoSocket}, net'.corked \in {s, NoSocket},
         net.closed \subseteq net'.closed, upgraded \subseteq upgraded',
         s \in upgraded' \/ (frames'[s] = frames[s] /\ net'.buffer[s] = net.buffer[s]),
         s \notin net'.closed => Sound(net', frames'[s], s),
         MaxBackpressure # 0 => Bounded(net', s),
         CorkOwned', Resting'
  PROVE  StreamInv'
<1>1. Fresh'
  BY DEF StreamInv, Fresh
<1>2. ASSUME NEW t \in Sockets, t # s
      PROVE  /\ \A fr : Sound(net, fr, t) => Sound(net', fr, t)
             /\ Bounded(net, t) => Bounded(net', t)
  <2>1. net.corked # t /\ net'.corked # t
    BY <1>2, NoSocketAssumption
  <2>2. net'.wire[t] = net.wire[t] /\ net'.buffer[t] = net.buffer[t]
    BY <1>2
  <2> QED BY <2>1, <2>2 DEF Sound, Bounded, Line, Out
<1>3. ASSUME NEW t \in Sockets \ net'.closed
      PROVE  Sound(net', frames'[t], t)
  <2>1. CASE t = s
    BY <1>3, <2>1
  <2>2. CASE t # s
    <3>1. Sound(net, frames[t], t) /\ frames'[t] = frames[t]
      BY <1>3, <2>2 DEF StreamInv
    <3> QED BY <1>2, <2>2, <3>1
  <2> QED BY <2>1, <2>2
<1>4. ASSUME MaxBackpressure # 0, NEW t \in Sockets
      PROVE  Bounded(net', t)
  BY <1>2, <1>4 DEF StreamInv
<1> QED BY <1>1, <1>3, <1>4 DEF StreamInv

\* One that does not touch bytes.
LEMMA StillStep ==
  ASSUME StreamInv, SocketsInv', UNCHANGED <<upgraded, frames>>,
         net'.wire = net.wire, net'.buffer = net.buffer,
         net'.cork = net.cork, net'.corked = net.corked, net.closed \subseteq net'.closed,
         CorkOwned', Resting'
  PROVE  StreamInv'
<1>1. Fresh'
  BY DEF StreamInv, Fresh
<1>2. ASSUME NEW t \in Sockets
      PROVE  /\ \A fr : Sound(net, fr, t) => Sound(net', fr, t)
             /\ Bounded(net, t) => Bounded(net', t)
  BY SameBytes
<1>3. ASSUME NEW t \in Sockets \ net'.closed
      PROVE  Sound(net', frames'[t], t)
  BY <1>2, <1>3 DEF StreamInv
<1>4. ASSUME MaxBackpressure # 0, NEW t \in Sockets
      PROVE  Bounded(net', t)
  BY <1>2, <1>4 DEF StreamInv
<1> QED BY <1>1, <1>3, <1>4 DEF StreamInv

\* The invariant, for one socket.
LEMMA StreamFacts ==
  ASSUME StreamInv
  PROVE  /\ SocketsInv /\ TypeOK /\ net \in Net
         /\ frames \in [Sockets -> Seq(Frame)]
         /\ loop = LoopIdle => net.corked = NoSocket /\ net.cork = <<>>
         /\ net.corked \in {loop.s, NoSocket} /\ Owned(net, loop.s)
         /\ \A s \in Sockets \ net.closed : Sound(net, frames[s], s)
         /\ MaxBackpressure # 0 => \A s \in Sockets : Bounded(net, s)
BY DEF StreamInv, SocketsInv, TypeOK, CorkOwned, Owned, LoopIdle

\* A frame of NewFrame, and the history of frames with it.
LEMMA NextSend ==
  ASSUME TypeOK, NEW s \in Sockets, NEW size \in 1..MaxFrame, NEW failed \in BOOLEAN
  PROVE  LET x == [size |-> size, ok |-> ~failed]
         IN  /\ NewFrame(s, size) \in Seq(Byte)
             /\ Len(NewFrame(s, size)) = size
             /\ NewFrame(s, size) = NextFrame(frames[s], s, size)
             /\ x \in Frame
             /\ frames[s] \in Seq(Frame)
             /\ Append(frames[s], x) \in Seq(Frame)
             /\ Len(Append(frames[s], x)) = Len(frames[s]) + 1
             /\ Extends(frames[s], Append(frames[s], x), s, NewFrame(s, size), failed)
             /\ Record(s, size, ~failed) =>
                   /\ frames'[s] = Append(frames[s], x)
                   /\ \A t \in Sockets \ {s} : frames'[t] = frames[t]
<1> DEFINE x == [size |-> size, ok |-> ~failed]
           gr == Append(frames[s], x)
<1>1. x \in Frame /\ x.size = size /\ (x.ok => ~failed)
  BY DEF Frame
<1>2. frames \in [Sockets -> Seq(Frame)] /\ frames[s] \in Seq(Frame)
  BY DEF TypeOK
<1>3. NewFrame(s, size) = NextFrame(frames[s], s, size)
  BY DEF NewFrame, NextFrame
<1>4. Record(s, size, ~failed) => frames' = [frames EXCEPT ![s] = gr]
  BY <1>2 DEF Record
<1> HIDE DEF x
<1>5. /\ NextFrame(frames[s], s, x.size) \in Seq(Byte)
      /\ Len(NextFrame(frames[s], s, x.size)) = x.size
  BY <1>1, <1>2, FrameWhole
<1>6. gr \in Seq(Frame) /\ Len(gr) = Len(frames[s]) + 1
  BY <1>1, <1>2
<1> HIDE DEF gr
<1>7. Extends(frames[s], gr, s, NewFrame(s, size), failed)
  BY <1>1, <1>3 DEF Extends, gr
<1>8. Record(s, size, ~failed) =>
         frames'[s] = gr /\ \A t \in Sockets \ {s} : frames'[t] = frames[t]
  BY <1>2, <1>4
<1> QED BY <1>1, <1>2, <1>3, <1>5, <1>6, <1>7, <1>8 DEF x, gr

\* A send that is not skipped.
LEMMA SendFlow ==
  ASSUME FramesFit, StreamInv, NEW s \in Sockets \ net.closed, NEW size \in 1..MaxFrame,
         Owned(net, s), ~Skips(s)
  PROVE  LET w == SendFrame(net, s, NewFrame(s, size))
             gr == Append(frames[s], [size |-> size, ok |-> ~w.failed])
         IN  /\ Way(net, w.net, s, NewFrame(s, size), w.failed)
             /\ w.failed \in BOOLEAN
             /\ Elsewhere(net, w.net, s)
             /\ Owned(w.net, s)
             /\ w.net.corked \in {net.corked, NoSocket}
             /\ Sound(w.net, gr, s)
             /\ MaxBackpressure # 0 => Bounded(w.net, s)
             /\ net.corked = NoSocket => Direct(net, w.net, s, NewFrame(s, size))
             /\ net.corked = s /\ Len(net.cork) + size < CorkSize
                  => IntoCork(net, w.net, s, NewFrame(s, size))
<1> DEFINE w == SendFrame(net, s, NewFrame(s, size))
           gr == Append(frames[s], [size |-> size, ok |-> ~w.failed])
           src == NewFrame(s, size)
<1>1. /\ TypeOK
      /\ net \in Net
      /\ Sound(net, frames[s], s)
  BY StreamFacts
<1>2. src \in Seq(Byte) /\ Len(src) = size /\ size <= MaxFrame /\ size < CorkSize
  <2>1. src \in Seq(Byte) /\ Len(src) = size
    BY <1>1, NextSend
  <2>2. size <= MaxFrame /\ size < CorkSize
    BY SizeAssumption, FrameAssumption DEF FramesFit
  <2> QED BY <2>1, <2>2
<1>3. w.failed \in BOOLEAN
  BY <1>1, <1>2, SendFrameNet
<1>4. /\ Way(net, w.net, s, src, w.failed)
      /\ net.corked = NoSocket => Direct(net, w.net, s, src)
      /\ net.corked = s /\ Len(net.cork) + Len(src) < CorkSize
           => IntoCork(net, w.net, s, src)
  <2>1. net.corked = s \/ (net.corked = NoSocket /\ net.cork = <<>> /\ Len(src) < CorkSize)
    BY <1>2 DEF Owned
  <2> HIDE DEF src
  <2> QED BY <1>1, <1>2, <2>1, SendFrameFlow DEF src
<1>5. frames[s] \in Seq(Frame) /\ Extends(frames[s], gr, s, src, w.failed)
  <2> HIDE DEF w
  <2> QED BY <1>1, <1>3, NextSend
<1> HIDE DEF w, gr
<1>6. Allows(net, s, src)
  <2>1. net.buffer[s] \in Seq(Byte)
    BY <1>1 DEF Net
  <2>2. Len(net.buffer[s]) \in Nat /\ MaxBackpressure \in Nat
    BY <2>1, FrameAssumption
  <2> QED BY <1>2, <2>2 DEF Skips, Allows
<1> HIDE DEF src
<1>7. /\ Elsewhere(net, w.net, s)
      /\ Owned(w.net, s)
      /\ w.net.corked \in {net.corked, NoSocket}
      /\ Sound(w.net, gr, s)
      /\ MaxBackpressure # 0 => Bounded(w.net, s)
  <2>1. Allows(net, s, src) /\ s \in Sockets
    BY <1>6
  <2> DEFINE m == w.net
             f == w.failed
             fr == frames[s]
  <2>2. /\ f \in BOOLEAN /\ fr \in Seq(Frame)
        /\ Sound(net, fr, s) /\ Extends(fr, gr, s, src, f) /\ Way(net, m, s, src, f)
    BY <1>1, <1>3, <1>4, <1>5
  <2> HIDE DEF m, f, fr
  <2>3. /\ Elsewhere(net, m, s)
        /\ Owned(m, s)
        /\ m.corked \in {net.corked, NoSocket}
        /\ Sound(m, gr, s)
        /\ MaxBackpressure # 0 => Bounded(m, s)
    <3>1. Call(net, m, s, fr, gr, src, f)
      BY <1>1, <1>2, <2>1, <2>2 DEF Call
    <3> QED BY <3>1, WayStep
  <2> QED BY <2>3 DEF m
<1> QED BY <1>2, <1>3, <1>4, <1>7 DEF w, gr, src

\* The same frames lie in m, where nothing is corked, as in net.
Retains(m, s) ==
    /\ Elsewhere(net, m, s)
    /\ m.corked = NoSocket
    /\ m.cork = <<>>
    /\ s \notin net.closed => Sound(m, frames[s], s) /\ Line(m, s) = Line(net, s)
    /\ MaxBackpressure # 0 => Bounded(m, s)

\* So after uncork at the end of a callback, whether flushing fails or not.
LEMMA UncorkRetains ==
  ASSUME StreamInv, NEW s \in Sockets, s = loop.s
  PROVE  Retains(Uncork(net, s, <<>>).net, s)
<1> DEFINE u == Uncork(net, s, <<>>)
           m == [net EXCEPT !.corked = NoSocket]
           e == [m EXCEPT !.cork = <<>>]
<1>1. /\ TypeOK
      /\ net \in Net
      /\ Owned(net, s)
      /\ s \notin net.closed => Sound(net, frames[s], s)
      /\ MaxBackpressure # 0 => Bounded(net, s)
      /\ frames[s] \in Seq(Frame)
  BY StreamFacts DEF TypeOK
<1>2. s # NoSocket /\ <<>> \in Seq(Byte) /\ NoSocket \in Sockets \cup {NoSocket}
  BY NoSocketAssumption
<1>3. CASE net.corked # s
  <2>1. u.net = net
    BY <1>3 DEF Uncork, Done
  <2>2. net.corked = NoSocket /\ net.cork = <<>>
    BY <1>1, <1>3 DEF Owned
  <2>3. Elsewhere(net, net, s)
    BY <1>1 DEF Elsewhere
  <2> QED BY <1>1, <2>1, <2>2, <2>3 DEF Retains
<1>4. CASE net.corked = s /\ s \in net.closed
  <2>1. /\ Elsewhere(net, m, s)
        /\ m.corked = NoSocket /\ m.cork = net.cork
        /\ m.wire = net.wire /\ m.buffer = net.buffer
    BY <1>1, <1>2, CorkedFlow
  <2>2. m \in Net /\ s \in m.closed
    BY <1>4, <2>1 DEF Elsewhere
  <2>3. u.net = e
    <3>1. WriteUncorked(m, s, net.cork) = [net |-> m, failed |-> FALSE]
      BY <2>2, WriteUncorkedClosed
    <3>2. e.closed = m.closed
      BY DEF Net
    <3>3. WriteUncorked(e, s, <<>>) = [net |-> e, failed |-> FALSE]
      BY <2>2, <3>2, WriteUncorkedClosed
    <3> DEFINE f == WriteUncorked(m, s, net.cork)
               v == WriteUncorked([f.net EXCEPT !.cork = <<>>], s, <<>>)
    <3>4. u = v
      <4>1. ~f.failed
        BY <3>1
      <4> QED BY <1>4, <4>1 DEF Uncork
    <3>5. v = WriteUncorked(e, s, <<>>)
      <4>1. f.net = m
        BY <3>1
      <4> HIDE DEF f, m
      <4> QED BY <4>1
    <3> HIDE DEF u, v, e
    <3> QED BY <3>3, <3>4, <3>5
  <2> HIDE DEF m
  <2>4. /\ Elsewhere(m, e, s)
        /\ e.corked = m.corked /\ e.cork = <<>>
        /\ e.wire = m.wire /\ e.buffer = m.buffer
    BY <1>2, <2>2, CorkFlow
  <2> HIDE DEF e
  <2>5. Elsewhere(net, e, s)
    BY <2>1, <2>4, ElsewhereTwice
  <2>6. MaxBackpressure # 0 => Bounded(e, s)
    BY <1>1, <1>2, <2>1, <2>4 DEF Bounded
  <2> QED BY <1>4, <2>1, <2>3, <2>4, <2>5, <2>6 DEF Retains
<1>5. CASE net.corked = s /\ s \notin net.closed
  <2> DEFINE v == u.net
             f == u.failed
             fr == frames[s]
  <2>1. Elsewhere(net, v, s) /\ Flushed(net, v, s, <<>>, f)
    <3>1. s \in Sockets \ net.closed
      BY <1>5
    <3> QED BY <1>1, <1>2, <1>5, <3>1, UncorkFlow
  <2>2. f \in BOOLEAN
    BY <1>1, <1>2, UncorkNet
  <2> HIDE DEF u, v, f, fr
  <2>3. Extends(fr, fr, s, <<>>, f) /\ Allows(net, s, <<>>) /\ Way(net, v, s, <<>>, f)
    BY <1>1, <2>1 DEF Extends, Allows, Way
  <2>4. Call(net, v, s, fr, fr, <<>>, f)
    BY <1>1, <1>2, <1>5, <2>2, <2>3 DEF Call, fr
  <2>5. Sound(v, fr, s) /\ (MaxBackpressure # 0 => Bounded(v, s))
    BY <2>4, WayStep
  <2>6. v.corked = NoSocket /\ v.cork = <<>>
    BY <2>1 DEF Flushed
  <2>7. Line(v, s) = Line(net, s)
    <3>1. net.wire[s] \in Seq(Byte) /\ net.buffer[s] \in Seq(Byte) /\ net.cork \in Seq(Byte)
      BY <1>1 DEF Net
    <3> DEFINE b == Out(net, s) \o net.cork
    <3>2. b \in Seq(Byte)
      BY <3>1 DEF Out
    <3>3. b \o <<>> = b
      BY <3>2, ConcatEmptySeq
    <3>4. Out(v, s) = b
      BY <2>1, <3>3 DEF Flushed
    <3>5. Line(v, s) = b \o <<>>
      BY <1>2, <2>6, <3>4 DEF Line
    <3>6. Line(net, s) = b
      BY <1>5 DEF Line
    <3> QED BY <3>3, <3>5, <3>6
  <2> QED BY <2>1, <2>5, <2>6, <2>7 DEF Retains, u, v, fr
<1> QED BY <1>3, <1>4, <1>5

\* So after write with nothing to write, on_writable's way to drain.
LEMMA DrainingRetains ==
  ASSUME StreamInv, loop = LoopIdle, NEW s \in Sockets
  PROVE  Retains(Write([net EXCEPT !.polling = @ \ {s}], s, <<>>).net, s)
<1> DEFINE n == [net EXCEPT !.polling = net.polling \ {s}]
           w == Write(n, s, <<>>)
<1>1. /\ TypeOK
      /\ net \in Net
      /\ net.corked = NoSocket
      /\ net.cork = <<>>
      /\ s \notin net.closed => Sound(net, frames[s], s)
      /\ MaxBackpressure # 0 => Bounded(net, s)
      /\ frames[s] \in Seq(Frame)
  BY StreamFacts DEF TypeOK
<1>2. s # NoSocket /\ <<>> \in Seq(Byte) /\ Len(<<>>) = 0 /\ CorkSize >= 0
  BY NoSocketAssumption, SizeAssumption
<1>3. /\ Elsewhere(net, n, s)
      /\ n.wire = net.wire /\ n.buffer = net.buffer
      /\ n.corked = NoSocket /\ n.cork = <<>>
  BY <1>1 DEF Net, Elsewhere
<1>4. [net EXCEPT !.polling = @ \ {s}] = n
  BY <1>1 DEF Net
<1> HIDE DEF n
<1>5. n \in Net /\ n.closed = net.closed
  BY <1>3 DEF Elsewhere
<1>6. /\ \A fr : Sound(net, fr, s) => Sound(n, fr, s)
      /\ Bounded(net, s) => Bounded(n, s)
      /\ Line(n, s) = Line(net, s)
  <2>1. /\ n.wire[s] = net.wire[s] /\ n.buffer[s] = net.buffer[s]
        /\ n.cork = net.cork /\ n.corked = net.corked
    BY <1>1, <1>3
  <2> QED BY <2>1, SameBytes
<1>7. CASE s \in net.closed
  <2>1. w.net = n
    <3>1. w = WriteUncorked(n, s, <<>>)
      BY <1>2, <1>3 DEF Write
    <3>2. WriteUncorked(n, s, <<>>) = [net |-> n, failed |-> FALSE]
      BY <1>5, <1>7, WriteUncorkedClosed
    <3> QED BY <3>1, <3>2
  <2> QED BY <1>1, <1>3, <1>4, <1>6, <1>7, <2>1 DEF Retains
<1>8. CASE s \notin net.closed
  <2> DEFINE v == w.net
             f == w.failed
             fr == frames[s]
  <2>1. Way(n, v, s, <<>>, f) /\ Direct(n, v, s, <<>>)
    <3>1. s \in Sockets \ n.closed /\ n.corked # s
      BY <1>2, <1>3, <1>5, <1>8
    <3> QED BY <1>2, <1>5, <3>1, WriteFlow
  <2>2. f \in BOOLEAN
    BY <1>2, <1>5, WriteNet
  <2>3. v = Write([net EXCEPT !.polling = @ \ {s}], s, <<>>).net
    BY <1>4
  <2> HIDE DEF w, v, f, fr
  <2>4. Owned(n, s) /\ Sound(n, fr, s) /\ (MaxBackpressure # 0 => Bounded(n, s))
    BY <1>1, <1>2, <1>3, <1>6, <1>8 DEF Owned, fr
  <2>5. Extends(fr, fr, s, <<>>, f) /\ Allows(n, s, <<>>) /\ fr \in Seq(Frame)
    BY <1>1, <2>4 DEF Extends, Allows, fr
  <2>6. Call(n, v, s, fr, fr, <<>>, f)
    BY <1>2, <1>5, <2>1, <2>2, <2>4, <2>5 DEF Call
  <2>7. Elsewhere(n, v, s) /\ Sound(v, fr, s) /\ (MaxBackpressure # 0 => Bounded(v, s))
    BY <2>6, WayStep
  <2>8. v.corked = NoSocket /\ v.cork = <<>>
    BY <1>3, <2>1 DEF Direct, CorkAlone
  <2>9. Elsewhere(net, v, s)
    BY <1>3, <2>7, ElsewhereTwice
  <2>10. Line(v, s) = Line(n, s)
    <3>1. n.wire[s] \in Seq(Byte) /\ n.buffer[s] \in Seq(Byte)
      BY <1>5 DEF Net
    <3>2. Out(n, s) \in Seq(Byte)
      BY <3>1 DEF Out
    <3>3. Out(v, s) = Out(n, s)
      BY <2>1, <3>2, ConcatEmptySeq DEF Direct
    <3> QED BY <1>2, <1>3, <2>8, <3>3 DEF Line
  <2> QED BY <1>6, <2>3, <2>7, <2>8, <2>9, <2>10 DEF Retains, fr
<1> QED BY <1>7, <1>8

\* What Retains gives the variables after a step, with or without a FIN.
LEMMA RetainsStep ==
  ASSUME StreamInv, SocketsInv', NEW s \in Sockets, NEW m, Retains(m, s),
         net' = m \/ net' = Shutdown(m, s),
         net.corked \in {s, NoSocket}, UNCHANGED <<upgraded, frames>>, s \in upgraded, Resting'
  PROVE  StreamInv'
<1>1. /\ net'.wire = m.wire /\ net'.buffer = m.buffer
      /\ net'.cork = m.cork /\ net'.corked = m.corked
      /\ net'.closed = net.closed
  <2>1. m \in Net /\ m.closed = net.closed
    BY DEF Retains, Elsewhere
  <2>2. CASE net' = m
    BY <2>1, <2>2
  <2>3. CASE net' = Shutdown(m, s)
    BY <2>1, <2>3 DEF Shutdown, Net
  <2> QED BY <2>2, <2>3
<1>2. /\ \A fr : Sound(m, fr, s) => Sound(net', fr, s)
      /\ Bounded(m, s) => Bounded(net', s)
  BY <1>1, SameBytes
<1>3. \A t \in Sockets \ {s} : /\ frames'[t] = frames[t]
                               /\ net'.wire[t] = net.wire[t]
                               /\ net'.buffer[t] = net.buffer[t]
  BY <1>1 DEF Retains, Elsewhere
<1>4. CorkOwned'
  <2>1. Len(<<>>) = 0 /\ CorkSize >= 0
    BY SizeAssumption
  <2> QED BY <1>1, <2>1 DEF CorkOwned, Retains
<1>5. /\ s \notin net'.closed => Sound(net', frames'[s], s)
      /\ MaxBackpressure # 0 => Bounded(net', s)
  BY <1>1, <1>2 DEF Retains
<1>6. /\ net'.corked \in {s, NoSocket}
      /\ net.closed \subseteq net'.closed
      /\ upgraded \subseteq upgraded'
      /\ s \in upgraded'
  BY <1>1 DEF Retains
<1> QED BY <1>3, <1>4, <1>5, <1>6, StreamStep

\* A send of the socket of the callback under way, or between callbacks.
LEMMA SendKeepsStreams ==
  ASSUME FramesFit, StreamInv, SocketsInv', NEW s \in upgraded \ net.closed,
         NEW size \in 1..MaxFrame, Send(s, size), loop.s = s \/ loop = LoopIdle,
         loop'.s = loop.s /\ loop'.at \in {loop.at, "done"},
         loop = LoopIdle => loop' = loop,
         UNCHANGED <<upgraded, sender>>
  PROVE  StreamInv'
<1>1. /\ TypeOK
      /\ net \in Net
      /\ s \in Sockets \ net.closed
      /\ loop \in LoopType
      /\ Owned(net, s)
  <2>1. s \in Sockets /\ TypeOK /\ net \in Net
    BY StreamFacts DEF TypeOK
  <2>2. loop = LoopIdle => net.corked = NoSocket /\ net.cork = <<>>
    BY StreamFacts
  <2>3. Owned(net, loop.s)
    BY StreamFacts
  <2>4. Owned(net, s)
    BY <2>2, <2>3 DEF Owned
  <2> QED BY <2>1, <2>4 DEF TypeOK, LoopType
<1>2. CASE Skips(s)
  <2>1. UNCHANGED <<net, frames>>
    BY <1>2 DEF Send
  <2>2. CorkOwned' /\ Resting'
    BY <1>1, <2>1 DEF StreamInv, CorkOwned, Resting, LoopIdle, LoopType
  <2> QED BY <2>1, <2>2, StillStep
<1>3. CASE ~Skips(s)
  <2> DEFINE w == SendFrame(net, s, NewFrame(s, size))
             m == w.net
             gr == Append(frames[s], [size |-> size, ok |-> ~w.failed])
  <2>1. /\ w.failed \in BOOLEAN
        /\ Elsewhere(net, m, s)
        /\ Owned(m, s)
        /\ m.corked \in {net.corked, NoSocket}
        /\ Sound(m, gr, s)
        /\ MaxBackpressure # 0 => Bounded(m, s)
    BY <1>1, <1>3, SendFlow
  <2>2. net' = m /\ Record(s, size, ~w.failed)
    BY <1>3 DEF Send
  <2>3. frames'[s] = gr /\ \A t \in Sockets \ {s} : frames'[t] = frames[t]
    <3> HIDE DEF w
    <3> QED BY <1>1, <2>1, <2>2, NextSend
  <2> HIDE DEF w, m, gr
  <2>4. \A t \in Sockets \ {s} : /\ frames'[t] = frames[t]
                                 /\ net'.wire[t] = net.wire[t]
                                 /\ net'.buffer[t] = net.buffer[t]
    BY <2>1, <2>2, <2>3 DEF Elsewhere
  <2>5. /\ net.corked \in {s, NoSocket} /\ net'.corked \in {s, NoSocket}
        /\ net'.closed = net.closed
        /\ s \in upgraded'
    BY <1>1, <2>1, <2>2 DEF Owned, Elsewhere
  <2>6. Resting'
    BY <1>1, <2>5 DEF StreamInv, Resting, LoopIdle, LoopType
  <2>7. CorkOwned'
    <3>1. net'.corked # NoSocket => loop.at # "idle" /\ net'.corked = loop.s
      BY <2>1, <2>2 DEF StreamInv, CorkOwned
    <3>2. loop.at # "idle" => loop'.at # "idle" /\ loop'.s = loop.s
      OBVIOUS
    <3> QED BY <2>1, <2>2, <3>1, <3>2 DEF Owned, CorkOwned
  <2>8. Sound(net', frames'[s], s) /\ (MaxBackpressure # 0 => Bounded(net', s))
    BY <2>1, <2>2, <2>3
  <2> QED BY <1>1, <2>4, <2>5, <2>6, <2>7, <2>8, StreamStep
<1> QED BY <1>2, <1>3

\* Closing a socket concerns no bytes.
LEMMA CloseKeepsStreams ==
  ASSUME StreamInv, SocketsInv', NEW s \in Sockets, CloseSocket(s),
         loop' = loop \/ loop' = [loop EXCEPT !.at = "done"],
         loop.at = "idle" => loop' = loop, loop.at # "opening"
  PROVE  StreamInv'
<1>1. loop \in LoopType /\ net \in Net
  BY StreamFacts DEF TypeOK, LoopType
<1>2. /\ net'.wire = net.wire /\ net'.buffer = net.buffer
      /\ net'.cork = net.cork /\ net'.corked = net.corked
      /\ net'.closed = net.closed \cup {s}
      /\ UNCHANGED <<upgraded, frames, sender>>
  BY <1>1 DEF CloseSocket, Close, Net
<1>3. loop'.s = loop.s /\ (loop.at # "idle" => loop'.at # "idle") /\ loop'.at # "opening"
  BY <1>1 DEF LoopType
<1>4. CorkOwned' /\ Resting'
  BY <1>1, <1>2, <1>3 DEF StreamInv, CorkOwned, Resting, LoopIdle, LoopType
<1> QED BY <1>2, <1>4, StillStep

\* The response to the upgrade fits into the cork buffer of a socket that
\* buffers nothing.
LEMMA UpgradeFlow ==
  ASSUME FramesFit, StreamInv, NEW s \in Sockets, Upgrade(s)
  PROVE  /\ IntoCork(Cork(net, s), net', s, NewFrame(s, 1))
         /\ Elsewhere(net, net', s)
         /\ Owned(net', s)
         /\ \E x \in Frame : /\ frames'[s] = Append(frames[s], x)
                             /\ NewFrame(s, 1) = NextFrame(frames[s], s, x.size)
         /\ \A t \in Sockets \ {s} : frames'[t] = frames[t]
         /\ Sound(net', frames'[s], s)
         /\ MaxBackpressure # 0 => Bounded(net', s)
<1> DEFINE n == Cork(net, s)
           src == NewFrame(s, 1)
           w == Write(n, s, src)
           m == w.net
           f == w.failed
           x == [size |-> 1, ok |-> ~f]
           fr == frames[s]
           gr == Append(fr, x)
<1>1. /\ loop = LoopIdle
      /\ s \notin upgraded \cup net.closed
      /\ net' = m
      /\ Record(s, 1, ~f)
  BY DEF Upgrade
<1>2. /\ TypeOK
      /\ net \in Net
      /\ net.corked = NoSocket
      /\ net.cork = <<>>
      /\ Sound(net, fr, s)
      /\ MaxBackpressure # 0 => Bounded(net, s)
      /\ fr \in Seq(Frame)
      /\ net.buffer[s] = <<>>
  <2>1. net.buffer[s] = <<>>
    BY <1>1 DEF StreamInv, Fresh
  <2> QED BY <1>1, <2>1, StreamFacts DEF TypeOK
<1>3. 1 \in 1..MaxFrame /\ Len(<<>>) = 0 /\ 0 + 1 <= CorkSize /\ 0 <= MaxBackpressure
  BY FrameAssumption, SizeAssumption DEF FramesFit
<1>4. /\ Elsewhere(net, n, s)
      /\ n.corked = s /\ n.cork = <<>>
      /\ n.wire = net.wire /\ n.buffer = net.buffer
      /\ \A gs : Sound(net, gs, s) => Sound(n, gs, s)
      /\ Bounded(net, s) => Bounded(n, s)
      /\ Owned(n, s)
  BY <1>2, CorkingBytes
<1> HIDE DEF n
<1>5. n \in Net /\ s \in Sockets \ n.closed
  BY <1>1, <1>4 DEF Elsewhere
<1>6. src \in Seq(Byte) /\ Len(src) = 1
  BY <1>2, <1>3, NextSend
<1>7. f \in BOOLEAN
  BY <1>5, <1>6, WriteNet
<1>8. /\ Way(n, m, s, src, f)
      /\ IntoCork(n, m, s, src)
  <2>1. n.buffer[s] = <<>> /\ Len(n.cork) + Len(src) <= CorkSize
    BY <1>2, <1>3, <1>4, <1>6
  <2> HIDE DEF src
  <2> QED BY <1>4, <1>5, <1>6, <2>1, WriteFlow
<1> HIDE DEF w, m, f
<1>9. /\ src = NextFrame(fr, s, 1)
      /\ x \in Frame
      /\ Extends(fr, gr, s, src, f)
      /\ frames'[s] = gr
      /\ \A t \in Sockets \ {s} : frames'[t] = frames[t]
  BY <1>1, <1>2, <1>3, <1>7, NextSend
<1>10. Allows(n, s, src)
  <2>1. 1 <= MaxFrame
    BY <1>3, FrameAssumption
  <2> QED BY <1>2, <1>3, <1>4, <1>6, <2>1 DEF Allows
<1>11. Call(n, m, s, fr, gr, src, f)
  BY <1>2, <1>4, <1>5, <1>6, <1>7, <1>8, <1>9, <1>10 DEF Call
<1> HIDE DEF src, fr, gr
<1>12. /\ Elsewhere(n, m, s)
       /\ Owned(m, s)
       /\ Sound(m, gr, s)
       /\ MaxBackpressure # 0 => Bounded(m, s)
  BY <1>11, WayStep
<1>13. Elsewhere(net, m, s)
  BY <1>4, <1>12, ElsewhereTwice
<1>14. gr = Append(frames[s], x) /\ x.size = 1
  BY DEF gr, fr
<1> HIDE DEF x
<1>15. \E y \in Frame : frames'[s] = Append(frames[s], y) /\ src = NextFrame(frames[s], s, y.size)
  BY <1>9, <1>14 DEF fr
<1> QED BY <1>1, <1>8, <1>9, <1>12, <1>13, <1>15 DEF n, src

\* The callbacks of the loop keep the invariant.
LEMMA CallbackKeepsStreams ==
  ASSUME FramesFit, StreamInv, SocketsInv', Callback
  PROVE  StreamInv'
<1>0. /\ TypeOK
      /\ net \in Net
      /\ loop \in LoopType
      /\ CallbackSocket
      /\ net.corked \in {loop.s, NoSocket}
      /\ loop = LoopIdle => net.corked = NoSocket /\ net.cork = <<>>
      /\ upgraded \subseteq Sockets
      /\ Resting
      /\ CorkOwned
  BY StreamFacts DEF StreamInv, SocketsInv, TypeOK, LoopType
<1>1. ASSUME NEW s \in Sockets, Upgrade(s)
      PROVE  StreamInv'
  <2>1. /\ Elsewhere(net, net', s)
        /\ IntoCork(Cork(net, s), net', s, NewFrame(s, 1))
        /\ Owned(net', s)
        /\ \A t \in Sockets \ {s} : frames'[t] = frames[t]
        /\ Sound(net', frames'[s], s)
        /\ MaxBackpressure # 0 => Bounded(net', s)
    BY <1>1, UpgradeFlow
  <2>2. /\ loop = LoopIdle
        /\ s \notin net.closed
        /\ loop' = [at |-> "opening", s |-> s, replies |-> 0]
        /\ upgraded' = upgraded \cup {s}
        /\ sender' = sender
    BY <1>1 DEF Upgrade
  <2>3. net'.corked = s /\ net'.closed = net.closed
    BY <2>1 DEF IntoCork, Elsewhere
  <2>4. CorkOwned' /\ Resting'
    BY <1>0, <2>1, <2>2, <2>3 DEF Owned, CorkOwned, Resting
  <2>5. \A t \in Sockets \ {s} : /\ frames'[t] = frames[t]
                                 /\ net'.wire[t] = net.wire[t]
                                 /\ net'.buffer[t] = net.buffer[t]
    BY <2>1 DEF Elsewhere
  <2> QED BY <1>0, <2>1, <2>2, <2>3, <2>4, <2>5, StreamStep
<1>2. ASSUME NEW size \in 1..MaxFrame, Greet(size) \/ Reply(size)
      PROVE  StreamInv'
  <2>1. /\ Send(loop.s, size)
        /\ loop'.s = loop.s /\ loop'.at \in {loop.at, "done"}
        /\ loop.at \in {"opening", "data"}
        /\ UNCHANGED <<upgraded, sender>>
    BY <1>0, <1>2 DEF Greet, Reply, LoopType
  <2>2. loop # LoopIdle /\ loop.s \in upgraded \ net.closed
    BY <1>0, <2>1 DEF CallbackSocket, Resting, LoopIdle
  <2> QED BY <2>1, <2>2, SendKeepsStreams
<1>3. ASSUME NEW s \in Sockets, OnData(s)
      PROVE  StreamInv'
  <2>1. /\ loop = LoopIdle
        /\ net' = Cork(net, s)
        /\ loop' = [at |-> "data", s |-> s, replies |-> 0]
        /\ UNCHANGED <<upgraded, sender, frames>>
    BY <1>3 DEF OnData
  <2>2. /\ Elsewhere(net, net', s)
        /\ net'.corked = s /\ net'.cork = <<>>
        /\ net'.wire = net.wire /\ net'.buffer = net.buffer
        /\ \A fr : Sound(net, fr, s) => Sound(net', fr, s)
        /\ Bounded(net, s) => Bounded(net', s)
        /\ Owned(net', s)
    BY <1>0, <2>1, CorkingBytes
  <2>3. CorkOwned' /\ Resting'
    BY <1>0, <2>1, <2>2 DEF Owned, CorkOwned, Resting
  <2>4. /\ s \notin net'.closed => Sound(net', frames'[s], s)
        /\ MaxBackpressure # 0 => Bounded(net', s)
    BY <2>1, <2>2, StreamFacts DEF Elsewhere
  <2>5. net'.closed = net.closed
    BY <2>2 DEF Elsewhere
  <2> QED BY <1>0, <2>1, <2>2, <2>3, <2>4, <2>5, StreamStep
<1>4. CASE EndCall
  <2> DEFINE s == loop.s
             w == SendFrame(net, s, NewFrame(s, 1))
             m == w.net
             ok == Skips(s) \/ ~w.failed
             after == IF Skips(s) THEN net ELSE m
             gr == Append(frames[s], [size |-> 1, ok |-> ~w.failed])
  <2>1. /\ loop.at = "data"
        /\ net' = IF after.corked # s /\ ok THEN Shutdown(after, s) ELSE after
        /\ IF Skips(s) THEN UNCHANGED frames ELSE Record(s, 1, ok)
        /\ loop' = [loop EXCEPT !.at = "done"]
        /\ UNCHANGED <<upgraded, sender>>
    BY <1>4 DEF EndCall
  <2>2. s \in Sockets \ net.closed /\ s \in upgraded /\ Owned(net, s)
    BY <1>0, <2>1, StreamFacts DEF CallbackSocket
  <2>3. 1 \in 1..MaxFrame
    BY FrameAssumption
  <2> DEFINE hr == IF Skips(s) THEN frames[s] ELSE gr
  <2>4. /\ frames'[s] = hr
        /\ \A t \in Sockets \ {s} : frames'[t] = frames[t]
        /\ Elsewhere(net, after, s)
        /\ Owned(after, s)
        /\ after.corked \in {net.corked, NoSocket}
        /\ Sound(after, hr, s)
        /\ MaxBackpressure # 0 => Bounded(after, s)
    <3>1. CASE Skips(s)
      <4>1. Elsewhere(net, net, s) /\ Sound(net, frames[s], s)
            /\ (MaxBackpressure # 0 => Bounded(net, s))
        BY <1>0, <2>2, StreamFacts DEF Elsewhere
      <4> QED BY <2>1, <2>2, <3>1, <4>1
    <3>2. CASE ~Skips(s)
      <4>1. /\ w.failed \in BOOLEAN
            /\ Elsewhere(net, m, s)
            /\ Owned(m, s)
            /\ m.corked \in {net.corked, NoSocket}
            /\ Sound(m, gr, s)
            /\ MaxBackpressure # 0 => Bounded(m, s)
        <5> HIDE DEF s
        <5> QED BY <2>2, <2>3, <3>2, SendFlow
      <4>2. Record(s, 1, ~w.failed)
        BY <2>1, <3>2
      <4>3. frames'[s] = gr /\ \A t \in Sockets \ {s} : frames'[t] = frames[t]
        <5> HIDE DEF w, s
        <5> QED BY <1>0, <2>2, <2>3, <4>1, <4>2, NextSend
      <4> QED BY <3>2, <4>1, <4>3
    <3> QED BY <3>1, <3>2
  <2> HIDE DEF w, m, gr, hr, after, ok, s
  <2>5. /\ net'.wire = after.wire /\ net'.buffer = after.buffer
        /\ net'.cork = after.cork /\ net'.corked = after.corked
        /\ net'.closed = net.closed
    <3>1. after \in Net /\ after.closed = net.closed
      BY <2>4 DEF Elsewhere
    <3>2. net' = after \/ net' = Shutdown(after, s)
      BY <2>1
    <3>3. CASE net' = after
      BY <3>1, <3>3
    <3>4. CASE net' = Shutdown(after, s)
      BY <3>1, <3>4 DEF Shutdown, Net
    <3> QED BY <3>2, <3>3, <3>4
  <2>6. /\ \A fr : Sound(after, fr, s) => Sound(net', fr, s)
        /\ Bounded(after, s) => Bounded(net', s)
        /\ Owned(after, s) => Owned(net', s)
    BY <2>5, SameBytes
  <2>7. /\ Sound(net', frames'[s], s)
        /\ MaxBackpressure # 0 => Bounded(net', s)
        /\ Owned(net', s)
    BY <2>4, <2>6
  <2>8. \A t \in Sockets \ {s} : /\ frames'[t] = frames[t]
                                 /\ net'.wire[t] = net.wire[t]
                                 /\ net'.buffer[t] = net.buffer[t]
    BY <2>4, <2>5 DEF Elsewhere
  <2>9. loop'.at = "done" /\ loop'.s = s
    BY <1>0, <2>1 DEF LoopType, s
  <2>10. CorkOwned' /\ Resting'
    BY <1>0, <2>1, <2>7, <2>9 DEF Owned, CorkOwned, Resting
  <2>11. net.corked \in {s, NoSocket} /\ net'.corked \in {s, NoSocket} /\ s \in upgraded'
    BY <2>1, <2>2, <2>7 DEF Owned
  <2> QED BY <2>1, <2>2, <2>5, <2>7, <2>8, <2>10, <2>11, StreamStep
<1>5. CASE ForceClose
  <2>1. /\ loop.at = "data"
        /\ CloseSocket(loop.s)
        /\ loop' = [loop EXCEPT !.at = "done"]
    BY <1>5 DEF ForceClose
  <2>2. loop.s \in Sockets
    BY <1>0, <2>1 DEF CallbackSocket
  <2> QED BY <2>1, <2>2, CloseKeepsStreams
<1>6. CASE EndData
  <2> DEFINE s == loop.s
             m == Uncork(net, s, <<>>).net
  <2>1. /\ loop.at \in {"data", "done"}
        /\ net' = m \/ net' = Shutdown(m, s)
        /\ loop' = LoopIdle
        /\ UNCHANGED <<upgraded, sender, frames>>
    BY <1>6 DEF EndData
  <2>2. s \in Sockets /\ s \in upgraded
    BY <1>0, <2>1 DEF CallbackSocket
  <2>3. Retains(m, s)
    BY <2>2, UncorkRetains
  <2>4. net.corked \in {s, NoSocket} /\ Resting'
    BY <1>0, <2>1 DEF Resting, LoopIdle
  <2> HIDE DEF m, s
  <2> QED BY <2>1, <2>2, <2>3, <2>4, RetainsStep
<1>7. ASSUME NEW s \in Sockets, OnWritable(s)
      PROVE  StreamInv'
  <2> DEFINE m == Write([net EXCEPT !.polling = @ \ {s}], s, <<>>).net
  <2>1. /\ loop = LoopIdle
        /\ s \in upgraded
        /\ net' = m \/ net' = Shutdown(m, s)
        /\ UNCHANGED <<upgraded, loop, sender, frames>>
    BY <1>7 DEF OnWritable
  <2>2. Retains(m, s)
    BY <2>1, DrainingRetains
  <2>3. net.corked \in {s, NoSocket} /\ Resting'
    BY <1>0, <2>1 DEF Resting, LoopIdle
  <2> HIDE DEF m
  <2> QED BY <2>1, <2>2, <2>3, RetainsStep
<1>8. ASSUME NEW s \in Sockets, OnEnd(s) \/ OnTimeout(s)
      PROVE  StreamInv'
  <2>1. loop = LoopIdle /\ CloseSocket(s) /\ loop' = loop
    BY <1>8 DEF OnEnd, OnTimeout
  <2>2. loop.at = "idle"
    BY <2>1 DEF LoopIdle
  <2> QED BY <2>1, <2>2, CloseKeepsStreams
<1> QED BY <1>1, <1>2, <1>3, <1>4, <1>5, <1>6, <1>7, <1>8 DEF Callback

\* So do the sends of the front server's thread, which meet no callback.
LEMMA FrontThreadKeepsStreams ==
  ASSUME FramesFit, StreamInv, SocketsInv', FrontThread
  PROVE  StreamInv'
<1>1. ASSUME NEW s \in Sockets, NEW size \in 1..MaxFrame, Broadcast(s, size)
      PROVE  StreamInv'
  <2>1. /\ loop = LoopIdle
        /\ s \in conSet
        /\ Send(s, size)
        /\ UNCHANGED <<upgraded, loop, sender>>
    BY <1>1 DEF Broadcast
  <2>2. s \in upgraded \ net.closed
    BY <2>1 DEF StreamInv, SocketsInv, CloseEventOnce
  <2> QED BY <2>1, <2>2, SendKeepsStreams
<1>2. ~Overlap /\ sender.at = "idle"
  BY DEF FramesFit, StreamInv, Resting, SenderIdle
<1> QED BY <1>1, <1>2 DEF FrontThread, BeginSend, FormatSend, EndSend

\* And what the peers and the clock do.
LEMMA PeersKeepStreams ==
  ASSUME StreamInv, SocketsInv', NEW s \in Sockets, PeerReads(s) \/ Elapse(s)
  PROVE  StreamInv'
<1>1. net \in Net
  BY StreamFacts
<1>2. /\ net'.wire = net.wire /\ net'.buffer = net.buffer
      /\ net'.cork = net.cork /\ net'.corked = net.corked
      /\ net'.closed = net.closed
      /\ UNCHANGED <<upgraded, frames, loop, sender>>
  BY <1>1 DEF PeerReads, Elapse, Net
<1>3. CorkOwned' /\ Resting'
  BY <1>2 DEF StreamInv, CorkOwned, Resting
<1> QED BY <1>2, <1>3, StillStep

\* The invariant holds at first.
LEMMA StreamsInitially ==
  ASSUME Init
  PROVE  StreamInv
<1>1. SocketsInv
  BY SocketsInitially
<1>2. net.cork = <<>> /\ Len(<<>>) = 0 /\ CorkSize >= 0 /\ MaxFrame >= 0 /\ MaxBackpressure >= 0
      /\ CorkSize \in Nat /\ MaxFrame \in Nat /\ MaxBackpressure \in Nat
  BY SizeAssumption, FrameAssumption DEF Init, NetInit
<1>3. CorkOwned /\ Resting /\ Fresh
  BY <1>2 DEF Init, NetInit, LoopIdle, SenderIdle, CorkOwned, Resting, Fresh
<1>4. ASSUME NEW s \in Sockets
      PROVE  Sound(net, frames[s], s) /\ Bounded(net, s)
  <2>1. /\ net.wire[s] = <<>> /\ net.buffer[s] = <<>> /\ net.corked = NoSocket
        /\ frames[s] = <<>> /\ s # NoSocket
    BY NoSocketAssumption DEF Init, NetInit
  <2>2. Out(net, s) = <<>>
    BY <2>1 DEF Out
  <2>3. Sound(net, frames[s], s)
    BY <2>1, <2>2 DEF Sound, Whole
  <2>4. Bounded(net, s)
    BY <1>2, <2>1 DEF Bounded
  <2> QED BY <2>3, <2>4
<1> QED BY <1>1, <1>3, <1>4 DEF StreamInv

\* Every step keeps it.
LEMMA StreamsInductive ==
  ASSUME FramesFit, StreamInv, [Next]_vars
  PROVE  StreamInv'
<1>1. SocketsInv'
  BY SocketsInductive DEF StreamInv
<1>2. CASE Callback
  BY <1>1, <1>2, CallbackKeepsStreams
<1>3. CASE FrontThread
  BY <1>1, <1>3, FrontThreadKeepsStreams
<1>4. CASE \E s \in Sockets : PeerReads(s) \/ Elapse(s)
  BY <1>1, <1>4, PeersKeepStreams
<1>5. CASE UNCHANGED vars
  <2>1. UNCHANGED <<net, upgraded, frames, loop, sender>>
    BY <1>5 DEF vars
  <2>2. CorkOwned' /\ Resting'
    BY <2>1 DEF StreamInv, CorkOwned, Resting
  <2> QED BY <1>1, <2>1, <2>2, StillStep
<1> QED BY <1>2, <1>3, <1>4, <1>5 DEF Next

\* The invariant holds always.
THEOREM StreamInvariant ==
  ASSUME FramesFit
  PROVE  Spec => []StreamInv
<1>1. Init => StreamInv
  BY StreamsInitially
<1>2. StreamInv /\ [Next]_vars => StreamInv'
  BY StreamsInductive
<1> QED BY <1>1, <1>2, PTL DEF Spec

\* The stream of an open socket is its line, and consists of whole frames.
LEMMA StreamIsLine ==
  ASSUME StreamInv, NEW s \in Sockets \ net.closed
  PROVE  /\ Stream(s) = Line(net, s)
         /\ Line(net, s) \in Seq(Byte)
         /\ Whole(frames[s], s, Line(net, s))
<1> DEFINE o == Out(net, s)
           c == IF net.corked = s THEN net.cork ELSE <<>>
           fr == frames[s]
<1>1. net \in Net /\ Sound(net, fr, s)
  BY StreamFacts
<1>2. /\ net.wire[s] \in Seq(Byte) /\ net.buffer[s] \in Seq(Byte)
      /\ net.cork \in Seq(Byte) /\ <<>> \in Seq(Byte)
  BY <1>1 DEF Net
<1>3. o \in Seq(Byte) /\ c \in Seq(Byte)
  BY <1>2 DEF Out
<1>4. Whole(fr, s, o) /\ Whole(fr, s, c)
  <2>1. Whole(fr, s, <<>>)
    BY DEF Whole
  <2> QED BY <1>1, <2>1 DEF Sound
<1>5. Stream(s) = o \o c /\ Line(net, s) = o \o c
  BY DEF Stream, Line, Out
<1> HIDE DEF o, c, fr
<1>6. o \o c \in Seq(Byte) /\ Whole(fr, s, o \o c)
  BY <1>3, <1>4, WholeConcat
<1> QED BY <1>5, <1>6 DEF fr

\* Outside callbacks nothing is corked and the cork buffer is empty, though
\* a send whose flush fails leaves early (AsyncSocket.h:230-255,
\* WebSocket.h:101-125).
THEOREM CorkReleasedCorrect ==
  ASSUME FramesFit
  PROVE  Spec => []CorkReleased
<1>1. StreamInv => CorkReleased
  BY StreamFacts DEF CorkReleased
<1> QED BY <1>1, StreamInvariant, PTL

\* What a peer sees are whole frames of its own connection
\* (AsyncSocket.h:138-255).
THEOREM FramesWholeCorrect ==
  ASSUME FramesFit
  PROVE  Spec => []FramesWhole
<1>1. StreamInv => FramesWhole
  <2> SUFFICES ASSUME StreamInv, NEW s \in upgraded \ net.closed,
                      NEW i \in DOMAIN Stream(s)
               PROVE  /\ \/ Begins(s, Stream(s)[i])
                         \/ i > 1 /\ Joined(s, Stream(s)[i - 1], Stream(s)[i])
                      /\ \/ Ends(s, Stream(s)[i])
                         \/ i < Len(Stream(s)) /\ Joined(s, Stream(s)[i], Stream(s)[i + 1])
    BY DEF FramesWhole
  <2>1. s \in Sockets \ net.closed
    BY StreamFacts DEF TypeOK
  <2>2. Whole(frames[s], s, Stream(s))
    BY <2>1, StreamIsLine
  <2> QED BY <2>2 DEF Whole, Ends
<1> QED BY <1>1, StreamInvariant, PTL

\* A frame for which send returned true is not lost (WebSocket.h:59-125).
THEOREM AcceptedIsKeptCorrect ==
  ASSUME FramesFit
  PROVE  Spec => []AcceptedIsKept
<1>1. StreamInv => AcceptedIsKept
  <2> SUFFICES ASSUME StreamInv, NEW s \in upgraded \ net.closed,
                      NEW f \in DOMAIN frames[s], frames[s][f].ok
               PROVE  Kept(s, f)
    BY DEF AcceptedIsKept
  <2>1. s \in Sockets \ net.closed
    BY StreamFacts DEF TypeOK
  <2>2. Sound(net, frames[s], s) /\ Stream(s) = Line(net, s)
    BY <2>1, StreamFacts, StreamIsLine
  <2> QED BY <2>2 DEF Sound, Has, Kept
<1> QED BY <1>1, StreamInvariant, PTL

\* What the server buffers for a slow peer is bounded (WebSocket.h:65-68).
THEOREM BackpressureBoundedCorrect ==
  ASSUME FramesFit
  PROVE  Spec => []BackpressureBounded
<1>1. StreamInv => BackpressureBounded
  BY DEF StreamInv, Bounded, BackpressureBounded
<1> QED BY <1>1, StreamInvariant, PTL

-----------------------------------------------------------------------------
(* The order of frames, if all that one callback sends fits into the cork  *)
(* buffer: the answers to a chunk of data and a close frame, or the        *)
(* response to the upgrade and the greeting.  How many frames a connection *)
(* carries in its life is not bounded.  Without that assumption a frame    *)
(* may overtake those corked before it, and one that fails to follow a     *)
(* flush is lost.                                                          *)

CallbacksFit == ~Overlap /\ MaxFrame * (MaxReplies + 1) < CorkSize

\* How the sizes add up.
LEMMA SizesFit ==
  ASSUME CallbacksFit
  PROVE  /\ FramesFit
         /\ MaxFrame + MaxFrame < CorkSize
         /\ \A k \in 0..MaxReplies, c \in Nat, z \in 1..MaxFrame :
               c <= MaxFrame * k => c + z < CorkSize /\ c + z <= MaxFrame * (k + 1)
<1>1. MaxFrame \in Nat /\ MaxFrame >= 1 /\ MaxReplies \in Nat /\ MaxReplies >= 1 /\ CorkSize \in Nat
  BY FrameAssumption, SizeAssumption
<1>2. ASSUME NEW k \in 0..MaxReplies
      PROVE  MaxFrame * (k + 1) <= MaxFrame * (MaxReplies + 1)
  <2>1. k \in Nat /\ MaxReplies - k \in Nat
    BY <1>1
  <2>2. MaxFrame * (MaxReplies - k) >= 0
    BY <1>1, <2>1
  <2> QED BY <1>1, <2>1, <2>2
<1>3. FramesFit /\ MaxFrame + MaxFrame < CorkSize
  <2>1. MaxFrame * (1 + 1) <= MaxFrame * (MaxReplies + 1)
    <3>1. 1 \in 0..MaxReplies
      BY <1>1
    <3> QED BY <1>2, <3>1
  <2>2. MaxFrame * (1 + 1) = MaxFrame + MaxFrame
    BY <1>1
  <2> DEFINE q == MaxFrame * (MaxReplies + 1)
  <2>3. q \in Nat /\ MaxFrame + MaxFrame <= q /\ q < CorkSize
    BY <1>1, <2>1, <2>2 DEF CallbacksFit
  <2> HIDE DEF q
  <2> QED BY <1>1, <2>3 DEF FramesFit, CallbacksFit
<1>4. ASSUME NEW k \in 0..MaxReplies, NEW c \in Nat, NEW z \in 1..MaxFrame,
             c <= MaxFrame * k
      PROVE  c + z < CorkSize /\ c + z <= MaxFrame * (k + 1)
  <2> DEFINE p == MaxFrame * k
             q == MaxFrame * (MaxReplies + 1)
  <2>1. k \in Nat
    OBVIOUS
  <2>2. MaxFrame * (k + 1) = p + MaxFrame
    BY <1>1, <2>1
  <2>3. c <= p /\ p + MaxFrame <= q /\ q < CorkSize /\ p \in Nat /\ q \in Nat
    BY <1>1, <1>2, <1>4, <2>1, <2>2 DEF CallbacksFit
  <2> HIDE DEF p, q
  <2>4. c + z <= p + MaxFrame /\ c + z < CorkSize
    BY <1>1, <2>3
  <2> QED BY <2>2, <2>4
<1> QED BY <1>3, <1>4

\* Another frame at the end of the line.
LEMMA LineGrows ==
  ASSUME NEW fr \in Seq(Frame), NEW x \in Frame, NEW s \in Sockets, NEW a \in Seq(Byte),
         Whole(fr, s, a), Ordered(s, a), \A f \in DOMAIN fr : Has(a, s, f)
  PROVE  LET b == NextFrame(fr, s, x.size)
         IN  /\ Ordered(s, a \o b)
             /\ \A f \in DOMAIN Append(fr, x) : Has(a \o b, s, f)
<1> DEFINE b == NextFrame(fr, s, x.size)
           gr == Append(fr, x)
<1>1. /\ b \in Seq(Byte)
      /\ Has(b, s, Len(fr) + 1)
      /\ Ordered(s, b)
      /\ \A i \in DOMAIN b : b[i][2] = Len(fr) + 1
  BY FrameWhole
<1>2. DOMAIN fr = 1..Len(fr) /\ Len(fr) \in Nat
  OBVIOUS
<1>3. \A f \in DOMAIN gr : f \in DOMAIN fr \/ f = Len(fr) + 1
  OBVIOUS
<1> HIDE DEF b, gr
<1>4. ASSUME NEW i \in DOMAIN a, NEW j \in DOMAIN b
      PROVE  a[i][2] < b[j][2]
  <2>1. a[i][2] \in 1..Len(fr) /\ b[j][2] = Len(fr) + 1
    BY <1>1, <1>2 DEF Whole
  <2> QED BY <1>2, <2>1
<1>5. Ordered(s, a \o b)
  BY <1>1, <1>4, OrderedConcat
<1>6. \A f \in DOMAIN gr : Has(a \o b, s, f)
  BY <1>1, <1>3, HasConcat
<1> QED BY <1>5, <1>6 DEF b, gr

\* A frame that is corked, or sent while none is, goes to the end of the line.
LEMMA WayToLine ==
  ASSUME NEW n \in Net, NEW m, NEW s \in Sockets, NEW src \in Seq(Byte),
         \/ n.corked = NoSocket /\ Direct(n, m, s, src)
         \/ IntoCork(n, m, s, src)
  PROVE  Line(m, s) = Line(n, s) \o src
<1>1. n.wire[s] \in Seq(Byte) /\ n.buffer[s] \in Seq(Byte) /\ n.cork \in Seq(Byte)
  BY DEF Net
<1>2. Out(n, s) \in Seq(Byte)
  BY <1>1 DEF Out
<1>3. s # NoSocket
  BY NoSocketAssumption
<1>4. CASE n.corked = NoSocket /\ Direct(n, m, s, src)
  <2>1. m.corked # s /\ n.corked # s /\ Out(m, s) = Out(n, s) \o src
    BY <1>3, <1>4 DEF Direct, CorkAlone
  <2>2. Out(n, s) \o src \in Seq(Byte)
    BY <1>2
  <2>3. Line(m, s) = Out(n, s) \o src
    BY <2>1, <2>2, ConcatEmptySeq DEF Line
  <2>4. Line(n, s) = Out(n, s)
    BY <1>2, <2>1, ConcatEmptySeq DEF Line
  <2> QED BY <2>3, <2>4
<1>5. CASE IntoCork(n, m, s, src)
  <2>1. m.corked = s /\ n.corked = s /\ Out(m, s) = Out(n, s) /\ m.cork = n.cork \o src
    BY <1>5 DEF IntoCork
  <2>2. Line(m, s) = Out(n, s) \o (n.cork \o src) /\ Line(n, s) = Out(n, s) \o n.cork
    BY <2>1 DEF Line
  <2>3. (Out(n, s) \o n.cork) \o src = Out(n, s) \o (n.cork \o src)
    BY <1>1, <1>2, Associates
  <2> QED BY <2>2, <2>3
<1> QED BY <1>4, <1>5

\* A step that concerns the line of s alone.
LEMMA OrderStep ==
  ASSUME OrderInv, StreamInv', NEW s \in Sockets,
         \A t \in Sockets \ {s} : /\ frames'[t] = frames[t]
                                  /\ net'.wire[t] = net.wire[t]
                                  /\ net'.buffer[t] = net.buffer[t],
         net.corked \in {s, NoSocket}, net'.corked \in {s, NoSocket},
         net.closed \subseteq net'.closed,
         s \notin net'.closed => Arranged(net', frames'[s], s),
         CorkHolds', ShutInv'
  PROVE  OrderInv'
<1>1. ASSUME NEW t \in Sockets \ net'.closed
      PROVE  Arranged(net', frames'[t], t)
  <2>1. CASE t = s
    BY <1>1, <2>1
  <2>2. CASE t # s
    <3>1. Arranged(net, frames[t], t) /\ frames'[t] = frames[t]
      BY <1>1, <2>2 DEF OrderInv
    <3>2. net.corked # t /\ net'.corked # t
      BY <2>2, NoSocketAssumption
    <3>3. Line(net', t) = Line(net, t)
      BY <2>2, <3>2 DEF Line, Out
    <3> QED BY <3>1, <3>3 DEF Arranged
  <2> QED BY <2>1, <2>2
<1> QED BY <1>1 DEF OrderInv

\* One that leaves all lines as they are.
LEMMA OrderStillStep ==
  ASSUME OrderInv, StreamInv', frames' = frames, net.closed \subseteq net'.closed,
         \A t \in Sockets \ net'.closed : Line(net', t) = Line(net, t),
         CorkHolds', ShutInv'
  PROVE  OrderInv'
<1>1. ASSUME NEW t \in Sockets \ net'.closed
      PROVE  Arranged(net', frames'[t], t)
  <2>1. Arranged(net, frames[t], t)
    BY <1>1 DEF OrderInv
  <2> QED BY <1>1, <2>1 DEF Arranged
<1> QED BY <1>1 DEF OrderInv

\* A send that is not skipped, on the corked socket or between callbacks.
LEMMA SendArranges ==
  ASSUME CallbacksFit, OrderInv, NEW s \in Sockets \ net.closed, NEW size \in 1..MaxFrame,
         ~Skips(s), Owned(net, s),
         net.corked = NoSocket \/ Len(net.cork) + size < CorkSize
  PROVE  LET w == SendFrame(net, s, NewFrame(s, size))
             gr == Append(frames[s], [size |-> size, ok |-> ~w.failed])
         IN  /\ Elsewhere(net, w.net, s)
             /\ w.failed \in BOOLEAN
             /\ Arranged(w.net, gr, s)
             /\ w.net.corked = net.corked
             /\ net.corked # NoSocket => Len(w.net.cork) = Len(net.cork) + size
<1> DEFINE w == SendFrame(net, s, NewFrame(s, size))
           x == [size |-> size, ok |-> ~w.failed]
           fr == frames[s]
           gr == Append(fr, x)
           src == NewFrame(s, size)
           m == w.net
<1>1. /\ StreamInv
      /\ TypeOK
      /\ net \in Net
      /\ Arranged(net, fr, s)
      /\ Whole(fr, s, Line(net, s))
      /\ Line(net, s) \in Seq(Byte)
  BY StreamFacts, StreamIsLine DEF OrderInv
<1>2. FramesFit
  BY SizesFit
<1>3. /\ Elsewhere(net, m, s)
      /\ w.failed \in BOOLEAN
      /\ net.corked = NoSocket => Direct(net, m, s, src)
      /\ net.corked = s /\ Len(net.cork) + size < CorkSize => IntoCork(net, m, s, src)
  BY <1>1, <1>2, SendFlow
<1> HIDE DEF w, m
<1>4. /\ src \in Seq(Byte)
      /\ Len(src) = size
      /\ src = NextFrame(fr, s, size)
      /\ fr \in Seq(Frame)
      /\ x \in Frame /\ x.size = size
  BY <1>1, <1>3, NextSend
<1> HIDE DEF x, src, fr
<1>5. \/ net.corked = NoSocket /\ Direct(net, m, s, src)
      \/ net.corked = s /\ IntoCork(net, m, s, src)
  BY <1>3 DEF Owned
<1>6. Line(m, s) = Line(net, s) \o src
  BY <1>1, <1>4, <1>5, WayToLine
<1>7. Arranged(m, gr, s)
  <2>1. /\ Ordered(s, Line(net, s) \o src)
        /\ \A f \in DOMAIN Append(fr, x) : Has(Line(net, s) \o src, s, f)
    BY <1>1, <1>4, LineGrows DEF Arranged
  <2> QED BY <1>6, <2>1 DEF Arranged
<1>8. m.corked = net.corked
  BY <1>5 DEF Direct, CorkAlone, IntoCork
<1>9. net.corked # NoSocket => Len(m.cork) = Len(net.cork) + size
  <2>1. net.cork \in Seq(Byte)
    BY <1>1 DEF Net
  <2>2. Len(net.cork \o src) = Len(net.cork) + size
    BY <1>4, <2>1
  <2> QED BY <1>5, <2>2 DEF IntoCork
<1> QED BY <1>3, <1>7, <1>8, <1>9 DEF w, m, x, fr

\* The invariant, for the steps below.
LEMMA OrderFacts ==
  ASSUME OrderInv
  PROVE  /\ StreamInv /\ TypeOK /\ net \in Net
         /\ loop \in LoopType /\ sender \in SenderType
         /\ frames \in [Sockets -> Seq(Frame)]
         /\ upgraded \subseteq Sockets /\ ending \subseteq upgraded
         /\ conSet \cap (ending \cup net.closed) = {} /\ conSet \subseteq upgraded
         /\ CallbackSocket /\ Resting
         /\ loop = LoopIdle => net.corked = NoSocket /\ net.cork = <<>>
         /\ net.corked \in {loop.s, NoSocket} /\ Owned(net, loop.s)
         /\ CorkHolds /\ ShutInv
         /\ Len(net.cork) \in Nat
         /\ \A s \in Sockets \ net.closed : Arranged(net, frames[s], s)
<1>1. StreamInv /\ SocketsInv /\ TypeOK
  BY DEF OrderInv, StreamInv, SocketsInv
<1>2. /\ net \in Net
      /\ loop = LoopIdle => net.corked = NoSocket /\ net.cork = <<>>
      /\ net.corked \in {loop.s, NoSocket} /\ Owned(net, loop.s)
  BY <1>1, StreamFacts
<1>3. /\ CallbackSocket /\ Resting /\ EndingUpgraded /\ CloseEventOnce
      /\ CorkHolds /\ ShutInv
      /\ \A s \in Sockets \ net.closed : Arranged(net, frames[s], s)
  BY DEF OrderInv, StreamInv, SocketsInv
<1>4. /\ loop \in LoopType /\ sender \in SenderType
      /\ frames \in [Sockets -> Seq(Frame)]
      /\ upgraded \subseteq Sockets /\ conSet \subseteq Sockets
  BY <1>1 DEF TypeOK, LoopType, SenderType
<1>5. conSet \cap (ending \cup net.closed) = {} /\ conSet \subseteq upgraded
  BY <1>3, <1>4 DEF CloseEventOnce
<1>6. net.cork \in Seq(Byte)
  BY <1>2 DEF Net
<1>7. Len(net.cork) \in Nat
  BY <1>6
<1> QED BY <1>1, <1>2, <1>3, <1>4, <1>5, <1>7 DEF EndingUpgraded

\* What Retains gives for the order, with or without a FIN.
LEMMA RetainsOrder ==
  ASSUME OrderInv, StreamInv', NEW s \in upgraded, NEW m, Retains(m, s),
         \/ net' = m
         \/ s \in ending /\ m.buffer[s] = <<>> /\ net' = Shutdown(m, s),
         s \in net.closed \/ s \notin net.shut,
         net.corked \in {s, NoSocket}, loop' = LoopIdle, UNCHANGED <<upgraded, ending, frames>>
  PROVE  OrderInv'
<1>1. s \in Sockets /\ m \in Net /\ m.closed = net.closed /\ m.shut = net.shut
  BY OrderFacts DEF Retains, Elsewhere
<1>2. /\ net'.wire = m.wire /\ net'.buffer = m.buffer
      /\ net'.cork = m.cork /\ net'.corked = m.corked
      /\ net'.closed = net.closed
      /\ \/ net'.shut = net.shut
         \/ s \in ending /\ m.buffer[s] = <<>> /\ net'.shut = net.shut \cup {s}
  <2>1. CASE net' = m
    BY <1>1, <2>1
  <2>2. CASE s \in ending /\ m.buffer[s] = <<>> /\ net' = Shutdown(m, s)
    BY <1>1, <2>2 DEF Shutdown, Net
  <2> QED BY <2>1, <2>2
<1>3. s \notin net'.closed => Arranged(net', frames'[s], s)
  <2>1. Line(net', s) = Line(m, s)
    BY <1>2, SameBytes
  <2>2. s \notin net.closed => Arranged(net, frames[s], s) /\ Line(m, s) = Line(net, s)
    BY <1>1, OrderFacts DEF Retains
  <2> QED BY <1>2, <2>1, <2>2 DEF Arranged
<1>4. \A t \in Sockets \ {s} : /\ frames'[t] = frames[t]
                               /\ net'.wire[t] = net.wire[t]
                               /\ net'.buffer[t] = net.buffer[t]
  BY <1>2 DEF Retains, Elsewhere
<1>5. CorkHolds'
  BY OrderFacts DEF CorkHolds, LoopIdle
<1>6. ShutInv'
  <2>1. ASSUME NEW t \in net'.shut \ net'.closed
        PROVE  t \in ending /\ net'.buffer[t] = <<>>
    <3>1. net'.shut \subseteq Sockets
      BY <1>1, <1>2 DEF Net
    <3>2. CASE t = s
      BY <1>2, <2>1, <3>2
    <3>3. CASE t # s
      <4>1. t \in net.shut \ net.closed
        BY <1>2, <2>1, <3>3
      <4>2. t \in ending /\ net.buffer[t] = <<>>
        BY <4>1, OrderFacts DEF ShutInv
      <4> QED BY <1>4, <2>1, <3>1, <3>3, <4>2
    <3> QED BY <3>2, <3>3
  <2>2. \A t \in net'.shut : t # NoSocket
    <3>1. net'.shut \subseteq Sockets
      BY <1>1, <1>2 DEF Net
    <3> QED BY <3>1, NoSocketAssumption
  <2> QED BY <2>1, <2>2 DEF ShutInv, LoopIdle
<1>7. net'.corked \in {s, NoSocket} /\ net.closed \subseteq net'.closed
  BY <1>2 DEF Retains
<1> QED BY <1>1, <1>3, <1>4, <1>5, <1>6, <1>7, OrderStep

\* A send that is skipped, or not.
LEMMA SendKeepsOrder ==
  ASSUME CallbacksFit, OrderInv, StreamInv', NEW s \in upgraded \ (net.closed \cup ending),
         NEW size \in 1..MaxFrame, Send(s, size),
         Owned(net, s), net.corked = NoSocket \/ Len(net.cork) + size < CorkSize,
         s \notin net.shut,
         loop'.at = "data" =>
            /\ loop.at = "data" /\ loop'.s = s /\ loop.s = s
            /\ Len(net.cork) + size <= MaxFrame * loop'.replies,
         loop'.at # "opening", loop'.s = loop.s, UNCHANGED <<upgraded, ending>>
  PROVE  OrderInv'
<1>1. /\ s \in Sockets \ net.closed
      /\ TypeOK
      /\ frames \in [Sockets -> Seq(Frame)]
      /\ Len(net.cork) \in Nat
  BY OrderFacts
<1>2. CASE Skips(s)
  <2>1. UNCHANGED <<net, frames>>
    BY <1>2 DEF Send
  <2>2. CorkHolds' /\ ShutInv'
    <3>1. ShutInv'
      BY <2>1, OrderFacts DEF ShutInv
    <3>2. loop'.at = "data" => net.corked = loop'.s /\ Len(net.cork) <= MaxFrame * loop'.replies
      <4>1. ASSUME loop'.at = "data"
            PROVE  net.corked = loop'.s /\ Len(net.cork) <= MaxFrame * loop'.replies
        <5> DEFINE c == Len(net.cork)
        <5>1. net.corked = loop.s /\ loop'.s = loop.s
          BY <4>1, OrderFacts DEF CorkHolds
        <5>2. c \in Nat /\ size \in Nat /\ c + size <= MaxFrame * loop'.replies
          BY <1>1, <4>1
        <5> HIDE DEF c
        <5>3. MaxFrame * loop'.replies \in Int
          <6>1. StreamInv' => loop' \in LoopType
            BY DEF StreamInv, SocketsInv, TypeOK, LoopType
          <6>2. loop'.replies \in Nat /\ MaxFrame \in Nat
            BY <6>1, FrameAssumption DEF LoopType
          <6> QED BY <6>2
        <5>4. c <= MaxFrame * loop'.replies
          BY <5>2, <5>3
        <5> QED BY <5>1, <5>4 DEF c
      <4> QED BY <4>1
    <3> QED BY <2>1, <3>1, <3>2 DEF CorkHolds
  <2>3. \A t \in Sockets \ net'.closed : Line(net', t) = Line(net, t)
    BY <2>1 DEF Line, Out
  <2> QED BY <2>1, <2>2, <2>3, OrderStillStep
<1>3. CASE ~Skips(s)
  <2> DEFINE w == SendFrame(net, s, NewFrame(s, size))
             m == w.net
             gr == Append(frames[s], [size |-> size, ok |-> ~w.failed])
  <2>1. /\ Elsewhere(net, m, s)
        /\ w.failed \in BOOLEAN
        /\ Arranged(m, gr, s)
        /\ m.corked = net.corked
        /\ net.corked # NoSocket => Len(m.cork) = Len(net.cork) + size
    BY <1>1, <1>3, SendArranges
  <2>2. net' = m /\ Record(s, size, ~w.failed)
    BY <1>3 DEF Send
  <2>3. /\ frames'[s] = gr
        /\ \A t \in Sockets \ {s} : frames'[t] = frames[t]
    <3> DEFINE f == w.failed
               x == [size |-> size, ok |-> ~f]
    <3>1. TypeOK /\ s \in Sockets /\ f \in BOOLEAN /\ Record(s, size, ~f)
      BY <1>1, <2>1, <2>2
    <3> HIDE DEF w, f
    <3>2. /\ Len(Append(frames[s], x)) = Len(frames[s]) + 1
          /\ frames'[s] = Append(frames[s], x)
          /\ \A t \in Sockets \ {s} : frames'[t] = frames[t]
      BY <3>1, NextSend
    <3> QED BY <3>2 DEF f
  <2> HIDE DEF w, m, gr
  <2>4. \A t \in Sockets \ {s} : /\ frames'[t] = frames[t]
                                 /\ net'.wire[t] = net.wire[t]
                                 /\ net'.buffer[t] = net.buffer[t]
    BY <2>1, <2>2, <2>3 DEF Elsewhere
  <2>5. net'.closed = net.closed /\ net'.shut = net.shut /\ net'.corked = net.corked
    BY <2>1, <2>2 DEF Elsewhere
  <2>6. ShutInv'
    <3>1. net.shut \subseteq Sockets
      BY OrderFacts DEF Net
    <3> QED BY <2>4, <2>5, <3>1, OrderFacts DEF ShutInv
  <2>7. CorkHolds'
    <3>1. loop'.at = "data" => /\ net'.corked = loop'.s
                              /\ Len(net'.cork) = Len(net.cork) + size
      <4>1. loop'.at = "data" => net.corked = s
        BY OrderFacts DEF CorkHolds
      <4> QED BY <1>1, <2>1, <2>2, <4>1, NoSocketAssumption
    <3> QED BY <2>3, <3>1 DEF CorkHolds
  <2>8. Arranged(net', frames'[s], s)
    BY <2>1, <2>2, <2>3
  <2> QED BY <1>1, <2>4, <2>5, <2>6, <2>7, <2>8, OrderStep DEF Owned
<1> QED BY <1>2, <1>3

\* The callbacks of the loop keep the order.
LEMMA CallbackKeepsOrder ==
  ASSUME CallbacksFit, OrderInv, StreamInv', Callback
  PROVE  OrderInv'
<1>0. /\ StreamInv /\ TypeOK /\ net \in Net
      /\ loop \in LoopType
      /\ frames \in [Sockets -> Seq(Frame)]
      /\ upgraded \subseteq Sockets /\ ending \subseteq upgraded
      /\ CallbackSocket /\ Resting
      /\ loop = LoopIdle => net.corked = NoSocket /\ net.cork = <<>>
      /\ net.corked \in {loop.s, NoSocket} /\ Owned(net, loop.s)
      /\ CorkHolds /\ ShutInv
      /\ Len(net.cork) \in Nat
      /\ net.shut \subseteq Sockets
  BY OrderFacts DEF Net
<1>a. /\ FramesFit
      /\ MaxFrame + MaxFrame < CorkSize
      /\ \A k \in 0..MaxReplies, c \in Nat, z \in 1..MaxFrame :
            c <= MaxFrame * k => c + z < CorkSize /\ c + z <= MaxFrame * (k + 1)
  BY SizesFit
<1>b. /\ MaxFrame \in Nat /\ MaxReplies \in Nat /\ CorkSize \in Nat
      /\ 1 \in 1..MaxFrame /\ MaxFrame * 0 = 0
  BY FrameAssumption, SizeAssumption
<1>1. ASSUME NEW s \in Sockets, Upgrade(s)
      PROVE  OrderInv'
  <2> DEFINE n == Cork(net, s)
             src == NewFrame(s, 1)
             fr == frames[s]
  <2>1. /\ IntoCork(n, net', s, src)
        /\ Elsewhere(net, net', s)
        /\ Owned(net', s)
        /\ \E x \in Frame : frames'[s] = Append(fr, x) /\ src = NextFrame(fr, s, x.size)
        /\ \A t \in Sockets \ {s} : frames'[t] = frames[t]
    BY <1>0, <1>1, <1>a, UpgradeFlow
  <2>2. /\ loop = LoopIdle
        /\ s \notin upgraded \cup net.closed
        /\ loop' = [at |-> "opening", s |-> s, replies |-> 0]
        /\ upgraded' = upgraded \cup {s}
        /\ ending' = ending
    BY <1>1 DEF Upgrade
  <2>3. fr = <<>> /\ fr \in Seq(Frame)
    BY <1>0, <2>2 DEF StreamInv, Fresh
  <2>4. /\ Elsewhere(net, n, s)
        /\ n.cork = <<>>
        /\ Line(n, s) = Line(net, s)
    BY <1>0, <2>2, CorkingBytes
  <2>5. /\ Arranged(net, fr, s)
        /\ Whole(fr, s, Line(net, s))
        /\ Line(net, s) \in Seq(Byte)
    BY <1>0, <2>2, OrderFacts, StreamIsLine
  <2>6. src \in Seq(Byte) /\ Len(src) = 1
    BY <1>0, <1>b, NextSend
  <2> HIDE DEF n, src, fr
  <2>7. PICK x \in Frame : frames'[s] = Append(fr, x) /\ src = NextFrame(fr, s, x.size)
    BY <2>1
  <2>8. Line(net', s) = Line(net, s) \o src
    <3>1. n \in Net
      BY <2>4 DEF Elsewhere
    <3> QED BY <2>1, <2>4, <2>6, <3>1, WayToLine
  <2>9. Arranged(net', frames'[s], s)
    <3>1. /\ Ordered(s, Line(net, s) \o src)
          /\ \A f \in DOMAIN Append(fr, x) : Has(Line(net, s) \o src, s, f)
      BY <2>3, <2>5, <2>7, LineGrows DEF Arranged
    <3> QED BY <2>7, <2>8, <3>1 DEF Arranged
  <2>10. net'.corked = s /\ net'.closed = net.closed /\ net'.shut = net.shut
    BY <2>1 DEF IntoCork, Elsewhere
  <2>11. Len(net'.cork) = 1
    <3>1. net'.cork = src
      BY <2>1, <2>4, <2>6, ConcatEmptySeq DEF IntoCork
    <3> QED BY <2>6, <3>1
  <2>12. CorkHolds'
    BY <1>0, <1>b, <2>2, <2>10, <2>11 DEF CorkHolds
  <2>13. ShutInv'
    BY <1>0, <2>1, <2>2, <2>10 DEF ShutInv, Elsewhere
  <2>14. \A t \in Sockets \ {s} : /\ frames'[t] = frames[t]
                                  /\ net'.wire[t] = net.wire[t]
                                  /\ net'.buffer[t] = net.buffer[t]
    BY <2>1 DEF Elsewhere
  <2> QED BY <1>0, <2>2, <2>9, <2>10, <2>12, <2>13, <2>14, OrderStep
<1>2. ASSUME NEW size \in 1..MaxFrame, Greet(size)
      PROVE  OrderInv'
  <2> DEFINE s == loop.s
  <2>1. /\ loop.at = "opening"
        /\ Send(s, size)
        /\ loop' = [loop EXCEPT !.at = "done"]
        /\ UNCHANGED <<upgraded, ending>>
    BY <1>2 DEF Greet
  <2>2. s \in upgraded \ net.closed /\ Len(net.cork) <= MaxFrame
    BY <1>0, <2>1 DEF CallbackSocket, Resting, CorkHolds
  <2>3. s \notin ending
    BY <1>0, <2>1 DEF CorkHolds
  <2>4. s \notin net.shut
    BY <1>0, <2>2 DEF ShutInv
  <2>5. Len(net.cork) + size < CorkSize
    BY <1>0, <1>a, <1>b, <2>2
  <2>6. loop'.at = "done" /\ loop'.s = loop.s
    BY <1>0, <2>1 DEF LoopType
  <2>7. Owned(net, s)
    BY <1>0
  <2> QED BY <2>1, <2>2, <2>3, <2>4, <2>5, <2>6, <2>7, SendKeepsOrder
<1>3. ASSUME NEW s \in Sockets, OnData(s)
      PROVE  OrderInv'
  <2>1. /\ loop = LoopIdle
        /\ s \in upgraded \ (ending \cup net.closed)
        /\ net' = Cork(net, s)
        /\ loop' = [at |-> "data", s |-> s, replies |-> 0]
        /\ UNCHANGED <<upgraded, ending, frames>>
    BY <1>3 DEF OnData
  <2>2. /\ Elsewhere(net, net', s)
        /\ net'.corked = s /\ net'.cork = <<>>
        /\ net'.wire = net.wire /\ net'.buffer = net.buffer
        /\ Line(net', s) = Line(net, s)
    BY <1>0, <2>1, CorkingBytes
  <2>3. net'.closed = net.closed /\ net'.shut = net.shut
    BY <2>2 DEF Elsewhere
  <2>4. Arranged(net', frames'[s], s)
    BY <2>1, <2>2, OrderFacts DEF Arranged
  <2>5. CorkHolds'
    <3>1. loop'.replies = 0 /\ loop'.s = s
      BY <2>1
    <3>2. Len(net'.cork) = 0
      BY <2>2
    <3> QED BY <1>b, <2>1, <2>2, <3>1, <3>2 DEF CorkHolds
  <2>6. ShutInv'
    BY <1>0, <2>1, <2>2, <2>3 DEF ShutInv
  <2> QED BY <1>0, <2>1, <2>2, <2>3, <2>4, <2>5, <2>6, OrderStep
<1>4. ASSUME NEW size \in 1..MaxFrame, Reply(size)
      PROVE  OrderInv'
  <2> DEFINE s == loop.s
  <2>1. /\ loop.at = "data"
        /\ loop.replies \in 0..MaxReplies
        /\ Send(s, size)
        /\ loop'.at = "data" /\ loop'.s = s /\ loop'.replies = loop.replies + 1
        /\ UNCHANGED <<upgraded, ending>>
    BY <1>0, <1>4 DEF Reply, LoopType
  <2>2. s \in upgraded \ (net.closed \cup ending)
    BY <1>0, <2>1 DEF CallbackSocket
  <2>3. Len(net.cork) <= MaxFrame * loop.replies
    BY <1>0, <2>1 DEF CorkHolds
  <2>4. s \notin net.shut
    BY <1>0, <2>2 DEF ShutInv
  <2>5. /\ Len(net.cork) + size < CorkSize
        /\ Len(net.cork) + size <= MaxFrame * loop'.replies
    BY <1>0, <1>a, <2>1, <2>3
  <2>6. Owned(net, s)
    BY <1>0
  <2> QED BY <2>1, <2>2, <2>4, <2>5, <2>6, SendKeepsOrder
<1>5. CASE EndCall
  <2> DEFINE s == loop.s
             w == SendFrame(net, s, NewFrame(s, 1))
             m == w.net
             ok == Skips(s) \/ ~w.failed
             after == IF Skips(s) THEN net ELSE m
             gr == Append(frames[s], [size |-> 1, ok |-> ~w.failed])
             hr == IF Skips(s) THEN frames[s] ELSE gr
  <2>1. /\ loop.at = "data"
        /\ ending' = ending \cup {s}
        /\ net' = IF after.corked # s /\ ok THEN Shutdown(after, s) ELSE after
        /\ IF Skips(s) THEN UNCHANGED frames ELSE Record(s, 1, ok)
        /\ loop' = [loop EXCEPT !.at = "done"]
        /\ UNCHANGED <<upgraded, sender>>
    BY <1>5 DEF EndCall
  <2>2. /\ s \in upgraded \ (net.closed \cup ending)
        /\ s \in Sockets \ net.closed
        /\ net.corked = s
        /\ Owned(net, s)
        /\ Len(net.cork) + 1 < CorkSize
    <3>1. s \in upgraded \ (net.closed \cup ending)
      BY <1>0, <2>1 DEF CallbackSocket
    <3>2. /\ Len(net.cork) <= MaxFrame * loop.replies
          /\ loop.replies \in 0..MaxReplies
          /\ net.corked = s
      BY <1>0, <2>1 DEF CorkHolds, LoopType
    <3>3. Len(net.cork) + 1 < CorkSize
      BY <1>0, <1>a, <1>b, <3>2
    <3> QED BY <1>0, <3>1, <3>2, <3>3
  <2>3. /\ frames'[s] = hr
        /\ \A t \in Sockets \ {s} : frames'[t] = frames[t]
        /\ Elsewhere(net, after, s)
        /\ after.corked = s
        /\ Arranged(after, hr, s)
    <3>1. CASE Skips(s)
      <4>1. Elsewhere(net, net, s) /\ Arranged(net, frames[s], s)
        BY <1>0, <2>2, OrderFacts DEF Elsewhere
      <4> QED BY <2>1, <2>2, <3>1, <4>1
    <3>2. CASE ~Skips(s)
      <4>1. /\ Elsewhere(net, m, s)
            /\ w.failed \in BOOLEAN
            /\ Arranged(m, gr, s)
            /\ m.corked = net.corked
        <5> HIDE DEF s
        <5> QED BY <1>b, <2>2, <3>2, SendArranges
      <4>2. Record(s, 1, ~w.failed)
        BY <2>1, <3>2
      <4>3. frames'[s] = gr /\ \A t \in Sockets \ {s} : frames'[t] = frames[t]
        <5> DEFINE f == w.failed
        <5>1. TypeOK /\ s \in Sockets /\ f \in BOOLEAN /\ Record(s, 1, ~f)
          BY <1>0, <2>2, <4>1, <4>2
        <5> HIDE DEF w, s, f
        <5>2. /\ frames'[s] = Append(frames[s], [size |-> 1, ok |-> ~f])
              /\ \A t \in Sockets \ {s} : frames'[t] = frames[t]
          BY <1>b, <5>1, NextSend
        <5> QED BY <5>2 DEF f
      <4> QED BY <2>2, <3>2, <4>1, <4>3
    <3> QED BY <3>1, <3>2
  <2>4. net' = after
    BY <2>1, <2>3
  <2>5. loop'.at = "done" /\ loop'.s = s
    BY <1>0, <2>1 DEF LoopType
  <2> HIDE DEF w, m, gr, hr, after, ok, s
  <2>6. /\ net'.closed = net.closed /\ net'.shut = net.shut
        /\ \A t \in Sockets \ {s} : /\ frames'[t] = frames[t]
                                    /\ net'.wire[t] = net.wire[t]
                                    /\ net'.buffer[t] = net.buffer[t]
    BY <2>3, <2>4 DEF Elsewhere
  <2>7. CorkHolds'
    BY <2>5 DEF CorkHolds
  <2>8. ShutInv'
    BY <1>0, <2>1, <2>2, <2>5, <2>6 DEF ShutInv, s
  <2>9. Arranged(net', frames'[s], s)
    BY <2>3, <2>4
  <2> QED BY <2>2, <2>3, <2>4, <2>6, <2>7, <2>8, <2>9, OrderStep
<1>6. ASSUME NEW s \in Sockets, CloseSocket(s), loop'.s = loop.s, loop'.at \in {"idle", "done"}
      PROVE  OrderInv'
  <2>1. /\ net'.wire = net.wire /\ net'.buffer = net.buffer
        /\ net'.cork = net.cork /\ net'.corked = net.corked
        /\ net'.closed = net.closed \cup {s}
        /\ net'.shut = net.shut
        /\ UNCHANGED <<upgraded, ending, frames>>
    BY <1>0, <1>6 DEF CloseSocket, Close, Net
  <2>2. \A t \in Sockets \ net'.closed : Line(net', t) = Line(net, t)
    BY <2>1 DEF Line, Out
  <2>3. CorkHolds' /\ ShutInv'
    BY <1>0, <1>6, <2>1 DEF CorkHolds, ShutInv
  <2> QED BY <2>1, <2>2, <2>3, OrderStillStep
<1>7. CASE ForceClose
  <2>1. CloseSocket(loop.s) /\ loop' = [loop EXCEPT !.at = "done"] /\ loop.at = "data"
    BY <1>7 DEF ForceClose
  <2>2. loop.s \in Sockets /\ loop'.s = loop.s /\ loop'.at = "done"
    BY <1>0, <2>1 DEF CallbackSocket, LoopType
  <2> QED BY <1>6, <2>1, <2>2
<1>8. CASE EndData
  <2> DEFINE s == loop.s
             m == Uncork(net, s, <<>>).net
  <2>1. /\ loop.at \in {"data", "done"}
        /\ net' = IF s \in ending /\ m.buffer[s] = <<>> THEN Shutdown(m, s) ELSE m
        /\ loop' = LoopIdle
        /\ UNCHANGED <<upgraded, ending, frames>>
    BY <1>8 DEF EndData
  <2>2. s \in upgraded /\ s \in Sockets
    BY <1>0, <2>1 DEF CallbackSocket
  <2>3. Retains(m, s)
    BY <1>0, <2>2, UncorkRetains
  <2>4. s \in net.closed \/ s \notin net.shut
    BY <1>0 DEF ShutInv
  <2>5. net.corked \in {s, NoSocket}
    BY <1>0
  <2> HIDE DEF m, s
  <2>6. \/ net' = m
        \/ s \in ending /\ m.buffer[s] = <<>> /\ net' = Shutdown(m, s)
    BY <2>1
  <2> QED BY <2>1, <2>2, <2>3, <2>4, <2>5, <2>6, RetainsOrder
<1>9. ASSUME NEW s \in Sockets, OnWritable(s)
      PROVE  OrderInv'
  <2> DEFINE m == Write([net EXCEPT !.polling = @ \ {s}], s, <<>>).net
  <2>1. /\ loop = LoopIdle
        /\ s \in upgraded
        /\ s \notin net.shut
        /\ net' = IF s \in ending /\ Len(m.buffer[s]) = 0 THEN Shutdown(m, s) ELSE m
        /\ UNCHANGED <<upgraded, ending, loop, frames>>
    BY <1>9 DEF OnWritable
  <2>2. Retains(m, s)
    BY <1>0, <2>1, DrainingRetains
  <2> HIDE DEF m
  <2>3. Len(m.buffer[s]) = 0 => m.buffer[s] = <<>>
    <3>1. m.buffer[s] \in Seq(Byte)
      BY <2>2 DEF Retains, Elsewhere, Net
    <3> QED BY <3>1, EmptySeq
  <2>4. \/ net' = m
        \/ s \in ending /\ m.buffer[s] = <<>> /\ net' = Shutdown(m, s)
    BY <2>1, <2>3
  <2>5. net.corked \in {s, NoSocket} /\ loop' = LoopIdle
    BY <1>0, <2>1
  <2> QED BY <2>1, <2>2, <2>4, <2>5, RetainsOrder
<1>10. ASSUME NEW s \in Sockets, OnEnd(s) \/ OnTimeout(s)
       PROVE  OrderInv'
  <2>1. loop = LoopIdle /\ CloseSocket(s) /\ loop' = loop
    BY <1>10 DEF OnEnd, OnTimeout
  <2>2. loop'.s = loop.s /\ loop'.at = "idle"
    BY <2>1 DEF LoopIdle
  <2> QED BY <1>6, <2>1, <2>2
<1> QED BY <1>1, <1>2, <1>3, <1>4, <1>5, <1>7, <1>8, <1>9, <1>10 DEF Callback

\* So do the other steps.
LEMMA OthersKeepOrder ==
  ASSUME CallbacksFit, OrderInv, StreamInv',
         FrontThread \/ (\E s \in Sockets : PeerReads(s) \/ Elapse(s)) \/ UNCHANGED vars
  PROVE  OrderInv'
<1>0. /\ net \in Net
      /\ loop = LoopIdle => net.corked = NoSocket /\ net.cork = <<>>
      /\ conSet \cap (ending \cup net.closed) = {} /\ conSet \subseteq upgraded
      /\ upgraded \subseteq Sockets
      /\ frames \in [Sockets -> Seq(Frame)]
      /\ CorkHolds /\ ShutInv
      /\ Resting
  BY OrderFacts
<1>1. ASSUME NEW s \in Sockets, NEW size \in 1..MaxFrame, Broadcast(s, size)
      PROVE  OrderInv'
  <2>1. /\ loop = LoopIdle
        /\ s \in conSet
        /\ Send(s, size)
        /\ UNCHANGED <<upgraded, ending, loop>>
    BY <1>1 DEF Broadcast
  <2>2. s \in upgraded \ (net.closed \cup ending)
    BY <1>0, <2>1
  <2>3. s \notin net.shut
    BY <1>0, <2>2 DEF ShutInv
  <2>4. net.corked = NoSocket /\ Owned(net, s)
    <3>1. Len(<<>>) = 0 /\ CorkSize >= 0
      BY SizeAssumption
    <3> QED BY <1>0, <2>1, <3>1 DEF Owned
  <2>5. loop'.at = "idle" /\ loop'.s = loop.s
    BY <2>1 DEF LoopIdle
  <2> QED BY <2>1, <2>2, <2>3, <2>4, <2>5, SendKeepsOrder
<1>2. CASE FrontThread
  <2>1. ~Overlap /\ sender.at = "idle"
    BY <1>0 DEF CallbacksFit, Resting, SenderIdle
  <2> QED BY <1>1, <1>2, <2>1 DEF FrontThread, BeginSend, FormatSend, EndSend
<1>3. CASE (\E s \in Sockets : PeerReads(s) \/ Elapse(s)) \/ UNCHANGED vars
  <2>1. /\ net'.wire = net.wire /\ net'.buffer = net.buffer
        /\ net'.cork = net.cork /\ net'.corked = net.corked
        /\ net'.closed = net.closed /\ net'.shut = net.shut
        /\ UNCHANGED <<upgraded, ending, loop, frames>>
    BY <1>0, <1>3 DEF PeerReads, Elapse, Net, vars
  <2>2. \A t \in Sockets \ net'.closed : Line(net', t) = Line(net, t)
    BY <2>1 DEF Line, Out
  <2>3. CorkHolds' /\ ShutInv'
    BY <1>0, <2>1 DEF CorkHolds, ShutInv
  <2> QED BY <2>1, <2>2, <2>3, OrderStillStep
<1> QED BY <1>2, <1>3

\* The order holds at first.
LEMMA OrderInitially ==
  ASSUME Init
  PROVE  OrderInv
<1>1. StreamInv
  BY StreamsInitially
<1>2. CorkHolds /\ ShutInv
  BY DEF Init, NetInit, LoopIdle, CorkHolds, ShutInv
<1>3. ASSUME NEW s \in Sockets
      PROVE  Arranged(net, frames[s], s)
  <2>1. net.wire[s] = <<>> /\ net.buffer[s] = <<>> /\ net.corked # s /\ frames[s] = <<>>
    BY NoSocketAssumption DEF Init, NetInit
  <2>2. Line(net, s) = <<>>
    BY <2>1 DEF Line, Out
  <2> QED BY <2>1, <2>2 DEF Arranged, Ordered
<1> QED BY <1>1, <1>2, <1>3 DEF OrderInv

\* The invariant holds always.
THEOREM OrderInvariant ==
  ASSUME CallbacksFit
  PROVE  Spec => []OrderInv
<1>1. Init => OrderInv
  BY OrderInitially
<1>2. OrderInv /\ [Next]_vars => OrderInv'
  <2> SUFFICES ASSUME OrderInv, [Next]_vars
               PROVE  OrderInv'
    OBVIOUS
  <2>1. StreamInv'
    BY SizesFit, StreamsInductive DEF OrderInv
  <2> QED BY <2>1, CallbackKeepsOrder, OthersKeepOrder DEF Next
<1> QED BY <1>1, <1>2, PTL DEF Spec

\* Frames reach a peer in the order in which they were sent, through the cork
\* buffer, the kernel and the socket's buffer (AsyncSocket.h:138-255), however
\* many there are, if those of each callback fit into the cork buffer and no
\* send of the front thread overlaps a callback.
THEOREM FramesInOrderCorrect ==
  ASSUME CallbacksFit
  PROVE  Spec => []FramesInOrder
<1>1. OrderInv => FramesInOrder
  <2> SUFFICES ASSUME OrderInv, NEW s \in upgraded \ net.closed
               PROVE  \A i \in 1..(Len(Stream(s)) - 1) :
                         \/ Joined(s, Stream(s)[i], Stream(s)[i + 1])
                         \/ Stream(s)[i][2] < Stream(s)[i + 1][2]
    BY DEF FramesInOrder
  <2>1. Arranged(net, frames[s], s) /\ Stream(s) = Line(net, s)
    BY OrderFacts, StreamIsLine
  <2> QED BY <2>1 DEF Arranged, Ordered
<1> QED BY <1>1, OrderInvariant, PTL

\* A frame that is not skipped is sent or buffered (WebSocket.h:59-125), if
\* the frames of each callback fit into the cork buffer and no send of the
\* front thread overlaps a callback.
THEOREM EveryFrameKeptCorrect ==
  ASSUME CallbacksFit
  PROVE  Spec => []EveryFrameKept
<1>1. OrderInv => EveryFrameKept
  <2> SUFFICES ASSUME OrderInv, NEW s \in upgraded \ net.closed, NEW f \in DOMAIN frames[s]
               PROVE  Kept(s, f)
    BY DEF EveryFrameKept
  <2>1. Arranged(net, frames[s], s) /\ Stream(s) = Line(net, s)
    BY OrderFacts, StreamIsLine
  <2> QED BY <2>1 DEF Arranged, Has, Kept
<1> QED BY <1>1, OrderInvariant, PTL

\* No byte is left behind the FIN, be it sent at the end of on_data or of
\* on_writable (WebSocketContext.h:287-297, 303-345), if the frames of each
\* callback fit into the cork buffer, so that it stays corked until it ends,
\* and no send of the front thread overlaps a callback.
THEOREM FinComesLastCorrect ==
  ASSUME CallbacksFit
  PROVE  Spec => []FinComesLast
<1>1. OrderInv => FinComesLast
  <2> SUFFICES ASSUME OrderInv, NEW s \in net.shut \ net.closed
               PROVE  s \in ending /\ Stream(s) = net.wire[s]
    BY DEF FinComesLast
  <2>1. s \in Sockets /\ net \in Net
    BY OrderFacts DEF Net
  <2>2. s \in ending /\ loop.s # s /\ net.buffer[s] = <<>>
    BY OrderFacts DEF ShutInv
  <2>3. net.corked # s
    BY <2>1, <2>2, OrderFacts, NoSocketAssumption
  <2>4. net.wire[s] \in Seq(Byte)
    BY <2>1 DEF Net
  <2>5. Stream(s) = net.wire[s]
    BY <2>2, <2>3, <2>4, ConcatEmptySeq DEF Stream
  <2> QED BY <2>2, <2>5
<1> QED BY <1>1, OrderInvariant, PTL

=============================================================================
