--------------------------- MODULE WebSocketsProofs ---------------------------
(***************************************************************************)
(* Theorems about WebSockets, for every set of sockets, every size and     *)
(* both ways the sends of the front thread may meet the callbacks.         *)
(***************************************************************************)
EXTENDS WebSockets, SequenceTheorems, TLAPS

-----------------------------------------------------------------------------
(* What the write path may do to the sockets of a loop.                    *)

\* A socket with a buffer that can still be written to is polled.
Waits(n, s) == s \notin n.closed \cup n.shut /\ n.buffer[s] # <<>> => s \in n.polling

\* From n to m only socket s was written to.
Touched(n, m, s) ==
    /\ m \in Net
    /\ m.closed = n.closed
    /\ m.shut = n.shut
    /\ n.polling \subseteq m.polling
    /\ \A t \in Sockets \ {s} : m.buffer[t] = n.buffer[t]

\* A part of the bytes.
LEMMA Parts ==
  ASSUME NEW S, NEW b \in Seq(S), NEW k \in 0..Len(b)
  PROVE  /\ SubSeq(b, 1, k) \in Seq(S)
         /\ SubSeq(b, k + 1, Len(b)) \in Seq(S)
         /\ SubSeq(b, k + 1, Len(b)) = <<>> <=> k = Len(b)
<1>1. Len(b) \in Nat /\ k \in Nat /\ \A i \in 1..Len(b) : b[i] \in S
  OBVIOUS
<1>2. SubSeq(b, 1, k) \in Seq(S)
  BY <1>1, SubSeqProperties
<1>3. /\ SubSeq(b, k + 1, Len(b)) \in Seq(S)
      /\ Len(SubSeq(b, k + 1, Len(b))) = Len(b) - k
  <2>1. k + 1 \in Int /\ Len(b) \in Int /\ \A i \in (k + 1)..Len(b) : b[i] \in S
    BY <1>1
  <2> QED BY <1>1, <2>1, SubSeqProperties
<1>4. SubSeq(b, k + 1, Len(b)) = <<>> <=> Len(b) - k = 0
  <2> DEFINE x == SubSeq(b, k + 1, Len(b))
  <2>1. x \in Seq(S) /\ Len(x) = Len(b) - k
    BY <1>3
  <2> HIDE DEF x
  <2>2. x = <<>> <=> Len(b) - k = 0
    BY <2>1
  <2> QED BY <2>2 DEF x
<1> QED BY <1>1, <1>2, <1>3, <1>4

\* The kernel takes no more than it is given and has room for.
LEMMA TakenType ==
  ASSUME NEW n \in Net, NEW s \in Sockets, NEW b \in Seq(Byte)
  PROVE  Taken(n, s, b) \in 0..Len(b) /\ n.room[s] - Taken(n, s, b) \in 0..RoomSize
<1>1. n.room[s] \in 0..RoomSize /\ Len(b) \in Nat
  BY DEF Net
<1> QED BY <1>1, SizeAssumption DEF Taken, Smaller

\* A system call leaves the buffers alone and polls if it falls short.
LEMMA SysWriteNet ==
  ASSUME NEW n \in Net, NEW s \in Sockets, NEW b \in Seq(Byte)
  PROVE  /\ SysWrite(n, s, b) \in Net
         /\ SysWrite(n, s, b).buffer = n.buffer
         /\ SysWrite(n, s, b).cork = n.cork
         /\ SysWrite(n, s, b).corked = n.corked
         /\ Touched(n, SysWrite(n, s, b), s)
         /\ Remaining(n, s, b) \in Seq(Byte)
         /\ Remaining(n, s, b) # <<>> /\ s \notin n.shut => s \in SysWrite(n, s, b).polling
<1> DEFINE k == Taken(n, s, b)
<1>1. k \in 0..Len(b) /\ n.room[s] - k \in 0..RoomSize
  BY TakenType
<1>2. /\ SubSeq(b, 1, k) \in Seq(Byte)
      /\ Remaining(n, s, b) \in Seq(Byte)
      /\ Remaining(n, s, b) = <<>> <=> k = Len(b)
  <2> HIDE DEF k
  <2>1. /\ SubSeq(b, 1, k) \in Seq(Byte)
        /\ SubSeq(b, k + 1, Len(b)) \in Seq(Byte)
        /\ SubSeq(b, k + 1, Len(b)) = <<>> <=> k = Len(b)
    BY <1>1, Parts
  <2> QED BY <2>1 DEF Remaining, k
<1> DEFINE w == n.wire[s] \o SubSeq(b, 1, k)
           p == IF k < Len(b) /\ s \notin n.shut THEN n.polling \cup {s} ELSE n.polling
           m == [n EXCEPT !.wire[s] = w, !.room[s] = n.room[s] - k, !.polling = p]
<1>3. SysWrite(n, s, b) = m
  BY DEF SysWrite, Net
<1>4. w \in Seq(Byte) /\ p \in SUBSET Sockets /\ n.polling \subseteq p
  BY <1>2 DEF Net
<1>5. k < Len(b) /\ s \notin n.shut => s \in p
  OBVIOUS
<1>6. k # Len(b) => k < Len(b)
  BY <1>1
<1>7. m \in Net /\ m.buffer = n.buffer /\ m.cork = n.cork /\ m.corked = n.corked
      /\ m.closed = n.closed /\ m.shut = n.shut /\ m.polling = p
  <2> HIDE DEF w, p, k
  <2> QED BY <1>1, <1>4 DEF Net
<1> HIDE DEF m, w, p, k
<1> QED BY <1>2, <1>3, <1>4, <1>5, <1>6, <1>7 DEF Touched

\* What holds of two writes to a socket holds of both together.
LEMMA TouchedTwice ==
  ASSUME NEW n, NEW m, NEW o, NEW s, Touched(n, m, s), Touched(m, o, s)
  PROVE  Touched(n, o, s)
BY DEF Touched

\* A buffer may be replaced if it is polled for.
LEMMA BufferNet ==
  ASSUME NEW n \in Net, NEW s \in Sockets, NEW b \in Seq(Byte)
  PROVE  /\ Touched(n, [n EXCEPT !.buffer[s] = b], s)
         /\ s \in n.closed \cup n.shut \cup n.polling \/ b = <<>>
              => Waits([n EXCEPT !.buffer[s] = b], s)
BY DEF Net, Touched, Waits

\* Draining keeps what is left and polls for it.
LEMMA DrainNet ==
  ASSUME NEW n \in Net, NEW s \in Sockets
  PROVE  /\ Touched(n, Drain(n, s), s)
         /\ Waits(Drain(n, s), s)
         /\ Drain(n, s).cork = n.cork
         /\ Drain(n, s).corked = n.corked
<1> DEFINE b == n.buffer[s]
           m == SysWrite(n, s, b)
           r == Remaining(n, s, b)
<1>1. b \in Seq(Byte)
  BY DEF Net
<1>2. /\ m \in Net
      /\ m.buffer = n.buffer
      /\ m.cork = n.cork
      /\ m.corked = n.corked
      /\ Touched(n, m, s)
      /\ r \in Seq(Byte)
      /\ r # <<>> /\ s \notin n.shut => s \in m.polling
  <2> HIDE DEF b
  <2> QED BY <1>1, SysWriteNet
<1>3. Drain(n, s) = [m EXCEPT !.buffer[s] = r]
  BY DEF Drain
<1> HIDE DEF b, m, r
<1> QED BY <1>2, <1>3 DEF Net, Touched, Waits

\* The same of a write that goes past an empty buffer.
LEMMA WriteThroughNet ==
  ASSUME NEW n \in Net, NEW s \in Sockets, NEW src \in Seq(Byte)
  PROVE  /\ Touched(n, WriteThrough(n, s, src).net, s)
         /\ Waits(n, s) => Waits(WriteThrough(n, s, src).net, s)
         /\ WriteThrough(n, s, src).failed \in BOOLEAN
<1> DEFINE m == SysWrite(n, s, src)
           r == Remaining(n, s, src)
<1>1. /\ m \in Net
      /\ m.buffer = n.buffer
      /\ Touched(n, m, s)
      /\ r \in Seq(Byte)
      /\ r # <<>> /\ s \notin n.shut => s \in m.polling
  BY SysWriteNet
<1>2. CASE r = <<>>
  <2>1. WriteThrough(n, s, src) = [net |-> m, failed |-> FALSE]
    BY <1>2 DEF WriteThrough, Done
  <2> HIDE DEF m, r
  <2> QED BY <1>1, <2>1 DEF Touched, Waits
<1>3. CASE r # <<>>
  <2> DEFINE b == m.buffer[s] \o r
  <2>1. WriteThrough(n, s, src) = [net |-> [m EXCEPT !.buffer[s] = b], failed |-> TRUE]
    BY <1>3 DEF WriteThrough, Failed
  <2> HIDE DEF m, r
  <2>2. b \in Seq(Byte)
    BY <1>1 DEF Net
  <2> HIDE DEF b
  <2>3. s \in m.closed \cup m.shut \cup m.polling
    BY <1>1, <1>3 DEF Touched
  <2>4. Touched(m, [m EXCEPT !.buffer[s] = b], s) /\ Waits([m EXCEPT !.buffer[s] = b], s)
    BY <1>1, <2>2, <2>3, BufferNet
  <2>5. Touched(n, [m EXCEPT !.buffer[s] = b], s)
    BY <1>1, <2>4, TouchedTwice
  <2> QED BY <2>1, <2>4, <2>5
<1> QED BY <1>2, <1>3

\* A write on a socket that is not corked leaves nothing unpolled.
LEMMA WriteUncorkedNet ==
  ASSUME NEW n \in Net, NEW s \in Sockets, NEW src \in Seq(Byte)
  PROVE  /\ Touched(n, WriteUncorked(n, s, src).net, s)
         /\ Waits(WriteUncorked(n, s, src).net, s)
         /\ WriteUncorked(n, s, src).failed \in BOOLEAN
<1> DEFINE d == Drain(n, s)
<1>1. d \in Net /\ Touched(n, d, s) /\ Waits(d, s)
  BY DrainNet DEF Touched
<1>2. CASE s \in n.closed
  BY <1>2 DEF WriteUncorked, Done, Touched, Waits
<1>3. CASE s \notin n.closed /\ d.buffer[s] # <<>>
  <2> DEFINE b == d.buffer[s] \o src
  <2>1. WriteUncorked(n, s, src) = [net |-> [d EXCEPT !.buffer[s] = b], failed |-> TRUE]
    BY <1>3 DEF WriteUncorked, Failed
  <2> HIDE DEF d
  <2>2. b \in Seq(Byte)
    BY <1>1 DEF Net
  <2> HIDE DEF b
  <2>3. s \in d.closed \cup d.shut \cup d.polling
    BY <1>1, <1>3 DEF Waits
  <2>4. Touched(d, [d EXCEPT !.buffer[s] = b], s) /\ Waits([d EXCEPT !.buffer[s] = b], s)
    BY <1>1, <2>2, <2>3, BufferNet
  <2>5. Touched(n, [d EXCEPT !.buffer[s] = b], s)
    BY <1>1, <2>4, TouchedTwice
  <2> QED BY <2>1, <2>4, <2>5
<1>4. CASE s \notin n.closed /\ d.buffer[s] = <<>>
  <2>1. WriteUncorked(n, s, src) = WriteThrough(d, s, src)
    BY <1>4 DEF WriteUncorked
  <2> HIDE DEF d
  <2> QED BY <1>1, <2>1, WriteThroughNet, TouchedTwice
<1> QED BY <1>2, <1>3, <1>4

\* Changes of the cork buffer concern no socket.
LEMMA CorkNet ==
  ASSUME NEW n \in Net, NEW s \in Sockets, NEW c \in Sockets \cup {NoSocket}, NEW b \in Seq(Byte)
  PROVE  /\ Touched(n, [n EXCEPT !.corked = c], s)
         /\ Waits(n, s) => Waits([n EXCEPT !.corked = c], s)
         /\ Touched(n, [n EXCEPT !.cork = b], s)
         /\ Waits(n, s) => Waits([n EXCEPT !.cork = b], s)
BY DEF Net, Touched, Waits

\* Uncorking leaves nothing unpolled that was polled before.
LEMMA UncorkNet ==
  ASSUME NEW n \in Net, NEW s \in Sockets, NEW src \in Seq(Byte)
  PROVE  /\ Touched(n, Uncork(n, s, src).net, s)
         /\ Waits(n, s) => Waits(Uncork(n, s, src).net, s)
         /\ Uncork(n, s, src).failed \in BOOLEAN
<1> DEFINE m == [n EXCEPT !.corked = NoSocket]
           f == WriteUncorked(m, s, n.cork)
           e == [f.net EXCEPT !.cork = <<>>]
<1>1. CASE n.corked # s
  BY <1>1 DEF Uncork, Done, Touched
<1>2. CASE n.corked = s
  <2>1. m \in Net /\ Touched(n, m, s) /\ n.cork \in Seq(Byte) /\ <<>> \in Seq(Byte)
    <3>1. n.cork \in Seq(Byte) /\ <<>> \in Seq(Byte)
      BY DEF Net
    <3>2. Touched(n, m, s)
      BY <3>1, CorkNet
    <3> QED BY <3>1, <3>2 DEF Touched
  <2>2. Touched(m, f.net, s) /\ Waits(f.net, s) /\ f.net \in Net
    <3> HIDE DEF m
    <3> QED BY <2>1, WriteUncorkedNet DEF Touched
  <2>3. Touched(f.net, e, s) /\ Waits(e, s) /\ e \in Net
    <3> DEFINE g == f.net
    <3>1. g \in Net /\ Waits(g, s) /\ e = [g EXCEPT !.cork = <<>>]
      BY <2>2
    <3> HIDE DEF g, e
    <3>2. /\ Touched(g, [g EXCEPT !.cork = <<>>], s)
          /\ Waits(g, s) => Waits([g EXCEPT !.cork = <<>>], s)
      BY <2>1, <3>1, CorkNet
    <3>3. Touched(g, e, s) /\ Waits(e, s)
      BY <3>1, <3>2
    <3>4. e \in Net
      BY <3>3 DEF Touched
    <3> QED BY <3>3, <3>4 DEF g
  <2>4. Touched(n, e, s)
    BY <2>1, <2>2, <2>3, TouchedTwice
  <2> DEFINE w == WriteUncorked(e, s, src)
  <2>5. \/ Uncork(n, s, src) = [net |-> e, failed |-> TRUE]
        \/ Uncork(n, s, src) = w
    BY <1>2 DEF Uncork, Failed
  <2> HIDE DEF e
  <2>6. /\ Touched(e, WriteUncorked(e, s, src).net, s)
        /\ Waits(WriteUncorked(e, s, src).net, s)
        /\ WriteUncorked(e, s, src).failed \in BOOLEAN
    BY <2>3, WriteUncorkedNet
  <2>7. Touched(n, w.net, s)
    BY <2>4, <2>6, TouchedTwice
  <2> HIDE DEF w
  <2>8. CASE Uncork(n, s, src) = [net |-> e, failed |-> TRUE]
    BY <2>3, <2>4, <2>8
  <2>9. CASE Uncork(n, s, src) = w
    BY <2>6, <2>7, <2>9 DEF w
  <2> QED BY <2>5, <2>8, <2>9
<1> QED BY <1>1, <1>2

\* write leaves nothing unpolled, corked or not.
LEMMA WriteNet ==
  ASSUME NEW n \in Net, NEW s \in Sockets, NEW src \in Seq(Byte)
  PROVE  /\ Touched(n, Write(n, s, src).net, s)
         /\ Waits(Write(n, s, src).net, s)
         /\ Write(n, s, src).failed \in BOOLEAN
<1> DEFINE d == Drain(n, s)
           c == d.cork \o src
           e == [d EXCEPT !.cork = c]
           u == WriteUncorked(n, s, src)
           v == Uncork(d, s, src)
<1>1. d \in Net /\ Touched(n, d, s) /\ Waits(d, s) /\ d.cork = n.cork
  BY DrainNet DEF Touched
<1>2. \/ Write(n, s, src) = u
      \/ Write(n, s, src) = [net |-> e, failed |-> FALSE]
      \/ Write(n, s, src) = v
  BY <1>1 DEF Write, Done
<1>3. Touched(n, u.net, s) /\ Waits(u.net, s) /\ u.failed \in BOOLEAN
  BY WriteUncorkedNet
<1> HIDE DEF d, u
<1>4. Touched(n, e, s) /\ Waits(e, s)
  <2>1. c \in Seq(Byte)
    BY <1>1 DEF Net
  <2> HIDE DEF c
  <2>2. NoSocket \in Sockets \cup {NoSocket}
    OBVIOUS
  <2>3. Touched(d, e, s) /\ Waits(e, s)
    BY <1>1, <2>1, <2>2, CorkNet
  <2> QED BY <1>1, <2>3, TouchedTwice
<1>5. Touched(n, v.net, s) /\ Waits(v.net, s) /\ v.failed \in BOOLEAN
  <2>1. Touched(d, v.net, s) /\ Waits(v.net, s) /\ v.failed \in BOOLEAN
    BY <1>1, UncorkNet
  <2> QED BY <1>1, <2>1, TouchedTwice
<1> HIDE DEF e, v
<1>6. CASE Write(n, s, src) = u
  BY <1>3, <1>6
<1>7. CASE Write(n, s, src) = [net |-> e, failed |-> FALSE]
  BY <1>4, <1>7
<1>8. CASE Write(n, s, src) = v
  BY <1>5, <1>8
<1> QED BY <1>2, <1>6, <1>7, <1>8

\* A frame is formatted into the cork buffer or written.
LEMMA FormatNet ==
  ASSUME NEW n \in Net, NEW s \in Sockets, NEW frame \in Seq(Byte)
  PROVE  /\ Touched(n, Format(n, s, frame).net, s)
         /\ Waits(n, s) => Waits(Format(n, s, frame).net, s)
         /\ Format(n, s, frame).failed \in BOOLEAN
<1> DEFINE c == n.cork \o frame
           e == [n EXCEPT !.cork = c]
           w == Write(n, s, frame)
<1>1. \/ Format(n, s, frame) = [net |-> e, failed |-> FALSE]
      \/ Format(n, s, frame) = w
  BY DEF Format, Done
<1>2. Touched(n, e, s) /\ (Waits(n, s) => Waits(e, s))
  <2>1. c \in Seq(Byte) /\ NoSocket \in Sockets \cup {NoSocket}
    BY DEF Net
  <2> HIDE DEF c
  <2> QED BY <2>1, CorkNet
<1>3. Touched(n, w.net, s) /\ Waits(w.net, s) /\ w.failed \in BOOLEAN
  BY WriteNet
<1> HIDE DEF e, w
<1>4. CASE Format(n, s, frame) = [net |-> e, failed |-> FALSE]
  BY <1>2, <1>4
<1>5. CASE Format(n, s, frame) = w
  BY <1>3, <1>5
<1> QED BY <1>1, <1>4, <1>5

\* Corking a socket.
LEMMA CorkedNet ==
  ASSUME NEW n \in Net, NEW s \in Sockets
  PROVE  Touched(n, Cork(n, s), s) /\ (Waits(n, s) => Waits(Cork(n, s), s))
BY DEF Cork, Net, Touched, Waits

\* So with a whole send.
LEMMA SendFrameNet ==
  ASSUME NEW n \in Net, NEW s \in Sockets, NEW frame \in Seq(Byte)
  PROVE  /\ Touched(n, SendFrame(n, s, frame).net, s)
         /\ Waits(n, s) => Waits(SendFrame(n, s, frame).net, s)
         /\ SendFrame(n, s, frame).failed \in BOOLEAN
<1> DEFINE m == IF n.corked = NoSocket THEN Cork(n, s) ELSE n
           f == Format(m, s, frame)
           u == Uncork(f.net, s, <<>>)
<1>1. m \in Net /\ Touched(n, m, s) /\ (Waits(n, s) => Waits(m, s))
  BY CorkedNet DEF Touched
<1>2. SendFrame(n, s, frame) = u \/ SendFrame(n, s, frame) = f
  BY DEF SendFrame
<1> HIDE DEF m
<1>3. /\ Touched(m, f.net, s)
      /\ Waits(m, s) => Waits(f.net, s)
      /\ f.failed \in BOOLEAN
      /\ f.net \in Net
  BY <1>1, FormatNet DEF Touched
<1>4. Touched(n, f.net, s)
  BY <1>1, <1>3, TouchedTwice
<1> HIDE DEF f
<1>5. /\ Touched(f.net, u.net, s)
      /\ Waits(f.net, s) => Waits(u.net, s)
      /\ u.failed \in BOOLEAN
  <2>1. <<>> \in Seq(Byte)
    OBVIOUS
  <2> QED BY <1>3, <2>1, UncorkNet
<1>6. Touched(n, u.net, s)
  BY <1>4, <1>5, TouchedTwice
<1> HIDE DEF u
<1> QED BY <1>1, <1>2, <1>3, <1>4, <1>5, <1>6

\* Shutting a socket down, or closing it, ends waiting for it only.
LEMMA ShutdownNet ==
  ASSUME NEW n \in Net, NEW s \in Sockets, \A t \in Sockets : Waits(n, t)
  PROVE  /\ Shutdown(n, s) \in Net
         /\ Shutdown(n, s).closed = n.closed
         /\ \A t \in Sockets : Waits(Shutdown(n, s), t)
         /\ Close(n, s) \in Net
         /\ Close(n, s).closed = n.closed \cup {s}
         /\ \A t \in Sockets : Waits(Close(n, s), t)
<1>1. /\ Shutdown(n, s) \in Net
      /\ Shutdown(n, s).closed = n.closed
      /\ \A t \in Sockets : Waits(Shutdown(n, s), t)
  <2>1. CASE s \in n.closed
    BY <2>1 DEF Shutdown
  <2>2. CASE s \notin n.closed
    BY <2>2 DEF Shutdown, Net, Waits
  <2> QED BY <2>1, <2>2
<1>2. /\ Close(n, s) \in Net
      /\ Close(n, s).closed = n.closed \cup {s}
      /\ \A t \in Sockets : Waits(Close(n, s), t)
  BY DEF Close, Net, Waits
<1> QED BY <1>1, <1>2

\* After a write to one socket that is polled for, all are.
LEMMA AllWait ==
  ASSUME NEW n, NEW m, NEW s \in Sockets, Touched(n, m, s), Waits(m, s),
         \A t \in Sockets : Waits(n, t)
  PROVE  m \in Net /\ m.closed = n.closed /\ \A t \in Sockets : Waits(m, t)
<1>1. ASSUME NEW t \in Sockets, t # s
      PROVE  Waits(m, t)
  BY <1>1 DEF Touched, Waits
<1> QED BY <1>1 DEF Touched

-----------------------------------------------------------------------------
(* The inductive invariant: types, the socket each thread is at, and the   *)
(* two properties.                                                         *)

LoopType == [at: {"idle", "opening", "data", "done"}, s: Sockets \cup {NoSocket},
             replies: 0..MaxReplies]

SenderType == [at: {"idle", "format", "uncork"}, s: Sockets \cup {NoSocket},
               size: 1..MaxFrame, auto: BOOLEAN]

\* A callback is for a websocket; one that reads data, for an open one.
CallbackSocket ==
    /\ loop.at # "idle" => loop.s \in upgraded
    /\ loop.at = "data" => loop.s \notin ending \cup net.closed
    /\ sender.at # "idle" => sender.s \in Sockets

EndingUpgraded == ending \subseteq upgraded

AllPolled == \A s \in Sockets : Waits(net, s)

SocketsInv ==
    /\ TypeOK
    /\ CallbackSocket
    /\ EndingUpgraded
    /\ AllPolled
    /\ CloseEventOnce

\* Frames are sequences of bytes.
LEMMA NewFrameType ==
  ASSUME TypeOK, NEW s \in Sockets, NEW size \in 1..MaxFrame
  PROVE  NewFrame(s, size) \in Seq(Byte) /\ 1 \in 1..MaxFrame
<1>1. size \in Nat /\ MaxFrame \in Nat /\ MaxFrame >= 1
  BY FrameAssumption
<1>2. Len(frames[s]) + 1 \in Nat
  BY DEF TypeOK
<1>3. \A i \in 1..size : <<s, Len(frames[s]) + 1, i>> \in Byte
  BY <1>1, <1>2 DEF Byte
<1> DEFINE b == [i \in 1..size |-> <<s, Len(frames[s]) + 1, i>>]
<1>4. b \in [1..size -> Byte]
  BY <1>3
<1>5. b \in Seq(Byte)
  <2> HIDE DEF b
  <2> QED BY <1>1, <1>4
<1> QED BY <1>1, <1>5 DEF NewFrame

\* The history of frames keeps its type.
LEMMA RecordType ==
  ASSUME TypeOK, NEW s \in Sockets, NEW size \in 1..MaxFrame, NEW ok \in BOOLEAN,
         Record(s, size, ok)
  PROVE  frames' \in [Sockets -> Seq(Frame)]
<1> DEFINE f == [size |-> size, ok |-> ok]
<1>1. f \in Frame
  BY DEF Frame
<1>2. frames \in [Sockets -> Seq(Frame)] /\ frames' = [frames EXCEPT ![s] = Append(@, f)]
  BY DEF TypeOK, Record
<1> HIDE DEF f
<1>3. Append(frames[s], f) \in Seq(Frame)
  BY <1>1, <1>2
<1> QED BY <1>2, <1>3

\* A step that leaves the set of open connections alone keeps the invariant
\* if it keeps types and polls for what it buffers.
LEMMA QuietStep ==
  ASSUME SocketsInv,
         net' \in Net, net'.closed = net.closed, \A t \in Sockets : Waits(net', t),
         UNCHANGED <<upgraded, ending, conSet, closes>>,
         overdue' \in SUBSET Sockets, frames' \in [Sockets -> Seq(Frame)],
         loop' \in LoopType, sender' \in SenderType, CallbackSocket'
  PROVE  SocketsInv'
<1>1. TypeOK'
  BY DEF SocketsInv, TypeOK, LoopType, SenderType
<1>2. CloseEventOnce'
  BY DEF SocketsInv, CloseEventOnce
<1>3. EndingUpgraded' /\ AllPolled'
  BY DEF SocketsInv, EndingUpgraded, AllPolled
<1> QED BY <1>1, <1>2, <1>3 DEF SocketsInv

\* What a send does.
LEMMA SendStep ==
  ASSUME SocketsInv, NEW s \in Sockets, NEW size \in 1..MaxFrame, Send(s, size)
  PROVE  /\ net' \in Net
         /\ net'.closed = net.closed
         /\ \A t \in Sockets : Waits(net', t)
         /\ overdue' \in SUBSET Sockets
         /\ frames' \in [Sockets -> Seq(Frame)]
<1>1. TypeOK /\ net \in Net /\ \A t \in Sockets : Waits(net, t)
  BY DEF SocketsInv, TypeOK, AllPolled
<1>2. CASE Skips(s)
  BY <1>1, <1>2 DEF Send, TypeOK
<1>3. CASE ~Skips(s)
  <2> DEFINE r == SendFrame(net, s, NewFrame(s, size))
  <2>1. Touched(net, r.net, s) /\ Waits(r.net, s) /\ r.failed \in BOOLEAN
    BY <1>1, NewFrameType, SendFrameNet
  <2>2. /\ net' = r.net
        /\ Record(s, size, ~r.failed)
        /\ overdue' = IF r.failed THEN overdue ELSE overdue \ {s}
    BY <1>3 DEF Send
  <2> HIDE DEF r
  <2>3. frames' \in [Sockets -> Seq(Frame)]
    BY <1>1, <2>1, <2>2, RecordType
  <2>4. overdue' \in SUBSET Sockets
    BY <1>1, <2>2 DEF TypeOK
  <2> QED BY <1>1, <2>1, <2>2, <2>3, <2>4, AllWait
<1> QED BY <1>2, <1>3

\* The close handler of a socket whose callback is not under way, or is over
\* with it.
LEMMA CloseStep ==
  ASSUME SocketsInv, NEW s \in Sockets, s \notin net.closed, CloseSocket(s),
         loop' \in LoopType, loop'.at # "data", loop'.at # "idle" => loop'.s \in upgraded
  PROVE  SocketsInv'
<1>1. /\ TypeOK
      /\ net \in Net
      /\ \A t \in Sockets : Waits(net, t)
  BY DEF SocketsInv, AllPolled, TypeOK
<1>2. /\ net' \in Net
      /\ net'.closed = net.closed \cup {s}
      /\ \A t \in Sockets : Waits(net', t)
  BY <1>1, ShutdownNet DEF CloseSocket
<1>3. CloseEventOnce'
  <2>1. CASE s \in upgraded \ ending
    <3>1. /\ conSet' = conSet \ {s}
          /\ closes' = [closes EXCEPT ![s] = @ + 1]
          /\ UNCHANGED <<upgraded, ending>>
      BY <2>1 DEF CloseSocket, CloseEvent
    <3>2. closes[s] = 0
      BY <2>1 DEF SocketsInv, CloseEventOnce
    <3>3. closes \in [Sockets -> Nat]
      BY <1>1 DEF TypeOK
    <3> QED BY <1>2, <2>1, <3>1, <3>2, <3>3 DEF SocketsInv, CloseEventOnce
  <2>2. CASE s \notin upgraded \ ending
    <3>1. UNCHANGED <<conSet, closes, upgraded, ending>>
      BY <2>2 DEF CloseSocket
    <3> QED BY <1>2, <2>2, <3>1 DEF SocketsInv, CloseEventOnce
  <2> QED BY <2>1, <2>2
<1>4. TypeOK'
  <2>1. conSet' \in SUBSET Sockets /\ closes' \in [Sockets -> Nat]
    <3>1. \/ conSet' = conSet \ {s} /\ closes' = [closes EXCEPT ![s] = closes[s] + 1]
          \/ UNCHANGED <<conSet, closes>>
      BY DEF CloseSocket, CloseEvent
    <3>2. conSet \in SUBSET Sockets /\ closes \in [Sockets -> Nat] /\ closes[s] + 1 \in Nat
      BY <1>1 DEF TypeOK
    <3> QED BY <3>1, <3>2
  <2> QED BY <1>1, <1>2, <2>1 DEF CloseSocket, TypeOK, LoopType
<1>5. CallbackSocket' /\ EndingUpgraded' /\ AllPolled'
  BY <1>2 DEF CloseSocket, SocketsInv, CallbackSocket, EndingUpgraded, AllPolled
<1> QED BY <1>3, <1>4, <1>5 DEF SocketsInv

\* A callback that has sent nothing yet.
LEMMA NoReplies ==
  0 \in 0..MaxReplies /\ LoopIdle \in LoopType
<1>1. 0 \in 0..MaxReplies
  BY FrameAssumption
<1> QED BY <1>1 DEF LoopIdle, LoopType

\* The callbacks of the loop keep the invariant.
LEMMA CallbackInductive ==
  ASSUME SocketsInv, Callback
  PROVE  SocketsInv'
<1>0. /\ TypeOK
      /\ net \in Net
      /\ \A t \in Sockets : Waits(net, t)
      /\ loop \in LoopType
      /\ sender \in SenderType
  BY DEF SocketsInv, AllPolled, TypeOK, LoopType, SenderType
<1>1. ASSUME NEW s \in Sockets, Upgrade(s)
      PROVE  SocketsInv'
  <2> DEFINE m == Cork(net, s)
             r == Write(m, s, NewFrame(s, 1))
  <2>1. m \in Net /\ Touched(net, m, s)
    BY <1>0, CorkedNet DEF Touched
  <2>2. NewFrame(s, 1) \in Seq(Byte) /\ 1 \in 1..MaxFrame
    BY <1>0, FrameAssumption, NewFrameType
  <2> HIDE DEF m
  <2>3. Touched(m, r.net, s) /\ Waits(r.net, s) /\ r.failed \in BOOLEAN
    BY <2>1, <2>2, WriteNet
  <2>4. Touched(net, r.net, s)
    BY <2>1, <2>3, TouchedTwice
  <2>5. net' = r.net /\ Record(s, 1, ~r.failed)
    BY <1>1 DEF Upgrade, m
  <2> HIDE DEF r
  <2>6. /\ net' \in Net
        /\ net'.closed = net.closed
        /\ \A t \in Sockets : Waits(net', t)
    BY <1>0, <2>3, <2>4, <2>5, AllWait
  <2>7. frames' \in [Sockets -> Seq(Frame)]
    BY <1>0, <2>2, <2>3, <2>5, RecordType
  <2>8. /\ s \notin upgraded \cup net.closed
        /\ upgraded' = upgraded \cup {s}
        /\ conSet' = conSet \cup {s}
        /\ overdue' = overdue \ {s}
        /\ loop' = [at |-> "opening", s |-> s, replies |-> 0]
        /\ UNCHANGED <<ending, sender, closes>>
    BY <1>1 DEF Upgrade
  <2>9. TypeOK'
    BY <1>0, <2>6, <2>7, <2>8, NoReplies DEF TypeOK
  <2>10. CloseEventOnce'
    BY <2>6, <2>8 DEF SocketsInv, CloseEventOnce, EndingUpgraded
  <2>11. CallbackSocket' /\ EndingUpgraded' /\ AllPolled'
    BY <2>6, <2>8 DEF SocketsInv, CallbackSocket, EndingUpgraded, AllPolled
  <2> QED BY <2>9, <2>10, <2>11 DEF SocketsInv
<1>2. ASSUME NEW size \in 1..MaxFrame, Greet(size)
      PROVE  SocketsInv'
  <2>1. loop.s \in Sockets /\ Send(loop.s, size) /\ loop.s \in upgraded
    BY <1>0, <1>2 DEF Greet, SocketsInv, CallbackSocket, TypeOK
  <2>2. /\ loop' \in LoopType
        /\ sender' \in SenderType
        /\ CallbackSocket'
        /\ UNCHANGED <<upgraded, ending, conSet, closes>>
    BY <1>0, <1>2, <2>1 DEF Greet, LoopType, SocketsInv, CallbackSocket
  <2> QED BY <2>1, <2>2, SendStep, QuietStep
<1>3. ASSUME NEW s \in Sockets, OnData(s)
      PROVE  SocketsInv'
  <2>1. /\ s \in upgraded \ (ending \cup net.closed)
        /\ net' = Cork(net, s)
        /\ overdue' = overdue \ {s}
        /\ loop' = [at |-> "data", s |-> s, replies |-> 0]
        /\ UNCHANGED <<upgraded, ending, conSet, sender, frames, closes>>
    BY <1>3 DEF OnData
  <2>2. /\ net' \in Net
        /\ net'.closed = net.closed
        /\ \A t \in Sockets : Waits(net', t)
    BY <1>0, <2>1, CorkedNet, AllWait
  <2>3. /\ loop' \in LoopType
        /\ sender' \in SenderType
        /\ overdue' \in SUBSET Sockets
        /\ frames' \in [Sockets -> Seq(Frame)]
    BY <1>0, <2>1, NoReplies DEF LoopType, TypeOK
  <2>4. CallbackSocket'
    BY <2>1, <2>2 DEF SocketsInv, CallbackSocket
  <2> QED BY <2>1, <2>2, <2>3, <2>4, QuietStep
<1>4. ASSUME NEW size \in 1..MaxFrame, Reply(size)
      PROVE  SocketsInv'
  <2>1. loop.s \in Sockets /\ Send(loop.s, size)
    BY <1>0, <1>4 DEF Reply, SocketsInv, CallbackSocket, TypeOK
  <2>2. net'.closed = net.closed
    BY <2>1, SendStep
  <2>3. /\ loop.at = "data"
        /\ loop.replies < MaxReplies
        /\ loop' = [loop EXCEPT !.replies = @ + 1]
        /\ UNCHANGED <<upgraded, ending, conSet, sender, closes>>
    BY <1>4 DEF Reply
  <2>4. loop' \in LoopType /\ loop'.at = loop.at /\ loop'.s = loop.s
    <3>1. loop.replies + 1 \in 0..MaxReplies
      BY <1>0, <2>3, FrameAssumption DEF LoopType
    <3> QED BY <1>0, <2>3, <3>1 DEF LoopType
  <2>5. CallbackSocket'
    BY <2>2, <2>3, <2>4 DEF SocketsInv, CallbackSocket
  <2>6. sender' \in SenderType
    BY <1>0, <2>3
  <2> QED BY <2>1, <2>3, <2>4, <2>5, <2>6, SendStep, QuietStep
<1>5. CASE EndCall
  <2> DEFINE s == loop.s
             r == SendFrame(net, s, NewFrame(s, 1))
             ok == Skips(s) \/ ~r.failed
             m == IF Skips(s) THEN net ELSE r.net
  <2>1. s \in Sockets /\ s \in upgraded \ (ending \cup net.closed)
    BY <1>0, <1>5 DEF EndCall, SocketsInv, CallbackSocket, TypeOK
  <2>2. /\ net' = IF m.corked # s /\ ok THEN Shutdown(m, s) ELSE m
        /\ IF Skips(s) THEN UNCHANGED frames ELSE Record(s, 1, ok)
        /\ overdue' = IF ok /\ ~Skips(s) THEN overdue \ {s} ELSE overdue
        /\ ending' = ending \cup {s}
        /\ CloseEvent(s)
        /\ loop' = [loop EXCEPT !.at = "done"]
        /\ UNCHANGED <<upgraded, sender>>
    BY <1>5 DEF EndCall
  <2> HIDE DEF s
  <2>3. NewFrame(s, 1) \in Seq(Byte) /\ 1 \in 1..MaxFrame
    BY <1>0, <2>1, FrameAssumption, NewFrameType
  <2>4. Touched(net, r.net, s) /\ (Waits(net, s) => Waits(r.net, s)) /\ r.failed \in BOOLEAN
    BY <1>0, <2>1, <2>3, SendFrameNet
  <2> HIDE DEF r
  <2>5. /\ m \in Net
        /\ m.closed = net.closed
        /\ \A t \in Sockets : Waits(m, t)
    BY <1>0, <2>1, <2>4, AllWait
  <2>6. ok \in BOOLEAN
    BY <2>4
  <2>7. frames' \in [Sockets -> Seq(Frame)]
    BY <1>0, <2>1, <2>2, <2>3, <2>6, RecordType DEF TypeOK
  <2>8. overdue' \in SUBSET Sockets
    BY <1>0, <2>2 DEF TypeOK
  <2> HIDE DEF m, ok
  <2>9. /\ net' \in Net
        /\ net'.closed = net.closed
        /\ \A t \in Sockets : Waits(net', t)
    BY <2>1, <2>2, <2>5, ShutdownNet
  <2>10. /\ conSet' = conSet \ {s}
         /\ closes' = [closes EXCEPT ![s] = @ + 1]
         /\ closes \in [Sockets -> Nat]
         /\ closes[s] = 0
    BY <1>0, <2>1, <2>2 DEF CloseEvent, TypeOK, SocketsInv, CloseEventOnce
  <2>11. CloseEventOnce'
    BY <2>1, <2>2, <2>9, <2>10 DEF SocketsInv, CloseEventOnce
  <2>12. loop' \in LoopType /\ loop'.at = "done" /\ loop'.s = s
    BY <1>0, <2>2 DEF LoopType, s
  <2>13. TypeOK'
    BY <1>0, <2>1, <2>2, <2>7, <2>8, <2>9, <2>10, <2>12 DEF TypeOK, LoopType
  <2>14. CallbackSocket' /\ EndingUpgraded' /\ AllPolled'
    BY <2>1, <2>2, <2>9, <2>12 DEF SocketsInv, CallbackSocket, EndingUpgraded, AllPolled
  <2> QED BY <2>11, <2>13, <2>14 DEF SocketsInv
<1>6. CASE ForceClose
  <2>1. loop.s \in Sockets /\ loop.s \notin net.closed /\ loop.s \in upgraded
    BY <1>0, <1>6 DEF ForceClose, SocketsInv, CallbackSocket, TypeOK
  <2>2. loop' \in LoopType /\ loop'.at = "done" /\ loop'.s = loop.s
    BY <1>0, <1>6 DEF ForceClose, LoopType
  <2> QED BY <1>6, <2>1, <2>2, CloseStep DEF ForceClose
<1>7. CASE EndData
  <2> DEFINE s == loop.s
             r == Uncork(net, s, <<>>)
  <2>1. s \in Sockets
    BY <1>0, <1>7 DEF EndData, SocketsInv, CallbackSocket, TypeOK
  <2>2. /\ net' \in {r.net, Shutdown(r.net, s)}
        /\ loop' = LoopIdle
        /\ UNCHANGED <<upgraded, ending, overdue, conSet, sender, frames, closes>>
    BY <1>7 DEF EndData
  <2> HIDE DEF s
  <2>3. Touched(net, r.net, s) /\ (Waits(net, s) => Waits(r.net, s))
    <3>1. <<>> \in Seq(Byte)
      OBVIOUS
    <3> QED BY <1>0, <2>1, <3>1, UncorkNet
  <2> HIDE DEF r
  <2>4. /\ r.net \in Net
        /\ r.net.closed = net.closed
        /\ \A t \in Sockets : Waits(r.net, t)
    BY <1>0, <2>1, <2>3, AllWait
  <2>5. /\ net' \in Net
        /\ net'.closed = net.closed
        /\ \A t \in Sockets : Waits(net', t)
    BY <2>1, <2>2, <2>4, ShutdownNet
  <2>6. /\ loop' \in LoopType
        /\ sender' \in SenderType
        /\ overdue' \in SUBSET Sockets
        /\ frames' \in [Sockets -> Seq(Frame)]
    BY <1>0, <2>2, NoReplies DEF TypeOK
  <2>7. CallbackSocket'
    BY <2>2 DEF LoopIdle, SocketsInv, CallbackSocket
  <2> QED BY <2>2, <2>5, <2>6, <2>7, QuietStep
<1>8. ASSUME NEW s \in Sockets, OnWritable(s)
      PROVE  SocketsInv'
  <2> DEFINE m == [net EXCEPT !.polling = net.polling \ {s}]
             r == Write(m, s, <<>>)
  <2>1. /\ m \in Net
        /\ m.closed = net.closed
        /\ m.shut = net.shut
        /\ \A t \in Sockets \ {s} : Waits(m, t)
    BY <1>0 DEF Net, Waits
  <2>2. /\ net' \in {r.net, Shutdown(r.net, s)}
        /\ overdue' \in {overdue, overdue \ {s}}
        /\ UNCHANGED <<upgraded, ending, conSet, loop, sender, frames, closes>>
    BY <1>8 DEF OnWritable
  <2> HIDE DEF m
  <2>3. Touched(m, r.net, s) /\ Waits(r.net, s)
    <3>1. <<>> \in Seq(Byte)
      OBVIOUS
    <3> QED BY <2>1, <3>1, WriteNet
  <2> HIDE DEF r
  <2>4. /\ r.net \in Net
        /\ r.net.closed = net.closed
        /\ \A t \in Sockets : Waits(r.net, t)
    <3>1. ASSUME NEW t \in Sockets, t # s
          PROVE  Waits(r.net, t)
      BY <2>1, <2>3, <3>1 DEF Touched, Waits
    <3> QED BY <2>1, <2>3, <3>1 DEF Touched
  <2>5. /\ net' \in Net
        /\ net'.closed = net.closed
        /\ \A t \in Sockets : Waits(net', t)
    BY <2>2, <2>4, ShutdownNet
  <2>6. /\ loop' \in LoopType
        /\ sender' \in SenderType
        /\ overdue' \in SUBSET Sockets
        /\ frames' \in [Sockets -> Seq(Frame)]
    BY <1>0, <2>2 DEF TypeOK
  <2>7. CallbackSocket'
    BY <2>2, <2>5 DEF SocketsInv, CallbackSocket
  <2> QED BY <2>2, <2>5, <2>6, <2>7, QuietStep
<1>9. ASSUME NEW s \in Sockets, OnEnd(s) \/ OnTimeout(s)
      PROVE  SocketsInv'
  <2>1. s \notin net.closed /\ CloseSocket(s) /\ loop' = LoopIdle
    BY <1>9 DEF OnEnd, OnTimeout
  <2>2. loop' \in LoopType /\ loop'.at = "idle"
    BY <2>1, NoReplies DEF LoopIdle
  <2> QED BY <2>1, <2>2, CloseStep
<1> QED BY <1>1, <1>2, <1>3, <1>4, <1>5, <1>6, <1>7, <1>8, <1>9 DEF Callback

\* So do the steps of the front server's thread.
LEMMA FrontThreadInductive ==
  ASSUME SocketsInv, FrontThread
  PROVE  SocketsInv'
<1>0. /\ TypeOK
      /\ net \in Net
      /\ \A t \in Sockets : Waits(net, t)
      /\ loop \in LoopType
      /\ sender \in SenderType
      /\ CallbackSocket
  BY DEF SocketsInv, AllPolled, TypeOK, LoopType, SenderType
<1>1. ASSUME NEW s \in Sockets, NEW size \in 1..MaxFrame, Broadcast(s, size)
      PROVE  SocketsInv'
  <2>1. Send(s, size) /\ UNCHANGED <<upgraded, ending, conSet, loop, sender, closes>>
    BY <1>1 DEF Broadcast
  <2>2. net'.closed = net.closed
    BY <2>1, SendStep
  <2>3. loop' \in LoopType /\ sender' \in SenderType /\ CallbackSocket'
    BY <1>0, <2>1, <2>2 DEF CallbackSocket
  <2> QED BY <2>1, <2>3, SendStep, QuietStep
<1>2. ASSUME NEW s \in Sockets, NEW size \in 1..MaxFrame, BeginSend(s, size)
      PROVE  SocketsInv'
  <2>1. /\ sender' = [at |-> "format", s |-> s, size |-> size,
                      auto |-> net.corked = NoSocket]
        /\ net' = net \/ net' = Cork(net, s)
        /\ UNCHANGED <<upgraded, ending, overdue, conSet, loop, frames, closes>>
    BY <1>2 DEF BeginSend
  <2>2. /\ net' \in Net
        /\ net'.closed = net.closed
        /\ \A t \in Sockets : Waits(net', t)
    BY <1>0, <2>1, CorkedNet, AllWait
  <2>3. /\ loop' \in LoopType
        /\ sender' \in SenderType
        /\ overdue' \in SUBSET Sockets
        /\ frames' \in [Sockets -> Seq(Frame)]
    BY <1>0, <2>1 DEF SenderType, TypeOK
  <2>4. CallbackSocket'
    BY <1>0, <2>1, <2>2 DEF CallbackSocket
  <2> QED BY <2>1, <2>2, <2>3, <2>4, QuietStep
<1>3. CASE FormatSend
  <2> DEFINE s == sender.s
             r == Format(net, s, NewFrame(s, sender.size))
  <2>1. s \in Sockets /\ sender.size \in 1..MaxFrame
    BY <1>0, <1>3 DEF FormatSend, CallbackSocket, SenderType
  <2>2. /\ net' = r.net
        /\ Record(s, sender.size, ~r.failed)
        /\ sender' \in {[sender EXCEPT !.at = "uncork"], SenderIdle}
        /\ overdue' \in {overdue, overdue \ {s}}
        /\ UNCHANGED <<upgraded, ending, conSet, loop, closes>>
    BY <1>3 DEF FormatSend
  <2>3. Touched(net, r.net, s) /\ (Waits(net, s) => Waits(r.net, s)) /\ r.failed \in BOOLEAN
    <3> HIDE DEF s
    <3> QED BY <1>0, <2>1, NewFrameType, FormatNet
  <2> HIDE DEF r
  <2>4. /\ net' \in Net
        /\ net'.closed = net.closed
        /\ \A t \in Sockets : Waits(net', t)
    BY <1>0, <2>1, <2>2, <2>3, AllWait
  <2>5. frames' \in [Sockets -> Seq(Frame)]
    BY <1>0, <2>1, <2>2, <2>3, RecordType
  <2>6. 1 \in 1..MaxFrame
    BY FrameAssumption
  <2>7. /\ loop' \in LoopType
        /\ sender' \in SenderType
        /\ overdue' \in SUBSET Sockets
    <3>1. SenderIdle \in SenderType /\ [sender EXCEPT !.at = "uncork"] \in SenderType
      BY <1>0, <2>6 DEF SenderType, SenderIdle
    <3>2. overdue' \in SUBSET Sockets /\ loop' \in LoopType
      BY <1>0, <2>2 DEF TypeOK
    <3> QED BY <2>2, <3>1, <3>2
  <2>8. CallbackSocket'
    BY <1>0, <2>1, <2>2, <2>4 DEF CallbackSocket, SenderIdle, SenderType
  <2> QED BY <2>2, <2>4, <2>5, <2>7, <2>8, QuietStep
<1>4. CASE EndSend
  <2> DEFINE s == sender.s
             r == Uncork(net, s, <<>>)
  <2>1. s \in Sockets
    BY <1>0, <1>4 DEF EndSend, CallbackSocket
  <2>2. /\ net' = r.net
        /\ sender' = SenderIdle
        /\ overdue' \in {overdue, overdue \ {s}}
        /\ UNCHANGED <<upgraded, ending, conSet, loop, frames, closes>>
    BY <1>4 DEF EndSend
  <2>3. Touched(net, r.net, s) /\ (Waits(net, s) => Waits(r.net, s))
    <3> HIDE DEF s
    <3>1. <<>> \in Seq(Byte)
      OBVIOUS
    <3> QED BY <1>0, <2>1, <3>1, UncorkNet
  <2> HIDE DEF r
  <2>4. /\ net' \in Net
        /\ net'.closed = net.closed
        /\ \A t \in Sockets : Waits(net', t)
    BY <1>0, <2>1, <2>2, <2>3, AllWait
  <2>5. 1 \in 1..MaxFrame
    BY FrameAssumption
  <2>6. /\ loop' \in LoopType
        /\ sender' \in SenderType
        /\ overdue' \in SUBSET Sockets
        /\ frames' \in [Sockets -> Seq(Frame)]
    BY <1>0, <2>2, <2>5 DEF SenderType, SenderIdle, TypeOK
  <2>7. CallbackSocket'
    BY <1>0, <2>2, <2>4 DEF CallbackSocket, SenderIdle
  <2> QED BY <2>2, <2>4, <2>6, <2>7, QuietStep
<1> QED BY <1>1, <1>2, <1>3, <1>4 DEF FrontThread

\* And what the peers and the clock do.
LEMMA PeersInductive ==
  ASSUME SocketsInv, NEW s \in Sockets, PeerReads(s) \/ Elapse(s)
  PROVE  SocketsInv'
<1>0. /\ net \in Net
      /\ \A t \in Sockets : Waits(net, t)
      /\ loop \in LoopType
      /\ sender \in SenderType
  BY DEF SocketsInv, AllPolled, TypeOK, LoopType, SenderType
<1>1. /\ net' \in {net, [net EXCEPT !.room[s] = RoomSize]}
      /\ overdue' \in {overdue, overdue \cup {s}}
      /\ UNCHANGED <<upgraded, ending, conSet, loop, sender, frames, closes>>
  BY DEF PeerReads, Elapse
<1>2. /\ net' \in Net
      /\ net'.closed = net.closed
      /\ \A t \in Sockets : Waits(net', t)
  <2>1. RoomSize \in 0..RoomSize
    BY SizeAssumption
  <2> DEFINE m == [net EXCEPT !.room[s] = RoomSize]
  <2>2. m \in Net /\ m.closed = net.closed /\ \A t \in Sockets : Waits(m, t)
    BY <1>0, <2>1 DEF Net, Waits
  <2> QED BY <1>0, <1>1, <2>2
<1>3. /\ loop' \in LoopType
      /\ sender' \in SenderType
      /\ overdue' \in SUBSET Sockets
      /\ frames' \in [Sockets -> Seq(Frame)]
  BY <1>0, <1>1 DEF SocketsInv, TypeOK
<1>4. CallbackSocket'
  BY <1>1, <1>2 DEF SocketsInv, CallbackSocket
<1> QED BY <1>1, <1>2, <1>3, <1>4, QuietStep

\* The invariant holds at first.
LEMMA SocketsInitially ==
  ASSUME Init
  PROVE  SocketsInv
<1>1. 1 \in 1..MaxFrame
  BY FrameAssumption
<1>2. NetInit \in Net
  BY SizeAssumption DEF NetInit, Net
<1>3. TypeOK
  BY <1>1, <1>2, NoReplies DEF Init, TypeOK, LoopType, SenderIdle
<1>4. CallbackSocket /\ EndingUpgraded /\ AllPolled /\ CloseEventOnce
  BY DEF Init, NetInit, LoopIdle, SenderIdle, CallbackSocket, EndingUpgraded, AllPolled,
         Waits, CloseEventOnce
<1> QED BY <1>3, <1>4 DEF SocketsInv

\* Every step keeps the invariant.
LEMMA SocketsInductive ==
  ASSUME SocketsInv, [Next]_vars
  PROVE  SocketsInv'
<1>1. CASE Callback
  BY <1>1, CallbackInductive
<1>2. CASE FrontThread
  BY <1>2, FrontThreadInductive
<1>3. CASE \E s \in Sockets : PeerReads(s) \/ Elapse(s)
  BY <1>3, PeersInductive
<1>4. CASE UNCHANGED vars
  BY <1>4 DEF vars, SocketsInv, TypeOK, CallbackSocket, EndingUpgraded, AllPolled, Waits,
              CloseEventOnce
<1> QED BY <1>1, <1>2, <1>3, <1>4 DEF Next

\* The invariant holds always.
THEOREM SocketsInvariant == Spec => []SocketsInv
<1>1. Init => SocketsInv
  BY SocketsInitially
<1>2. SocketsInv /\ [Next]_vars => SocketsInv'
  BY SocketsInductive
<1> QED BY <1>1, <1>2, PTL DEF Spec

\* Every variable keeps its type, whatever the sizes of buffers and frames
\* (AsyncSocket.h, WebSocketContext.h).
THEOREM SocketsTypeCorrect == Spec => []TypeOK
<1>1. SocketsInv => TypeOK
  BY DEF SocketsInv
<1> QED BY <1>1, SocketsInvariant, PTL

\* on_close and end give a connection one close event between them, and
\* wss_con_set_ holds exactly the open connections (WebSocketContext.h:241-255,
\* wb_server.cpp:56-89).
THEOREM CloseEventCorrect == Spec => []CloseEventOnce
<1>1. SocketsInv => CloseEventOnce
  BY DEF SocketsInv
<1> QED BY <1>1, SocketsInvariant, PTL

\* A socket that buffers bytes is polled for writable, whichever of the paths
\* of write and uncork put them there (AsyncSocket.h:138-255).
THEOREM BufferedIsPolledCorrect == Spec => []BufferedIsPolled
<1>1. SocketsInv => BufferedIsPolled
  BY DEF SocketsInv, AllPolled, Waits, BufferedIsPolled
<1> QED BY <1>1, SocketsInvariant, PTL
=============================================================================
