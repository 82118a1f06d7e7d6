------------------------- MODULE FrameParserProofs -------------------------
(***************************************************************************)
(* Proofs about the websocket parser: what it keeps between two chunks     *)
(* fits where WebSocketState has room for it, and the handlers are told    *)
(* what the peer's frames mean, whatever the peer sends and wherever the   *)
(* chunks are cut.                                                         *)
(*                                                                         *)
(* HttpProofs is extended for its lemmas about sequences.                  *)
(***************************************************************************)
EXTENDS FrameParser, HttpProofs

(***************************************************************************)
(* The bytes of a stream.  AllBytes is defined by recursion over the       *)
(* frames; what it computes follows by looking at the first frame for      *)
(* which it would not hold.                                                *)
(***************************************************************************)

(* A set of natural numbers has a least element.                           *)
LEMMA LeastElement ==
    ASSUME NEW T, T \subseteq Nat, T # {}
    PROVE  \E x \in T : \A y \in T : x <= y
  <1> DEFINE R == OpToRel(<, Nat)
  <1>1. IsWellFoundedOn(R, Nat)
    BY NatLessThanWellFounded
  <1>2. \A x, y \in Nat : x < y => <<x, y>> \in R
    BY DEF OpToRel
  <1> HIDE DEF R
  <1>3. PICK x \in T : \A y \in T : ~(<<y, x>> \in R)
    BY <1>1, WFMin
  <1>4. \A y \in T : ~(y < x)
    BY <1>2, <1>3
  <1>5. \A y \in T : x <= y
    BY <1>4
  <1> QED
    BY <1>5

\* h[f] is the bytes of the first f frames of fs, for f up to n.
FramesUpTo(fs, n, h) == h = [f \in 0..n |-> IF f = 0 THEN <<>> ELSE h[f - 1] \o Wire(fs, f)]

(* The bytes of one frame more can always be put behind the others.        *)
LEMMA OneFrameMore ==
    ASSUME NEW fs, NEW n \in Nat \ {0}, NEW g, FramesUpTo(fs, n - 1, g)
    PROVE  \E h : FramesUpTo(fs, n, h)
  <1> DEFINE h == [f \in 0..n |-> IF f = n THEN g[n - 1] \o Wire(fs, n) ELSE g[f]]
             k == [f \in 0..n |-> IF f = 0 THEN <<>> ELSE h[f - 1] \o Wire(fs, f)]
  <1>1. ASSUME NEW f \in 0..n PROVE h[f] = k[f]
    <2>1. CASE f = n
      <3>1. n - 1 \in 0..n /\ n - 1 # n /\ n \in 0..n /\ n # 0
        OBVIOUS
      <3>2. h[n - 1] = g[n - 1] /\ h[n] = g[n - 1] \o Wire(fs, n)
        BY <3>1
      <3>3. k[n] = h[n - 1] \o Wire(fs, n)
        BY <3>1
      <3> QED
        BY <2>1, <3>2, <3>3
    <2>2. CASE f # n
      <3>1. f \in 0..(n - 1) /\ (f # 0 => f - 1 \in 0..(n - 1) /\ f - 1 \in 0..n /\ f - 1 # n)
        BY <2>2
      <3>2. g[f] = IF f = 0 THEN <<>> ELSE g[f - 1] \o Wire(fs, f)
        BY <3>1 DEF FramesUpTo
      <3> QED
        BY <2>2, <3>1, <3>2
    <2> QED
      BY <2>1, <2>2
  <1>2. h = k
    BY <1>1
  <1> QED
    BY <1>2 DEF FramesUpTo

(* So the recursion that defines AllBytes defines something.               *)
LEMMA FrameBytesExist == ASSUME NEW fs, NEW N \in Nat PROVE \E h : FramesUpTo(fs, N, h)
  <1> DEFINE T == {n \in Nat : ~\E h : FramesUpTo(fs, n, h)}
  <1>1. SUFFICES ASSUME T # {} PROVE FALSE
    OBVIOUS
  <1>2. PICK n \in T : \A m \in T : n <= m
    BY <1>1, LeastElement
  <1>3. n # 0
    <2>1. FramesUpTo(fs, 0, [f \in 0..0 |-> <<>>])
      BY DEF FramesUpTo
    <2> QED
      BY <2>1
  <1>4. n \in Nat \ {0} /\ n - 1 \in Nat /\ n - 1 \notin T
    BY <1>2, <1>3
  <1>5. \E h : FramesUpTo(fs, n - 1, h)
    BY <1>4
  <1>6. \E h : FramesUpTo(fs, n, h)
    BY <1>4, <1>5, OneFrameMore
  <1> QED
    BY <1>6

\* The bytes there are in a stream of frames.
FrameBytes(fs) == (1..Len(fs)) \X Int

(* A byte of a stream belongs to one of its frames.                        *)
LEMMA AllBytesType == ASSUME NEW fs \in Seq(Frame) PROVE AllBytes(fs) \in Seq(FrameBytes(fs))
  <1> DEFINE N == Len(fs)
             h == CHOOSE h : h = [f \in 0..N |-> IF f = 0 THEN <<>> ELSE h[f - 1] \o Wire(fs, f)]
             T == {n \in 0..N : h[n] \notin Seq(FrameBytes(fs))}
  <1>1. N \in Nat
    OBVIOUS
  <1>2. h = [f \in 0..N |-> IF f = 0 THEN <<>> ELSE h[f - 1] \o Wire(fs, f)]
    BY <1>1, FrameBytesExist DEF FramesUpTo
  <1>3. AllBytes(fs) = h[N]
    BY DEF AllBytes
  <1> HIDE DEF h
  <1>4. ASSUME NEW f \in 1..N PROVE Wire(fs, f) \in Seq(FrameBytes(fs))
    <2>1. fs[f].header \in Nat /\ fs[f].len \in Nat
      <3>1. fs[f] \in Frame
        OBVIOUS
      <3>2. fs[f].header \in {6, 8, 14} /\ fs[f].len \in Nat
        BY <3>1 DEF Frame, HeaderSizes
      <3> QED
        BY <3>2
    <2> DEFINE n == fs[f].header + fs[f].len
    <2>2. n \in Nat
      BY <2>1
    <2>3. Wire(fs, f) = [i \in 1..n |-> <<f, i - fs[f].header>>]
      BY DEF Wire
    <2>4. \A i \in 1..n : <<f, i - fs[f].header>> \in FrameBytes(fs)
      BY <2>1 DEF FrameBytes
    <2> HIDE DEF n
    <2> QED
      BY <2>2, <2>3, <2>4
  <1>5. T = {}
    <2>1. SUFFICES ASSUME T # {} PROVE FALSE
      OBVIOUS
    <2> HIDE DEF N
    <2>2. PICK n \in T : \A m \in T : n <= m
      <3>1. T \subseteq Nat
        BY <1>1
      <3> HIDE DEF T
      <3> QED
        BY <2>1, <3>1, LeastElement
    <2>3. n # 0
      BY <1>1, <1>2
    <2>4. n \in 1..N /\ n - 1 \in 0..N /\ n - 1 \notin T
      BY <1>1, <2>2, <2>3
    <2>5. h[n - 1] \in Seq(FrameBytes(fs))
      BY <2>4
    <2>6. h[n] = h[n - 1] \o Wire(fs, n)
      BY <1>2, <2>3, <2>4
    <2>7. h[n] \in Seq(FrameBytes(fs))
      BY <1>4, <2>4, <2>5, <2>6
    <2> QED
      BY <2>7
  <1>6. N \in 0..N /\ N \notin T
    BY <1>1, <1>5
  <1> QED
    BY <1>3, <1>6

(***************************************************************************)
(* The parser.                                                             *)
(***************************************************************************)

\* WebSocketState, when fs is what the peer sends.
Parsers(fs) == [wantsHead: BOOLEAN, spill: Seq(FrameBytes(fs)), opStack: -1..1, opCode: [0..1 -> 0..15],
                lastFin: BOOLEAN, remaining: Nat, phase: 0..3]

\* What is on its way or was kept belongs to the frames that are sent, and
\* the fields of WebSocketState have their types.
ParserTypeOK ==
    /\ frames \in Seq(Frame)
    /\ wire \in Seq(FrameBytes(frames))
    /\ src \in Seq(FrameBytes(frames))
    /\ parser \in Parsers(frames)

ParserInv == ParserTypeOK /\ StateFits

(* The parser begins with a header, and with nothing kept.                 *)
LEMMA ParserStarts == FrameInit => ParserInv
  <1> SUFFICES ASSUME FrameInit PROVE ParserInv
    OBVIOUS
  <1>1. <<>> \in Seq(Frame) /\ <<>> \in Seq(FrameBytes(frames)) /\ Len(<<>>) = 0
    OBVIOUS
  <1>2. ParserTypeOK
    BY <1>1 DEF FrameInit, ParserTypeOK, Parsers
  <1>3. StateFits
    BY <1>1 DEF FrameInit, StateFits
  <1> QED
    BY <1>2, <1>3 DEF ParserInv

(* The header in front belongs to one of the frames.                       *)
LEMMA HeaderType == ASSUME ParserTypeOK, src # <<>> PROVE Header \in Frame
  <1>1. src[1] \in FrameBytes(frames)
    BY DEF ParserTypeOK
  <1>2. src[1][1] \in 1..Len(frames)
    BY <1>1 DEF FrameBytes
  <1> QED
    BY <1>2 DEF ParserTypeOK, Header

(* A mask has four bytes.                                                  *)
LEMMA RotateType == ASSUME NEW p \in Nat, NEW n \in Nat PROVE Rotate(p, n) \in 0..3
  BY DEF Rotate

(* What is left of a chunk is part of it.                                  *)
LEMMA RestType ==
    ASSUME ParserTypeOK, NEW n \in 0..Len(src), NEW w
    PROVE  Rest(w, Drop(n)) \in Seq(FrameBytes(frames)) /\ Rest(w, <<>>) = <<>>
  <1>1. Drop(n) \in Seq(FrameBytes(frames))
    BY DEF ParserTypeOK, Drop
  <1> QED
    BY <1>1 DEF Rest

(* Frames are chosen once, before any byte is on its way.                  *)
LEMMA StartFramesKeeps ==
    ASSUME ParserInv, NEW fs \in FrameStreams, StartFrames(fs)
    PROVE  ParserInv'
  <1>1. fs \in Seq(Frame)
    BY FrameAssumption
  <1>2. frames' \in Seq(Frame) /\ wire' \in Seq(FrameBytes(frames'))
    BY <1>1, AllBytesType DEF StartFrames
  <1>3. FrameBytes(frames) = {}
    BY DEF StartFrames, FrameBytes
  <1>4. \A s \in Seq(FrameBytes(frames)) : s = <<>>
    BY <1>3
  <1>5. src' = <<>> /\ parser'.spill = <<>> /\ parser' = parser
    BY <1>4 DEF ParserInv, ParserTypeOK, Parsers, StartFrames
  <1>6. <<>> \in Seq(FrameBytes(frames'))
    OBVIOUS
  <1>7. ParserTypeOK'
    BY <1>2, <1>5, <1>6 DEF ParserInv, ParserTypeOK, Parsers
  <1>8. StateFits'
    BY <1>5 DEF ParserInv, StateFits
  <1> QED
    BY <1>7, <1>8 DEF ParserInv

(* A chunk is put behind what was kept.                                    *)
LEMMA ReceiveKeeps ==
    ASSUME ParserInv, NEW n \in 1..Len(wire), Receive(n)
    PROVE  ParserInv'
  <1>1. /\ SubSeq(wire, 1, n) \in Seq(FrameBytes(frames))
        /\ SubSeq(wire, n + 1, Len(wire)) \in Seq(FrameBytes(frames))
    BY DEF ParserInv, ParserTypeOK, Parsers
  <1>2. parser.spill \o SubSeq(wire, 1, n) \in Seq(FrameBytes(frames))
    BY <1>1 DEF ParserInv, ParserTypeOK, Parsers
  <1>3. src' \in Seq(FrameBytes(frames)) /\ wire' \in Seq(FrameBytes(frames)) /\ frames' = frames /\ parser' = parser
    BY <1>1, <1>2 DEF Receive
  <1> QED
    BY <1>3 DEF ParserInv, ParserTypeOK, Parsers, StateFits

(* Refusing a frame throws the rest of the chunk away.                     *)
LEMMA RefuseHeadKeeps ==
    ASSUME ParserInv, RefuseHead
    PROVE  ParserInv'
  BY DEF RefuseHead, ParserInv, ParserTypeOK, StateFits

(* Less than the longest header is thirteen at most.                       *)
LEMMA Thirteen ==
    ASSUME NEW n \in Nat, NEW k \in Nat, k <= 14, n < 6 \/ n < k
    PROVE  n \in 0..13
  OBVIOUS

(* A header that is not complete has at most thirteen bytes.               *)
LEMMA SpillHeadKeeps ==
    ASSUME ParserInv, SpillHead
    PROVE  ParserInv'
  <1>1. Header \in Frame
    BY HeaderType DEF ParserInv, SpillHead
  <1>2. Header.header \in {6, 8, 14}
    BY <1>1 DEF Frame, HeaderSizes
  <1>3. Len(src) \in 0..13
    <2>1. Len(src) \in Nat
      BY DEF ParserInv, ParserTypeOK, Parsers
    <2>2. Len(src) < 6 \/ Len(src) < Header.header
      BY <1>2, <2>1 DEF SpillHead, HeadComplete, ShortHeader
    <2>3. Header.header \in Nat /\ Header.header <= 14
      BY <1>2
    <2> QED
      BY <2>1, <2>2, <2>3, Thirteen
  <1>4. parser' = [parser EXCEPT !.spill = src] /\ src' = <<>> /\ frames' = frames /\ wire' = wire
    BY DEF SpillHead
  <1>5. ParserTypeOK'
    <2>1. <<>> \in Seq(FrameBytes(frames))
      OBVIOUS
    <2> QED
      BY <1>4, <2>1 DEF ParserInv, ParserTypeOK, Parsers
  <1>6. parser'.spill = src /\ parser'.opStack = parser.opStack /\ parser'.wantsHead
    BY <1>4 DEF ParserInv, ParserTypeOK, Parsers, SpillHead
  <1>7. StateFits'
    BY <1>3, <1>6 DEF ParserInv, StateFits
  <1> QED
    BY <1>5, <1>7 DEF ParserInv

(* A frame that was let in finds room for its opcode: a message begins     *)
(* where none is being received, or a control frame inside one.            *)
LEMMA PushedFits ==
    ASSUME ParserInv, Header \in Frame, ~Unexpected
    PROVE  /\ Pushed \in Parsers(frames)
           /\ Pushed.opStack \in 0..1
           /\ Pushed.spill = parser.spill /\ Pushed.wantsHead = parser.wantsHead
           /\ Pushed.remaining = parser.remaining
  <1>1. Header.op \in 0..15 /\ Header.fin \in BOOLEAN
    BY DEF Frame
  <1>2. CASE Header.op = CONTINUATION
    <2>1. Pushed = [parser EXCEPT !.lastFin = Header.fin]
      BY <1>2 DEF Pushed
    <2>2. parser.opStack \in 0..1
      BY <1>2 DEF ParserInv, ParserTypeOK, Parsers, Unexpected
    <2> QED
      BY <1>1, <2>1, <2>2 DEF ParserInv, ParserTypeOK, Parsers
  <1>3. CASE Header.op # CONTINUATION
    <2>1. Pushed = [parser EXCEPT !.opStack = parser.opStack + 1,
                                  !.opCode = [parser.opCode EXCEPT ![parser.opStack + 1] = Header.op],
                                  !.lastFin = Header.fin]
      BY <1>3 DEF Pushed, ParserInv, ParserTypeOK
    <2>2. parser.opStack + 1 \in 0..1
      BY <1>3 DEF ParserInv, ParserTypeOK, Parsers, Unexpected
    <2>3. [parser.opCode EXCEPT ![parser.opStack + 1] = Header.op] \in [0..1 -> 0..15]
      BY <1>1 DEF ParserInv, ParserTypeOK, Parsers
    <2> DEFINE top == parser.opStack + 1
               codes == [parser.opCode EXCEPT ![top] = Header.op]
    <2>4. parser \in Parsers(frames)
      BY DEF ParserInv, ParserTypeOK
    <2>5. top \in 0..1 /\ codes \in [0..1 -> 0..15]
      BY <2>2, <2>3
    <2>6. Pushed = [parser EXCEPT !.opStack = top, !.opCode = codes, !.lastFin = Header.fin]
      BY <2>1
    <2> HIDE DEF top, codes
    <2>7. top \in -1..1
      BY <2>5
    <2> QED
      BY <1>1, <2>4, <2>5, <2>6, <2>7 DEF Parsers
  <1> QED
    BY <1>2, <1>3

(* There is an opcode to pop.                                              *)
LEMMA PoppedFits ==
    ASSUME NEW p \in Parsers(frames), p.opStack \in 0..1, NEW fin \in BOOLEAN
    PROVE  /\ Popped(p, fin) \in Parsers(frames)
           /\ Popped(p, fin).wantsHead = p.wantsHead /\ Popped(p, fin).spill = p.spill
  <1> DEFINE top == p.opStack - 1
  <1>1. top \in -1..1
    OBVIOUS
  <1>2. Popped(p, fin) = IF fin THEN [p EXCEPT !.opStack = top] ELSE p
    BY DEF Popped
  <1> HIDE DEF top
  <1> QED
    BY <1>1, <1>2 DEF Parsers

(* A frame, or the first part of one, is handled; what is awaited of it is *)
(* not nothing.                                                            *)
LEMMA ConsumeMessageKeeps ==
    ASSUME ParserInv, ConsumeMessage
    PROVE  ParserInv'
  <1> DEFINE size == Header.header + Header.len
             have == SubSeq(src, Header.header + 1, IF size < Len(src) THEN size ELSE Len(src))
  <1>1. Header \in Frame
    BY HeaderType DEF ParserInv, ConsumeMessage
  <1>2. Header.header \in Nat /\ Header.len \in Nat /\ Header.fin \in BOOLEAN /\ size \in Nat
    BY <1>1 DEF Frame, HeaderSizes
  <1>3. src \in Seq(FrameBytes(frames)) /\ Len(src) \in Nat
    BY DEF ParserInv, ParserTypeOK, Parsers
  <1>4. frames' = frames /\ wire' = wire
    BY DEF ConsumeMessage
  <1>5. ~Unexpected
    BY DEF ConsumeMessage
  <1>6. <<>> \in Seq(FrameBytes(frames)) /\ Len(<<>>) = 0
    OBVIOUS
  <1>7. CASE size <= Len(src)
    <2>1. /\ parser' = [Popped(Pushed, Header.fin) EXCEPT !.spill = <<>>]
          /\ src' = Rest(ws', Drop(size))
      BY <1>7 DEF ConsumeMessage
    <2>2. src' \in Seq(FrameBytes(frames))
      BY <1>2, <1>3, <1>7, <2>1, RestType DEF ParserInv
    <2>3. /\ Popped(Pushed, Header.fin) \in Parsers(frames)
          /\ Popped(Pushed, Header.fin).wantsHead
      BY <1>1, <1>2, <1>5, PushedFits, PoppedFits DEF ConsumeMessage
    <2>4. ParserTypeOK'
      BY <1>4, <1>6, <2>1, <2>2, <2>3 DEF ParserInv, ParserTypeOK, Parsers
    <2>5. parser'.spill = <<>> /\ parser'.opStack \in -1..1 /\ parser'.wantsHead
      BY <2>1, <2>3 DEF Parsers
    <2>6. StateFits'
      BY <1>6, <2>5 DEF StateFits
    <2> QED
      BY <2>4, <2>6 DEF ParserInv
  <1>8. CASE ~(size <= Len(src))
    <2>1. /\ parser' = [Pushed EXCEPT !.spill = <<>>, !.wantsHead = FALSE,
                                       !.remaining = size - Len(src), !.phase = Rotate(0, Len(have))]
          /\ src' = <<>>
      BY <1>8 DEF ConsumeMessage
    <2>2. size - Len(src) \in Nat /\ size - Len(src) > 0
      BY <1>2, <1>3, <1>8
    <2>3. Len(have) \in Nat
      BY <1>2, <1>3
    <2>4. Rotate(0, Len(have)) \in 0..3
      BY <2>3, RotateType
    <2> HIDE DEF size, have
    <2>5. ParserTypeOK'
      BY <1>1, <1>4, <1>5, <1>6, <2>1, <2>2, <2>4, PushedFits DEF ParserInv, ParserTypeOK, Parsers
    <2>6. /\ parser'.spill = <<>> /\ parser'.opStack \in 0..1 /\ parser'.remaining > 0
      BY <1>1, <1>5, <2>1, <2>2, PushedFits
    <2>7. StateFits'
      BY <1>6, <2>6 DEF StateFits
    <2> QED
      BY <2>5, <2>7 DEF ParserInv
  <1> QED
    BY <1>7, <1>8

(* More of a frame is handled, and then its opcode is popped or something  *)
(* of it is still awaited.                                                 *)
LEMMA ContinueMessageKeeps ==
    ASSUME ParserInv, ContinueMessage
    PROVE  ParserInv'
  <1>1. /\ src \in Seq(FrameBytes(frames)) /\ Len(src) \in Nat
        /\ parser.remaining \in Nat /\ parser.remaining > 0
        /\ parser.opStack \in 0..1 /\ parser.spill = <<>>
    BY DEF ParserInv, ParserTypeOK, Parsers, StateFits, ContinueMessage
  <1>2. frames' = frames /\ wire' = wire
    BY DEF ContinueMessage
  <1>3. <<>> \in Seq(FrameBytes(frames)) /\ Len(<<>>) = 0
    OBVIOUS
  <1>4. CASE parser.remaining <= Len(src)
    <2>1. /\ parser' = [Popped(parser, parser.lastFin) EXCEPT !.wantsHead = TRUE, !.remaining = 0]
          /\ src' = Rest(ws', Drop(parser.remaining))
      BY <1>4 DEF ContinueMessage
    <2>2. src' \in Seq(FrameBytes(frames))
      BY <1>1, <1>4, <2>1, RestType DEF ParserInv
    <2>3. /\ Popped(parser, parser.lastFin) \in Parsers(frames)
          /\ Popped(parser, parser.lastFin).spill = <<>>
      <3>1. parser \in Parsers(frames) /\ parser.lastFin \in BOOLEAN
        BY DEF ParserInv, ParserTypeOK, Parsers
      <3> QED
        BY <1>1, <3>1, PoppedFits
    <2>4. ParserTypeOK'
      BY <1>2, <2>1, <2>2, <2>3 DEF ParserInv, ParserTypeOK, Parsers
    <2>5. parser'.spill = <<>> /\ parser'.opStack \in -1..1 /\ parser'.wantsHead
      BY <2>1, <2>3 DEF Parsers
    <2>6. StateFits'
      BY <1>3, <2>5 DEF StateFits
    <2> QED
      BY <2>4, <2>6 DEF ParserInv
  <1>5. CASE ~(parser.remaining <= Len(src))
    <2>1. /\ parser' = [parser EXCEPT !.remaining = parser.remaining - Len(src),
                                       !.phase = Rotate(parser.phase, Len(src))]
          /\ src' = Rest(ws', <<>>)
      BY <1>5 DEF ContinueMessage
    <2>2. src' = <<>>
      BY <2>1 DEF Rest
    <2>3. parser.remaining - Len(src) \in Nat /\ parser.remaining - Len(src) > 0
      BY <1>1, <1>5
    <2>4. Rotate(parser.phase, Len(src)) \in 0..3
      BY <1>1, RotateType DEF ParserInv, ParserTypeOK, Parsers
    <2>5. ParserTypeOK'
      BY <1>2, <1>3, <2>1, <2>2, <2>3, <2>4 DEF ParserInv, ParserTypeOK, Parsers
    <2>6. /\ parser'.spill = <<>> /\ parser'.opStack \in 0..1 /\ parser'.remaining > 0
      BY <1>1, <2>1, <2>3 DEF ParserInv, ParserTypeOK, Parsers
    <2>7. StateFits'
      BY <1>3, <2>6 DEF StateFits
    <2> QED
      BY <2>5, <2>7 DEF ParserInv
  <1> QED
    BY <1>4, <1>5

(* However the frames of a peer are cut into chunks, and whatever the      *)
(* frames are: a header that is kept fits into the fourteen bytes of spill *)
(* and their four-bit count, and there is an opcode on the stack whenever  *)
(* part of a frame is handled, of at most two (WebSocketProtocol.h).       *)
THEOREM StateFitsCorrect == FrameSpec => []StateFits
  <1>1. FrameInit => ParserInv
    BY ParserStarts
  <1>2. ParserInv /\ [(\E fs \in FrameStreams : StartFrames(fs)) \/ FrameStep]_frameVars => ParserInv'
    <2> SUFFICES ASSUME ParserInv, [(\E fs \in FrameStreams : StartFrames(fs)) \/ FrameStep]_frameVars
                 PROVE  ParserInv'
      OBVIOUS
    <2>1. CASE \E fs \in FrameStreams : StartFrames(fs)
      BY <2>1, StartFramesKeeps
    <2>2. CASE FrameStep
      BY <2>2, ReceiveKeeps, RefuseHeadKeeps, SpillHeadKeeps, ConsumeMessageKeeps, ContinueMessageKeeps
         DEF FrameStep
    <2>3. CASE UNCHANGED frameVars
      BY <2>3 DEF frameVars, ParserInv, ParserTypeOK, StateFits
    <2> QED
      BY <2>1, <2>2, <2>3
  <1>3. ParserInv => StateFits
    BY DEF ParserInv
  <1> QED
    BY <1>1, <1>2, <1>3, PTL DEF FrameSpec

-----------------------------------------------------------------------------
(* What is left of the stream.                                             *)

\* The bytes of a frame's header, and of its payload.
HeadLen(fs, r) == fs[r].header
PayloadLen(fs, r) == fs[r].len

(* The fields of a frame.                                                  *)
LEMMA FrameFields ==
    ASSUME NEW fs \in Seq(Frame), NEW r \in DOMAIN fs
    PROVE  /\ fs[r].header \in {6, 8, 14} /\ fs[r].header \in Nat /\ fs[r].header >= 6
           /\ fs[r].len \in Nat /\ fs[r].op \in 0..15
           /\ fs[r].fin \in BOOLEAN /\ fs[r].rsv \in BOOLEAN /\ fs[r].sound \in BOOLEAN
           /\ HeadLen(fs, r) = fs[r].header /\ HeadLen(fs, r) \in Nat /\ HeadLen(fs, r) >= 1
           /\ PayloadLen(fs, r) = fs[r].len /\ PayloadLen(fs, r) \in Nat
           /\ r \in Nat /\ r >= 1 /\ r <= Len(fs) /\ Len(fs) \in Nat /\ DOMAIN fs = 1..Len(fs)
  <1>1. fs[r] \in Frame
    OBVIOUS
  <1>2. /\ fs[r].header \in {6, 8, 14} /\ fs[r].len \in Nat /\ fs[r].op \in 0..15
        /\ fs[r].fin \in BOOLEAN /\ fs[r].rsv \in BOOLEAN /\ fs[r].sound \in BOOLEAN
    BY <1>1 DEF Frame, HeaderSizes
  <1>3. r \in 1..Len(fs) /\ DOMAIN fs = 1..Len(fs) /\ Len(fs) \in Nat
    OBVIOUS
  <1>4. HeadLen(fs, r) = fs[r].header /\ PayloadLen(fs, r) = fs[r].len
    BY DEF HeadLen, PayloadLen
  <1>5. fs[r].header \in Nat /\ fs[r].header >= 6
    BY <1>2
  <1> QED
    BY <1>2, <1>3, <1>4, <1>5

(* The bytes of a frame.                                                   *)
LEMMA WireIs ==
    ASSUME NEW fs \in Seq(Frame), NEW r \in DOMAIN fs
    PROVE  /\ Wire(fs, r) \in Seq(FrameBytes(fs))
           /\ Len(Wire(fs, r)) = HeadLen(fs, r) + PayloadLen(fs, r)
           /\ \A j \in 1..(HeadLen(fs, r) + PayloadLen(fs, r)) : Wire(fs, r)[j] = <<r, j - HeadLen(fs, r)>>
  <1> DEFINE h == HeadLen(fs, r)
             n == h + PayloadLen(fs, r)
             t == Wire(fs, r)
             S == FrameBytes(fs)
  <1>1. h \in Nat /\ n \in Nat
    BY FrameFields
  <1>2. t = [j \in 1..n |-> <<r, j - h>>]
    BY DEF Wire, HeadLen, PayloadLen
  <1>3. \A j \in 1..n : <<r, j - h>> \in S
    <2> SUFFICES ASSUME NEW j \in 1..n PROVE <<r, j - h>> \in FrameBytes(fs)
      OBVIOUS
    <2>1. r \in 1..Len(fs) /\ j - h \in Int
      BY <1>1
    <2> QED
      BY <2>1 DEF FrameBytes
  <1> HIDE DEF n, h, t, S
  <1>4. t \in Seq(S)
    <2>1. [j \in 1..n |-> <<r, j - h>>] \in [1..n -> S]
      BY <1>3, Zenon
    <2>2. t \in [1..n -> S]
      BY <1>2, <2>1
    <2> QED
      BY <1>1, <2>2
  <1>5. Len(t) = n
    BY <1>1, <1>2
  <1>6. \A j \in 1..n : t[j] = <<r, j - h>>
    BY <1>2
  <1> QED
    BY <1>4, <1>5, <1>6 DEF n, h, t, S

\* The byte that comes behind byte p.
NextOnWire(fs, p) ==
    IF p[2] < PayloadLen(fs, p[1]) THEN <<p[1], p[2] + 1>> ELSE <<p[1] + 1, 1 - HeadLen(fs, p[1] + 1)>>

\* Bytes that come one behind the other, up to the last one of all.
WireChain(fs, s) ==
    /\ \A j \in 1..(Len(s) - 1) : s[j + 1] = NextOnWire(fs, s[j])
    /\ s # <<>> => s[Len(s)] = <<Len(fs), PayloadLen(fs, Len(fs))>>

\* s comes when all of frame r was parsed but the last bytes of its payload.
WireBegins(fs, s, r, left) ==
    IF left > 0 THEN s # <<>> /\ s[1] = <<r, PayloadLen(fs, r) - left + 1>>
    ELSE IF r < Len(fs) THEN s # <<>> /\ s[1] = <<r + 1, 1 - HeadLen(fs, r + 1)>>
    ELSE s = <<>>

WireStream(fs, s, r, left) == WireChain(fs, s) /\ WireBegins(fs, s, r, left)

\* The bytes s are what is left of the stream from byte i of frame r on.
WireFrom(fs, s, r, i) ==
    /\ fs \in Seq(Frame) /\ r \in DOMAIN fs /\ i \in Int /\ i <= PayloadLen(fs, r)
    /\ s \in Seq(FrameBytes(fs)) /\ WireChain(fs, s) /\ s # <<>> /\ s[1] = <<r, i>>

(* It goes on with the bytes of this frame.                                *)
LEMMA WireRun ==
    ASSUME NEW fs, NEW s, NEW r, NEW i, WireFrom(fs, s, r, i)
    PROVE  \A k \in Nat : k < Len(s) /\ i + k <= PayloadLen(fs, r) => s[k + 1] = <<r, i + k>>
  <1> DEFINE T == {k \in Nat : k < Len(s) /\ i + k <= PayloadLen(fs, r) => s[k + 1] = <<r, i + k>>}
  <1>0. i \in Int /\ PayloadLen(fs, r) \in Nat /\ Len(s) \in Nat /\ s[1] = <<r, i>>
    BY FrameFields DEF WireFrom
  <1>1. 0 \in T
    BY <1>0
  <1>2. ASSUME NEW k \in Nat, k \in T PROVE k + 1 \in T
    <2> SUFFICES ASSUME k + 1 < Len(s), i + (k + 1) <= PayloadLen(fs, r) PROVE s[(k + 1) + 1] = <<r, i + (k + 1)>>
      OBVIOUS
    <2>1. s[k + 1] = <<r, i + k>>
      BY <1>0, <1>2
    <2>2. k + 1 \in 1..(Len(s) - 1)
      BY <1>0
    <2>3. s[(k + 1) + 1] = NextOnWire(fs, s[k + 1])
      BY <2>2 DEF WireFrom, WireChain
    <2>4. NextOnWire(fs, <<r, i + k>>) = <<r, (i + k) + 1>>
      BY <1>0 DEF NextOnWire
    <2> QED
      BY <1>0, <2>1, <2>3, <2>4
  <1> HIDE DEF T
  <1>3. Nat \subseteq T
    BY <1>1, <1>2, Induction
  <1> QED
    BY <1>3 DEF T

(* All of its bytes are there.                                             *)
LEMMA WireEnough ==
    ASSUME NEW fs, NEW s, NEW r, NEW i, WireFrom(fs, s, r, i)
    PROVE  Len(s) >= PayloadLen(fs, r) - i + 1
  <1>0. i \in Int /\ PayloadLen(fs, r) \in Nat /\ Len(s) \in Nat /\ Len(s) >= 1
    BY FrameFields DEF WireFrom
  <1> SUFFICES ASSUME Len(s) < PayloadLen(fs, r) - i + 1 PROVE FALSE
    BY <1>0
  <1> DEFINE k == Len(s) - 1
  <1>1. k \in Nat /\ k < Len(s) /\ i + k <= PayloadLen(fs, r) /\ k + 1 = Len(s)
    BY <1>0
  <1>2. s[k + 1] = <<r, i + k>>
    BY <1>1, WireRun
  <1>3. s[Len(s)] = <<Len(fs), PayloadLen(fs, Len(fs))>>
    BY DEF WireFrom, WireChain
  <1>4. r = Len(fs) /\ i + k = PayloadLen(fs, Len(fs))
    BY <1>1, <1>2, <1>3
  <1> QED
    BY <1>0, <1>1, <1>4

(* What is left when part of them was taken.                               *)
LEMMA WireOnward ==
    ASSUME NEW fs, NEW s, NEW r, NEW i, WireFrom(fs, s, r, i), NEW k \in Nat, k <= PayloadLen(fs, r) - i + 1
    PROVE  WireStream(fs, After(k, s), r, PayloadLen(fs, r) - (i + k) + 1)
  <1> DEFINE t == After(k, s)
             n == Len(s)
             left == PayloadLen(fs, r) - (i + k) + 1
  <1>0. /\ i \in Int /\ PayloadLen(fs, r) \in Nat /\ n \in Nat /\ n >= 1 /\ s \in Seq(FrameBytes(fs))
        /\ i <= PayloadLen(fs, r)
        /\ fs \in Seq(Frame) /\ r \in DOMAIN fs
        /\ Len(fs) \in Nat /\ r \in 1..Len(fs) /\ DOMAIN fs = 1..Len(fs)
    BY FrameFields DEF WireFrom
  <1>1. n >= PayloadLen(fs, r) - i + 1 /\ k \in 0..n
    BY <1>0, WireEnough
  <1>2. t \in Seq(FrameBytes(fs)) /\ Len(t) = n - k /\ \A j \in 1..(n - k) : t[j] = s[k + j]
    BY <1>0, <1>1, AfterIs
  <1>3. \A j \in 1..(n - 1) : s[j + 1] = NextOnWire(fs, s[j])
    BY DEF WireFrom, WireChain
  <1>4. s[n] = <<Len(fs), PayloadLen(fs, Len(fs))>>
    BY DEF WireFrom, WireChain
  <1> HIDE DEF t
  <1>5. WireChain(fs, t)
    <2>1. ASSUME NEW j \in 1..(Len(t) - 1) PROVE t[j + 1] = NextOnWire(fs, t[j])
      <3>1. j \in 1..(n - k) /\ j + 1 \in 1..(n - k) /\ k + j \in 1..(n - 1) /\ k + (j + 1) = (k + j) + 1
        BY <1>0, <1>1, <1>2
      <3>2. t[j] = s[k + j]
        BY <1>2, <3>1
      <3>3. t[j + 1] = s[k + (j + 1)]
        <4> DEFINE l == j + 1
        <4>1. l \in 1..(n - k)
          BY <3>1
        <4> HIDE DEF l
        <4>2. t[l] = s[k + l]
          BY <1>2, <4>1
        <4> QED
          BY <4>2 DEF l
      <3> QED
        BY <1>3, <3>1, <3>2, <3>3
    <2>2. ASSUME t # <<>> PROVE t[Len(t)] = <<Len(fs), PayloadLen(fs, Len(fs))>>
      <3>1. Len(t) \in 1..(n - k) /\ k + Len(t) = n
        BY <1>0, <1>1, <1>2, <2>2
      <3> QED
        BY <1>2, <1>4, <3>1
    <2> QED
      BY <2>1, <2>2 DEF WireChain
  <1>6. left \in Nat
    BY <1>0
  <1>7. CASE left > 0
    <2>1. k < n /\ i + k <= PayloadLen(fs, r)
      BY <1>0, <1>1, <1>7
    <2>2. s[k + 1] = <<r, i + k>>
      BY <2>1, WireRun
    <2>3. 1 \in 1..(n - k) /\ Len(t) # 0
      BY <1>0, <1>1, <1>2, <2>1
    <2>4. t # <<>> /\ t[1] = s[k + 1]
      BY <1>2, <2>3
    <2>5. PayloadLen(fs, r) - left + 1 = i + k
      BY <1>0
    <2>6. WireBegins(fs, t, r, left)
      BY <1>7, <2>2, <2>4, <2>5 DEF WireBegins
    <2> QED
      BY <1>5, <2>6 DEF t, WireStream
  <1>8. CASE left = 0
    <2>1. k - 1 \in Nat /\ k - 1 < n /\ i + (k - 1) = PayloadLen(fs, r) /\ (k - 1) + 1 = k
      BY <1>0, <1>1, <1>8
    <2>2. s[k] = <<r, PayloadLen(fs, r)>>
      <3>1. i + (k - 1) <= PayloadLen(fs, r)
        BY <1>0, <2>1
      <3>2. s[(k - 1) + 1] = <<r, i + (k - 1)>>
        BY <2>1, <3>1, WireRun
      <3> QED
        BY <2>1, <3>2
    <2>3. ~(PayloadLen(fs, r) < PayloadLen(fs, r))
      BY <1>0
    <2>4. NextOnWire(fs, s[k]) = <<r + 1, 1 - HeadLen(fs, r + 1)>>
      BY <2>2, <2>3 DEF NextOnWire
    <2>5. ASSUME k < n PROVE 1 \in 1..(n - k) /\ t # <<>> /\ t[1] = <<r + 1, 1 - HeadLen(fs, r + 1)>>
      <3>1. 1 \in 1..(n - k) /\ k \in 1..(n - 1) /\ Len(t) # 0
        BY <1>0, <1>2, <2>1, <2>5
      <3>2. t[1] = s[k + 1] /\ t # <<>>
        BY <1>2, <3>1
      <3> QED
        BY <1>3, <2>4, <3>1, <3>2
    <2>6. CASE r < Len(fs)
      <3>1. k # n
        BY <1>0, <1>4, <2>2, <2>6
      <3>2. k < n
        BY <1>0, <1>1, <3>1
      <3>3. WireBegins(fs, t, r, left)
        BY <1>8, <2>5, <2>6, <3>2 DEF WireBegins
      <3> QED
        BY <1>5, <3>3 DEF t, WireStream
    <2>7. CASE ~(r < Len(fs))
      <3>1. r = Len(fs)
        BY <1>0, <2>7
      <3>2. ~(k < n)
        <4> SUFFICES ASSUME k < n PROVE FALSE
          OBVIOUS
        <4>1. t[1] \in FrameBytes(fs) /\ t[1] = <<r + 1, 1 - HeadLen(fs, r + 1)>>
          BY <1>2, <2>5
        <4>2. r + 1 \in 1..Len(fs)
          BY <1>0, <4>1 DEF FrameBytes
        <4> QED
          BY <1>0, <3>1, <4>2
      <3>3. Len(t) = 0
        BY <1>0, <1>1, <1>2, <3>2
      <3>4. t = <<>>
        BY <1>2, <3>3
      <3>5. WireBegins(fs, t, r, left)
        BY <1>8, <2>7, <3>4 DEF WireBegins
      <3> QED
        BY <1>5, <3>5 DEF t, WireStream
    <2> QED
      BY <2>6, <2>7
  <1> QED
    BY <1>6, <1>7, <1>8

(* Behind a frame comes the header of the next one, and its payload.       *)
LEMMA FrameNext ==
    ASSUME NEW fs \in Seq(Frame), NEW s \in Seq(FrameBytes(fs)), NEW q \in 0..(Len(fs) - 1), WireStream(fs, s, q, 0)
    PROVE  /\ q + 1 \in DOMAIN fs
           /\ s # <<>> /\ s[1] = <<q + 1, 1 - HeadLen(fs, q + 1)>>
           /\ Len(s) >= HeadLen(fs, q + 1) + PayloadLen(fs, q + 1)
           /\ \A j \in 1..PayloadLen(fs, q + 1) : s[HeadLen(fs, q + 1) + j] = <<q + 1, j>>
           /\ \A m \in 0..PayloadLen(fs, q + 1) :
                  WireStream(fs, After(HeadLen(fs, q + 1) + m, s), q + 1, PayloadLen(fs, q + 1) - m)
  <1> DEFINE r == q + 1
             h == HeadLen(fs, r)
             i == 1 - h
  <1>1. Len(fs) \in Nat /\ r \in DOMAIN fs /\ q < Len(fs)
    OBVIOUS
  <1>2. h \in Nat /\ h >= 1 /\ PayloadLen(fs, r) \in Nat
    BY <1>1, FrameFields
  <1>3. s # <<>> /\ s[1] = <<r, i>> /\ WireChain(fs, s)
    BY <1>1 DEF WireStream, WireBegins
  <1> HIDE DEF r, h
  <1>4. WireFrom(fs, s, r, i)
    BY <1>1, <1>2, <1>3 DEF WireFrom
  <1> HIDE DEF i
  <1>5. Len(s) >= PayloadLen(fs, r) - i + 1
    BY <1>4, WireEnough
  <1>6. Len(s) >= h + PayloadLen(fs, r)
    BY <1>2, <1>5 DEF i
  <1>7. ASSUME NEW j \in 1..PayloadLen(fs, r) PROVE s[h + j] = <<r, j>>
    <2>1. h + j - 1 \in Nat /\ h + j - 1 < Len(s) /\ i + (h + j - 1) <= PayloadLen(fs, r)
          /\ (h + j - 1) + 1 = h + j /\ i + (h + j - 1) = j
      BY <1>2, <1>6 DEF i
    <2>2. s[(h + j - 1) + 1] = <<r, i + (h + j - 1)>>
      BY <1>4, <2>1, WireRun
    <2> QED
      BY <2>1, <2>2
  <1>8. ASSUME NEW m \in 0..PayloadLen(fs, r) PROVE WireStream(fs, After(h + m, s), r, PayloadLen(fs, r) - m)
    <2>1. /\ h + m \in Nat /\ h + m <= PayloadLen(fs, r) - i + 1
          /\ PayloadLen(fs, r) - (i + (h + m)) + 1 = PayloadLen(fs, r) - m
      BY <1>2 DEF i
    <2>2. WireStream(fs, After(h + m, s), r, PayloadLen(fs, r) - (i + (h + m)) + 1)
      BY <1>4, <2>1, WireOnward
    <2> QED
      BY <2>1, <2>2
  <1> QED
    BY <1>1, <1>3, <1>6, <1>7, <1>8 DEF r, h, i

(* A payload goes on with its next byte.                                   *)
LEMMA PayloadNext ==
    ASSUME NEW fs \in Seq(Frame), NEW s \in Seq(FrameBytes(fs)), NEW r \in DOMAIN fs,
           NEW left \in 1..PayloadLen(fs, r), WireStream(fs, s, r, left)
    PROVE  /\ Len(s) >= left
           /\ \A j \in 1..left : s[j] = <<r, PayloadLen(fs, r) - left + j>>
           /\ \A m \in 0..left : WireStream(fs, After(m, s), r, left - m)
  <1> DEFINE i == PayloadLen(fs, r) - left + 1
  <1>1. PayloadLen(fs, r) \in Nat /\ left \in Nat /\ left >= 1 /\ left <= PayloadLen(fs, r)
    BY FrameFields
  <1>2. s # <<>> /\ s[1] = <<r, i>> /\ WireChain(fs, s)
    BY <1>1 DEF WireStream, WireBegins
  <1>3. WireFrom(fs, s, r, i)
    BY <1>1, <1>2 DEF WireFrom
  <1> HIDE DEF i
  <1>4. Len(s) >= PayloadLen(fs, r) - i + 1
    BY <1>3, WireEnough
  <1>5. Len(s) >= left
    BY <1>1, <1>4 DEF i
  <1>6. ASSUME NEW j \in 1..left PROVE s[j] = <<r, PayloadLen(fs, r) - left + j>>
    <2>1. j - 1 \in Nat /\ j - 1 < Len(s) /\ i + (j - 1) <= PayloadLen(fs, r)
          /\ (j - 1) + 1 = j /\ i + (j - 1) = PayloadLen(fs, r) - left + j
      BY <1>1, <1>5 DEF i
    <2>2. s[(j - 1) + 1] = <<r, i + (j - 1)>>
      BY <1>3, <2>1, WireRun
    <2> QED
      BY <2>1, <2>2
  <1>7. ASSUME NEW m \in 0..left PROVE WireStream(fs, After(m, s), r, left - m)
    <2>1. m \in Nat /\ m <= PayloadLen(fs, r) - i + 1 /\ PayloadLen(fs, r) - (i + m) + 1 = left - m
      BY <1>1 DEF i
    <2>2. WireStream(fs, After(m, s), r, PayloadLen(fs, r) - (i + m) + 1)
      BY <1>3, <2>1, WireOnward
    <2> QED
      BY <2>1, <2>2
  <1> QED
    BY <1>5, <1>6, <1>7

\* The bytes b of the first r frames.
WireUpto(fs, b, r) ==
    /\ b \in Seq(FrameBytes(fs))
    /\ \A j \in 1..(Len(b) - 1) : b[j + 1] = NextOnWire(fs, b[j])
    /\ IF r = 0 THEN b = <<>>
       ELSE b # <<>> /\ b[1] = <<1, 1 - HeadLen(fs, 1)>> /\ b[Len(b)] = <<r, PayloadLen(fs, r)>>

(* And those of a frame come behind them.                                  *)
LEMMA WireUptoNext ==
    ASSUME NEW fs \in Seq(Frame), NEW b, NEW r \in Nat, r + 1 \in DOMAIN fs, WireUpto(fs, b, r)
    PROVE  WireUpto(fs, b \o Wire(fs, r + 1), r + 1)
  <1> DEFINE q == r + 1
             t == Wire(fs, q)
             h == HeadLen(fs, q)
             n == h + PayloadLen(fs, q)
             m == Len(b)
             s == b \o t
  <1>1. h \in Nat /\ h >= 1 /\ PayloadLen(fs, q) \in Nat /\ n \in Nat /\ n >= 1 /\ q \in DOMAIN fs
    BY FrameFields
  <1>2. t \in Seq(FrameBytes(fs)) /\ Len(t) = n /\ \A j \in 1..n : t[j] = <<q, j - h>>
    BY <1>1, WireIs
  <1>3. b \in Seq(FrameBytes(fs)) /\ m \in Nat
    BY DEF WireUpto
  <1> HIDE DEF t, h
  <1>4. s \in Seq(FrameBytes(fs)) /\ Len(s) = m + n
    <2>0. b \in Seq(FrameBytes(fs)) /\ t \in Seq(FrameBytes(fs))
      BY <1>2, <1>3
    <2>1. s \in Seq(FrameBytes(fs)) /\ Len(s) = Len(b) + Len(t)
      BY <2>0
    <2> QED
      BY <1>2, <2>1
  <1>5. /\ \A j \in 1..m : s[j] = b[j]
        /\ \A j \in 1..n : s[m + j] = <<q, j - h>>
    <2>1. \A j \in 1..m : s[j] = b[j]
      BY <1>2, <1>3
    <2>2. ASSUME NEW j \in 1..n PROVE s[m + j] = <<q, j - h>>
      <3>1. s[m + j] = t[j]
        BY <1>2, <1>3, <1>1
      <3> QED
        BY <1>2, <3>1
    <2> QED
      BY <2>1, <2>2
  <1> HIDE DEF s
  <1>6. r = 0 => m = 0
    BY DEF WireUpto
  <1>7. r # 0 => m >= 1 /\ b[1] = <<1, 1 - HeadLen(fs, 1)>> /\ b[m] = <<r, PayloadLen(fs, r)>>
    BY <1>3 DEF WireUpto
  <1>8. s # <<>> /\ s[Len(s)] = <<q, PayloadLen(fs, q)>>
    <2>1. n \in 1..n /\ n - h = PayloadLen(fs, q)
      BY <1>1
    <2> QED
      BY <1>1, <1>3, <1>4, <1>5, <2>1
  <1>9. s[1] = <<1, 1 - HeadLen(fs, 1)>>
    <2>1. CASE r = 0
      <3>1. 1 \in 1..n /\ m + 1 = 1 /\ q = 1
        BY <1>1, <1>6, <2>1
      <3> QED
        BY <1>5, <3>1 DEF h
    <2>2. CASE r # 0
      BY <1>5, <1>7, <1>3, <2>2
    <2> QED
      BY <2>1, <2>2
  <1>10. ASSUME NEW j \in 1..(Len(s) - 1) PROVE s[j + 1] = NextOnWire(fs, s[j])
    <2>1. CASE j < m
      <3>1. j \in 1..(m - 1) /\ j \in 1..m /\ j + 1 \in 1..m
        BY <1>3, <2>1
      <3>2. b[j + 1] = NextOnWire(fs, b[j])
        BY <3>1 DEF WireUpto
      <3> QED
        BY <1>5, <3>1, <3>2
    <2>2. CASE j = m
      <3>1. r # 0 /\ j \in 1..m /\ 1 \in 1..n
        BY <1>1, <1>6, <2>2
      <3>2. s[j] = <<r, PayloadLen(fs, r)>> /\ s[j + 1] = <<q, 1 - h>>
        BY <1>5, <1>7, <2>2, <3>1
      <3>3. r \in DOMAIN fs /\ PayloadLen(fs, r) \in Nat
        <4>1. r \in DOMAIN fs
          BY <3>1
        <4> QED
          BY <4>1, FrameFields
      <3>4. NextOnWire(fs, <<r, PayloadLen(fs, r)>>) = <<q, 1 - h>>
        BY <3>3 DEF NextOnWire, h
      <3> QED
        BY <3>2, <3>4
    <2>3. CASE j > m
      <3> DEFINE i == j - m
      <3>1. i \in 1..(n - 1) /\ i \in 1..n /\ i + 1 \in 1..n /\ m + i = j /\ m + (i + 1) = j + 1
        BY <1>1, <1>3, <1>4, <2>3
      <3>2. s[j] = <<q, i - h>> /\ s[j + 1] = <<q, (i + 1) - h>>
        BY <1>5, <3>1
      <3>3. i - h < PayloadLen(fs, q) /\ (i - h) + 1 = (i + 1) - h
        BY <1>1, <3>1
      <3>4. NextOnWire(fs, <<q, i - h>>) = <<q, (i - h) + 1>>
        BY <3>3 DEF NextOnWire
      <3> QED
        BY <3>2, <3>3, <3>4
    <2> QED
      BY <1>3, <2>1, <2>2, <2>3
  <1>11. q # 0 /\ WireUpto(fs, s, q)
    BY <1>4, <1>8, <1>9, <1>10 DEF WireUpto
  <1> QED
    BY <1>11 DEF s, t

(* What the peer sends is a stream that begins with the first header.      *)
LEMMA WireStarts ==
    ASSUME NEW fs \in Seq(Frame)
    PROVE  AllBytes(fs) \in Seq(FrameBytes(fs)) /\ WireStream(fs, AllBytes(fs), 0, 0)
  <1> DEFINE h == CHOOSE h : h = [r \in 0..Len(fs) |-> IF r = 0 THEN <<>> ELSE h[r - 1] \o Wire(fs, r)]
             T == {r \in Nat : r <= Len(fs) => WireUpto(fs, h[r], r)}
  <1>1. Len(fs) \in Nat /\ DOMAIN fs = 1..Len(fs)
    OBVIOUS
  <1>2. h = [r \in 0..Len(fs) |-> IF r = 0 THEN <<>> ELSE h[r - 1] \o Wire(fs, r)]
    BY <1>1, FrameBytesExist DEF FramesUpTo
  <1>3. AllBytes(fs) = h[Len(fs)]
    BY DEF AllBytes
  <1> HIDE DEF h
  <1>4. 0 \in T
    <2>1. h[0] = <<>>
      BY <1>1, <1>2
    <2>2. <<>> \in Seq(FrameBytes(fs)) /\ Len(<<>>) = 0
      OBVIOUS
    <2>3. \A j \in 1..(0 - 1) : FALSE
      OBVIOUS
    <2>4. WireUpto(fs, <<>>, 0)
      BY <2>2, <2>3 DEF WireUpto
    <2> QED
      BY <2>1, <2>4
  <1>5. ASSUME NEW r \in Nat, r \in T PROVE r + 1 \in T
    <2> SUFFICES ASSUME r + 1 <= Len(fs) PROVE WireUpto(fs, h[r + 1], r + 1)
      OBVIOUS
    <2>1. WireUpto(fs, h[r], r)
      BY <1>1, <1>5
    <2>2. r + 1 \in DOMAIN fs /\ r + 1 \in 0..Len(fs) /\ r + 1 # 0 /\ (r + 1) - 1 = r
      BY <1>1
    <2>3. h[r + 1] = h[r] \o Wire(fs, r + 1)
      BY <1>2, <2>2
    <2> QED
      BY <2>1, <2>2, <2>3, WireUptoNext
  <1> HIDE DEF T
  <1>6. Nat \subseteq T
    BY <1>4, <1>5, Induction
  <1>7. WireUpto(fs, h[Len(fs)], Len(fs))
    BY <1>1, <1>6 DEF T
  <1> DEFINE s == h[Len(fs)]
  <1>8. s \in Seq(FrameBytes(fs)) /\ \A j \in 1..(Len(s) - 1) : s[j + 1] = NextOnWire(fs, s[j])
    BY <1>7 DEF WireUpto
  <1>9. s # <<>> => s[Len(s)] = <<Len(fs), PayloadLen(fs, Len(fs))>>
    BY <1>7 DEF WireUpto
  <1>10. WireBegins(fs, s, 0, 0)
    BY <1>1, <1>7 DEF WireUpto, WireBegins
  <1> QED
    BY <1>3, <1>8, <1>9, <1>10 DEF WireStream, WireChain

-----------------------------------------------------------------------------
(* What the frames mean.                                                   *)

\* What the handlers are told and the peer is answered, and what the frames
\* of fs mean up to one of them.
Sayings(fs) ==
    [kind : {"forced", "ponged"}]
    \cup [kind : {"pong"}, data : Seq(FrameBytes(fs))]
    \cup [kind : {"message"}, op : 0..2, data : Seq(FrameBytes(fs))]
    \cup [kind : {"end"}, data : Seq(FrameBytes(fs)), code : {1000, 1005, 1006}]
Hearings(fs) == [said : Seq(Sayings(fs)), op : 0..2, data : Seq(FrameBytes(fs)), over : BOOLEAN]

\* h[f] is what the first f frames mean, for f up to n.
HearsUpTo(fs, n, h) == h = [f \in 0..n |-> IF f = 0 THEN Nothing ELSE HeardFrame(fs, h[f - 1], f)]

(* One frame more means something too.                                     *)
LEMMA HearOneMore ==
    ASSUME NEW fs, NEW n \in Nat, NEW g, HearsUpTo(fs, n, g)
    PROVE  \E h : HearsUpTo(fs, n + 1, h)
  <1> DEFINE m == n + 1
             h == [f \in 0..m |-> IF f = m THEN HeardFrame(fs, g[n], m) ELSE g[f]]
             k == [f \in 0..m |-> IF f = 0 THEN Nothing ELSE HeardFrame(fs, h[f - 1], f)]
  <1>0. m \in Nat /\ m # 0 /\ m - 1 = n /\ n \in 0..m /\ n # m /\ m \in 0..m
    OBVIOUS
  <1>1. ASSUME NEW f \in 0..m PROVE h[f] = k[f]
    <2>1. CASE f = m
      <3>1. h[n] = g[n] /\ h[m] = HeardFrame(fs, g[n], m)
        BY <1>0
      <3>2. k[m] = HeardFrame(fs, h[m - 1], m)
        BY <1>0
      <3> QED
        BY <1>0, <2>1, <3>1, <3>2
    <2>2. CASE f # m
      <3>1. f \in 0..n /\ (f # 0 => f - 1 \in 0..n /\ f - 1 \in 0..m /\ f - 1 # m)
        BY <2>2
      <3>2. g[f] = IF f = 0 THEN Nothing ELSE HeardFrame(fs, g[f - 1], f)
        BY <3>1 DEF HearsUpTo
      <3> QED
        BY <2>2, <3>1, <3>2
    <2> QED
      BY <2>1, <2>2
  <1>2. h = k
    BY <1>1
  <1> QED
    BY <1>2 DEF HearsUpTo

(* So Hearing says what one frame after the other means.                   *)
LEMMA HearingIs ==
    ASSUME NEW fs \in Seq(Frame)
    PROVE  /\ Hearing(fs)[0] = Nothing
           /\ \A r \in 1..Len(fs) : Hearing(fs)[r] = HeardFrame(fs, Hearing(fs)[r - 1], r)
  <1> DEFINE N == Len(fs)
             T == {n \in Nat : \E h : HearsUpTo(fs, n, h)}
             g == CHOOSE h : h = [f \in 0..N |-> IF f = 0 THEN Nothing ELSE HeardFrame(fs, h[f - 1], f)]
  <1>0. N \in Nat
    OBVIOUS
  <1>1. 0 \in T
    <2>1. HearsUpTo(fs, 0, [f \in 0..0 |-> Nothing])
      BY DEF HearsUpTo
    <2> QED
      BY <2>1
  <1>2. ASSUME NEW n \in Nat, n \in T PROVE n + 1 \in T
    BY <1>2, HearOneMore
  <1> HIDE DEF T
  <1>3. N \in T
    BY <1>0, <1>1, <1>2, Induction
  <1>4. \E h : h = [f \in 0..N |-> IF f = 0 THEN Nothing ELSE HeardFrame(fs, h[f - 1], f)]
    BY <1>3 DEF T, HearsUpTo
  <1>5. g = [f \in 0..N |-> IF f = 0 THEN Nothing ELSE HeardFrame(fs, g[f - 1], f)]
    BY <1>4
  <1>6. Hearing(fs) = g
    BY DEF Hearing
  <1> HIDE DEF g, N
  <1>7. g[0] = Nothing
    BY <1>0, <1>5
  <1>8. \A r \in 1..N : g[r] = HeardFrame(fs, g[r - 1], r)
    BY <1>0, <1>5
  <1> QED
    BY <1>6, <1>7, <1>8 DEF N

(* Something more is said.                                                 *)
LEMMA Telling ==
    ASSUME NEW fs, NEW m \in Hearings(fs), NEW x \in Sayings(fs)
    PROVE  /\ Tell(m, x) = [m EXCEPT !.said = Append(m.said, x)]
           /\ Tell(m, x) \in Hearings(fs)
           /\ Tell(m, x).said = Append(m.said, x) /\ Tell(m, x).op = m.op
           /\ Tell(m, x).data = m.data /\ Tell(m, x).over = m.over
  <1> DEFINE s == Append(m.said, x)
  <1>1. s \in Seq(Sayings(fs))
    BY DEF Hearings
  <1>2. Tell(m, x) = [m EXCEPT !.said = s]
    BY DEF Tell
  <1> HIDE DEF s
  <1>3. /\ Tell(m, x) \in Hearings(fs)
        /\ Tell(m, x).said = s /\ Tell(m, x).op = m.op
        /\ Tell(m, x).data = m.data /\ Tell(m, x).over = m.over
    BY <1>1, <1>2 DEF Hearings
  <1> QED
    BY <1>2, <1>3 DEF s

(* That the connection was closed is said last.                            *)
LEMMA Failing ==
    ASSUME NEW fs, NEW m \in Hearings(fs)
    PROVE  /\ Fail(m) \in Hearings(fs) /\ Fail(m).over
           /\ [kind |-> "forced"] \in Sayings(fs)
           /\ Fail(m).said = Append(m.said, [kind |-> "forced"])
  <1> DEFINE x == [kind |-> "forced"]
  <1>1. x \in Sayings(fs)
    BY DEF Sayings
  <1>2. Fail(m) = [Tell(m, x) EXCEPT !.over = TRUE]
    BY DEF Fail
  <1> HIDE DEF x
  <1>3. Tell(m, x) \in Hearings(fs) /\ Tell(m, x).said = Append(m.said, x)
    BY <1>1, Telling
  <1>4. Fail(m) \in Hearings(fs) /\ Fail(m).over /\ Fail(m).said = Append(m.said, x)
    BY <1>2, <1>3 DEF Hearings
  <1> QED
    BY <1>1, <1>4 DEF x

\* t begins with s.
Leads(s, t) == Len(s) <= Len(t) /\ \A i \in DOMAIN s : s[i] = t[i]

(* What was said stays said.                                               *)
LEMMA LeadsMore ==
    ASSUME NEW S, NEW s \in Seq(S), NEW x \in S
    PROVE  Leads(s, Append(s, x)) /\ Leads(s, s)
  BY DEF Leads

(* And what is said later comes behind all of it.                          *)
LEMMA LeadsOn ==
    ASSUME NEW S, NEW s \in Seq(S), NEW t \in Seq(S), NEW u \in Seq(S), Leads(s, t), Leads(t, u)
    PROVE  Leads(s, u)
  BY DEF Leads

\* n bytes of the payload of frame f, behind its first a.
Part(f, a, n) == [i \in 1..n |-> <<f, a + i>>]

(* A part of a payload.                                                    *)
LEMMA PartIs ==
    ASSUME NEW fs, NEW f \in 1..Len(fs), NEW a \in Nat, NEW n \in Nat
    PROVE  /\ Part(f, a, n) \in Seq(FrameBytes(fs)) /\ Len(Part(f, a, n)) = n
           /\ \A i \in 1..n : Part(f, a, n)[i] = <<f, a + i>>
  <1> DEFINE t == Part(f, a, n)
             S == FrameBytes(fs)
  <1>1. t = [i \in 1..n |-> <<f, a + i>>]
    BY DEF Part
  <1>2. \A i \in 1..n : <<f, a + i>> \in S
    <2> SUFFICES ASSUME NEW i \in 1..n PROVE <<f, a + i>> \in S
      OBVIOUS
    <2>1. a + i \in Int
      OBVIOUS
    <2> QED
      BY <2>1 DEF FrameBytes
  <1> HIDE DEF t, S
  <1>3. [i \in 1..n |-> <<f, a + i>>] \in [1..n -> S]
    BY <1>2, Zenon
  <1>4. t \in Seq(S)
    <2>1. t \in [1..n -> S]
      BY <1>1, <1>3
    <2> QED
      BY <2>1
  <1>5. Len(t) = n /\ \A i \in 1..n : t[i] = <<f, a + i>>
    BY <1>1
  <1> QED
    BY <1>4, <1>5 DEF t, S

(* The payload is the part that is all of it, and none of it is nothing.   *)
LEMMA PartAll ==
    ASSUME NEW fs \in Seq(Frame), NEW f \in DOMAIN fs
    PROVE  Payload(fs, f) = Part(f, 0, fs[f].len) /\ \A a \in Nat : Part(f, a, 0) = <<>>
  <1>1. fs[f].len \in Nat
    BY FrameFields
  <1> DEFINE n == fs[f].len
  <1> HIDE DEF n
  <1>2. \A i \in 1..n : 0 + i = i
    BY <1>1 DEF n
  <1>3. Payload(fs, f) = [i \in 1..n |-> <<f, i>>] /\ Part(f, 0, n) = [i \in 1..n |-> <<f, 0 + i>>]
    BY DEF Payload, Part, n
  <1>4. Payload(fs, f) = Part(f, 0, n)
    BY <1>2, <1>3
  <1>5. ASSUME NEW a \in Nat PROVE Part(f, a, 0) = <<>>
    <2>1. Part(f, a, 0) \in Seq(FrameBytes(fs)) /\ Len(Part(f, a, 0)) = 0
      <3>1. f \in 1..Len(fs) /\ 0 \in Nat
        OBVIOUS
      <3> QED
        BY <3>1, PartIs
    <2> QED
      BY <2>1
  <1> QED
    BY <1>4, <1>5 DEF n

(* Two parts make a larger one.                                            *)
LEMMA PartMore ==
    ASSUME NEW fs, NEW f \in 1..Len(fs), NEW a \in Nat, NEW n \in Nat
    PROVE  Part(f, 0, a) \o Part(f, a, n) = Part(f, 0, a + n)
  <1> DEFINE s == Part(f, 0, a)
             t == Part(f, a, n)
             u == Part(f, 0, a + n)
             S == FrameBytes(fs)
             v == s \o t
  <1>0. a + n \in Nat /\ 0 \in Nat
    OBVIOUS
  <1>1. s \in Seq(S) /\ Len(s) = a /\ \A i \in 1..a : s[i] = <<f, 0 + i>>
    BY <1>0, PartIs
  <1>2. t \in Seq(S) /\ Len(t) = n /\ \A i \in 1..n : t[i] = <<f, a + i>>
    BY PartIs
  <1>3. u \in Seq(S) /\ Len(u) = a + n /\ \A i \in 1..(a + n) : u[i] = <<f, 0 + i>>
    BY <1>0, PartIs
  <1> HIDE DEF s, t, u, S
  <1>4. /\ v \in Seq(S) /\ Len(v) = Len(s) + Len(t)
        /\ \A j \in 1..Len(s) : v[j] = s[j]
        /\ \A j \in 1..Len(t) : v[Len(s) + j] = t[j]
    <2>1. s \in Seq(S) /\ t \in Seq(S)
      BY <1>1, <1>2
    <2> QED
      BY <2>1, ConcatIs
  <1> HIDE DEF v
  <1>5. ASSUME NEW j \in 1..(a + n) PROVE v[j] = u[j]
    <2>1. CASE j <= a
      <3>1. j \in 1..a
        BY <2>1
      <3>2. v[j] = s[j] /\ s[j] = <<f, 0 + j>> /\ u[j] = <<f, 0 + j>>
        BY <1>1, <1>3, <1>4, <3>1
      <3> QED
        BY <3>2
    <2>2. CASE j > a
      <3> DEFINE i == j - a
      <3>1. i \in 1..n /\ a + i = j /\ 0 + j = j
        BY <2>2
      <3> HIDE DEF i
      <3>2. v[a + i] = t[i] /\ t[i] = <<f, a + i>> /\ u[j] = <<f, 0 + j>>
        BY <1>1, <1>2, <1>3, <1>4, <3>1
      <3> QED
        BY <3>1, <3>2
    <2> QED
      BY <2>1, <2>2
  <1>6. v = u
    BY <1>1, <1>2, <1>3, <1>4, <1>5, SameSeq
  <1> QED
    BY <1>6 DEF v, s, t, u

(* A control frame that is in place is a ping, a pong or a close frame.    *)
LEMMA ControlIs ==
    ASSUME NEW fs \in Seq(Frame), NEW r \in DOMAIN fs, NEW m \in Hearings(fs), ~Misplaced(m, fs[r])
    PROVE  /\ fs[r].op > 2 => fs[r].op \in {CLOSE, PING, PONG} /\ fs[r].fin
           /\ ~(fs[r].op > 2) => fs[r].op \in 0..2 /\ ((fs[r].op = CONTINUATION) <=> m.op # 0)
           /\ fs[r].len <= MaxPayload
  <1>1. fs[r].op \in 0..15 /\ fs[r].len \in Nat /\ MaxPayload \in Nat /\ fs[r].fin \in BOOLEAN
    BY FrameFields, FrameAssumption
  <1> DEFINE op == fs[r].op
             len == fs[r].len
             fin == fs[r].fin
             header == fs[r].header
             rsv == fs[r].rsv
             top == m.op
  <1>2. /\ ~rsv
        /\ op \notin 3..7 \cup 11..15
        /\ ~(len > MaxPayload)
        /\ ~(op > 2 /\ (~fin \/ header # ShortHeader))
        /\ ~(op <= 2 /\ (op = 0) # (top # 0))
    BY DEF Misplaced, CONTINUATION
  <1>3. op \in 0..15 /\ len \in Nat
    BY <1>1
  <1> HIDE DEF op, len, fin, header, rsv, top
  <1>4. len <= MaxPayload
    BY <1>1, <1>2, <1>3
  <1>5. op > 2 => op \in {8, 9, 10}
    BY <1>2, <1>3
  <1>6. op > 2 => fin
    BY <1>2
  <1>7. ~(op > 2) => op \in 0..2 /\ op <= 2
    BY <1>3
  <1>8. ~(op > 2) => ((op = 0) <=> (top # 0))
    BY <1>2, <1>7
  <1> QED
    BY <1>4, <1>5, <1>6, <1>7, <1>8 DEF op, len, fin, top, CLOSE, PING, PONG, CONTINUATION

\* The code that a close frame gives.
ClosingCode(frame) == IF frame.len < 2 THEN 1005 ELSE IF frame.sound THEN 1000 ELSE 1006

(* What control frames mean.                                               *)
LEMMA ControlMeans ==
    ASSUME NEW fs, NEW m \in Hearings(fs), NEW frame, NEW data \in Seq(FrameBytes(fs))
    PROVE  LET v == HeardControl(m, frame, data)
               pong == [kind |-> "pong", data |-> data]
               ponged == [kind |-> "ponged"]
               end == [kind |-> "end", data |-> data, code |-> ClosingCode(frame)]
           IN  /\ pong \in Sayings(fs) /\ ponged \in Sayings(fs) /\ end \in Sayings(fs)
               /\ frame.op = PING => v = Tell(m, pong)
               /\ frame.op = PONG => v = Tell(m, ponged)
               /\ frame.op = CLOSE => /\ v \in Hearings(fs) /\ v.over
                                      /\ v.said = Append(m.said, end)
  <1> DEFINE v == HeardControl(m, frame, data)
             pong == [kind |-> "pong", data |-> data]
             ponged == [kind |-> "ponged"]
             code == ClosingCode(frame)
             end == [kind |-> "end", data |-> data, code |-> code]
  <1>1. code \in {1000, 1005, 1006}
    BY DEF ClosingCode
  <1>2. pong \in Sayings(fs) /\ ponged \in Sayings(fs)
    BY DEF Sayings
  <1>3. end \in Sayings(fs)
    <2> HIDE DEF code
    <2> QED
      BY <1>1 DEF Sayings
  <1>4. frame.op = PING => v = Tell(m, pong)
    BY DEF HeardControl, PING, PONG, CLOSE
  <1>5. frame.op = PONG => v = Tell(m, ponged)
    BY DEF HeardControl, PING, PONG, CLOSE
  <1>6. ASSUME frame.op = CLOSE PROVE v = [Tell(m, end) EXCEPT !.over = TRUE]
    BY <1>6 DEF HeardControl, PING, PONG, CLOSE, ClosingCode
  <1> HIDE DEF v, end
  <1>7. Tell(m, end) \in Hearings(fs) /\ Tell(m, end).said = Append(m.said, end)
    BY <1>3, Telling
  <1>8. frame.op = CLOSE => v \in Hearings(fs) /\ v.over /\ v.said = Append(m.said, end)
    BY <1>6, <1>7 DEF Hearings
  <1> QED
    BY <1>2, <1>3, <1>4, <1>5, <1>8 DEF v, end

(* The payload of a frame is bytes of the stream.                          *)
LEMMA PayloadType ==
    ASSUME NEW fs \in Seq(Frame), NEW r \in DOMAIN fs
    PROVE  Payload(fs, r) \in Seq(FrameBytes(fs))
  <1>1. r \in 1..Len(fs) /\ 0 \in Nat /\ fs[r].len \in Nat
    BY FrameFields
  <1>2. Payload(fs, r) = Part(r, 0, fs[r].len)
    BY PartAll
  <1> DEFINE n == fs[r].len
  <1> HIDE DEF n
  <1>3. Part(r, 0, n) \in Seq(FrameBytes(fs))
    BY <1>1, PartIs DEF n
  <1> QED
    BY <1>2, <1>3 DEF n

(* One frame more: what was said stays, and nothing comes behind the end.  *)
LEMMA HearOn ==
    ASSUME NEW fs \in Seq(Frame), NEW r \in DOMAIN fs, NEW m \in Hearings(fs)
    PROVE  /\ HeardFrame(fs, m, r) \in Hearings(fs)
           /\ Leads(m.said, HeardFrame(fs, m, r).said)
           /\ m.over => HeardFrame(fs, m, r) = m
  <1> DEFINE v == HeardFrame(fs, m, r)
             data == Payload(fs, r)
             frame == fs[r]
  <1>1. /\ m.said \in Seq(Sayings(fs)) /\ m.op \in 0..2 /\ m.data \in Seq(FrameBytes(fs))
        /\ m.over \in BOOLEAN
    BY DEF Hearings
  <1>2. data \in Seq(FrameBytes(fs))
    BY PayloadType
  <1>3. CASE m.over
    <2>1. v = m
      BY <1>3 DEF HeardFrame
    <2>2. Leads(m.said, m.said)
      BY DEF Leads, Hearings
    <2> QED
      BY <2>1, <2>2
  <1>4. CASE ~m.over
    <2>0. SUFFICES v \in Hearings(fs) /\ Leads(m.said, v.said)
      BY <1>4
    <2>a. ASSUME NEW x \in Sayings(fs), v.said = Append(m.said, x) PROVE Leads(m.said, v.said)
      BY <1>1, <2>a, LeadsMore
    <2>1. CASE Misplaced(m, frame)
      <3>1. v = Fail(m)
        BY <1>4, <2>1 DEF HeardFrame
      <3> HIDE DEF v
      <3> QED
        BY <2>a, <3>1, Failing
    <2>2. CASE ~Misplaced(m, frame) /\ frame.op > 2
      <3>1. v = HeardControl(m, frame, data) /\ frame.op \in {CLOSE, PING, PONG}
        BY <1>4, <2>2, ControlIs DEF HeardFrame
      <3> HIDE DEF v, data, frame
      <3> DEFINE pong == [kind |-> "pong", data |-> data]
                 ponged == [kind |-> "ponged"]
                 end == [kind |-> "end", data |-> data, code |-> ClosingCode(frame)]
      <3>2. /\ pong \in Sayings(fs) /\ ponged \in Sayings(fs) /\ end \in Sayings(fs)
            /\ frame.op = PING => v = Tell(m, pong)
            /\ frame.op = PONG => v = Tell(m, ponged)
            /\ frame.op = CLOSE => /\ v \in Hearings(fs) /\ v.over
                                   /\ v.said = Append(m.said, end)
        BY <1>2, <3>1, ControlMeans
      <3> HIDE DEF pong, ponged, end
      <3>3. CASE frame.op = CLOSE
        BY <2>a, <3>2, <3>3
      <3>4. CASE frame.op = PING
        <4>1. Tell(m, pong) \in Hearings(fs) /\ Tell(m, pong).said = Append(m.said, pong)
          BY <3>2, Telling
        <4> QED
          BY <2>a, <3>2, <3>4, <4>1
      <3>5. CASE frame.op = PONG
        <4>1. Tell(m, ponged) \in Hearings(fs) /\ Tell(m, ponged).said = Append(m.said, ponged)
          BY <3>2, Telling
        <4> QED
          BY <2>a, <3>2, <3>5, <4>1
      <3> QED
        BY <3>1, <3>3, <3>4, <3>5
    <2>3. CASE ~Misplaced(m, frame) /\ ~(frame.op > 2)
      <3> DEFINE whole == m.data \o data
                 sound == \A i \in DOMAIN whole : fs[whole[i][1]].sound
                 op == IF frame.op = CONTINUATION THEN m.op ELSE frame.op
                 said == [kind |-> "message", op |-> op, data |-> whole]
      <3>1. v = HeardData(fs, m, frame, data)
        BY <1>4, <2>3 DEF HeardFrame
      <3>2. whole \in Seq(FrameBytes(fs)) /\ op \in 0..2
        BY <1>1, <1>2, <2>3, ControlIs
      <3>3. v = IF Len(whole) > MaxPayload THEN Fail(m)
                ELSE IF ~frame.fin THEN [m EXCEPT !.op = op, !.data = whole]
                ELSE IF op = TEXT /\ ~sound THEN Fail(m)
                ELSE [Tell(m, said) EXCEPT !.op = 0, !.data = <<>>]
        BY <3>1 DEF HeardData
      <3> HIDE DEF v, data, frame, whole, op, sound
      <3>4. said \in Sayings(fs)
        BY <3>2 DEF Sayings
      <3> HIDE DEF said
      <3>5. CASE v = Fail(m)
        BY <2>a, <3>5, Failing
      <3>6. CASE v = [m EXCEPT !.op = op, !.data = whole]
        <4>1. v \in Hearings(fs) /\ v.said = m.said
          BY <3>2, <3>6 DEF Hearings
        <4>2. Leads(m.said, m.said)
          BY <1>1 DEF Leads
        <4> QED
          BY <4>1, <4>2
      <3>7. CASE v = [Tell(m, said) EXCEPT !.op = 0, !.data = <<>>]
        <4>1. Tell(m, said) \in Hearings(fs) /\ Tell(m, said).said = Append(m.said, said)
          BY <3>4, Telling
        <4>2. <<>> \in Seq(FrameBytes(fs)) /\ 0 \in 0..2
          OBVIOUS
        <4>3. v \in Hearings(fs) /\ v.said = Append(m.said, said)
          BY <3>7, <4>1, <4>2 DEF Hearings
        <4> QED
          BY <2>a, <3>4, <4>3
      <3> QED
        BY <3>3, <3>5, <3>6, <3>7
    <2> QED
      BY <2>1, <2>2, <2>3
  <1> QED
    BY <1>1, <1>3, <1>4

(* What every frame means.                                                 *)
LEMMA HearingType ==
    ASSUME NEW fs \in Seq(Frame)
    PROVE  /\ \A r \in 0..Len(fs) : Hearing(fs)[r] \in Hearings(fs)
           /\ Nothing \in Hearings(fs)
           /\ Nothing.said = <<>> /\ Nothing.op = 0 /\ Nothing.data = <<>> /\ ~Nothing.over
  <1> DEFINE H == Hearing(fs)
             N == Len(fs)
             T == {r \in Nat : r <= N => H[r] \in Hearings(fs)}
  <1>0. N \in Nat /\ DOMAIN fs = 1..N
    OBVIOUS
  <1>1. H[0] = Nothing /\ \A r \in 1..N : H[r] = HeardFrame(fs, H[r - 1], r)
    BY HearingIs
  <1> HIDE DEF H, N
  <1>2. /\ Nothing \in Hearings(fs)
        /\ Nothing.said = <<>> /\ Nothing.op = 0 /\ Nothing.data = <<>> /\ ~Nothing.over
    <2>1. <<>> \in Seq(Sayings(fs)) /\ <<>> \in Seq(FrameBytes(fs))
      OBVIOUS
    <2> QED
      BY <2>1 DEF Nothing, Hearings
  <1>3. 0 \in T
    BY <1>1, <1>2
  <1>4. ASSUME NEW n \in Nat, n \in T PROVE n + 1 \in T
    <2> SUFFICES ASSUME n + 1 <= N PROVE H[n + 1] \in Hearings(fs)
      OBVIOUS
    <2>1. H[n] \in Hearings(fs) /\ n + 1 \in 1..N /\ (n + 1) - 1 = n
      BY <1>0, <1>4
    <2>2. H[n + 1] = HeardFrame(fs, H[n], n + 1)
      BY <1>1, <2>1
    <2> QED
      BY <1>0, <2>1, <2>2, HearOn
  <1> HIDE DEF T
  <1>5. Nat \subseteq T
    BY <1>3, <1>4, Induction
  <1>6. \A r \in 0..N : H[r] \in Hearings(fs)
    BY <1>0, <1>5 DEF T
  <1> QED
    BY <1>2, <1>6 DEF H, N

(* What is said up to a frame is said of the whole stream, and is all of   *)
(* it once it is over.                                                     *)
LEMMA SaidOnce ==
    ASSUME NEW fs \in Seq(Frame), NEW r \in 0..Len(fs)
    PROVE  /\ Leads(Hearing(fs)[r].said, Meaning(fs))
           /\ Hearing(fs)[r].over => Meaning(fs) = Hearing(fs)[r].said
  <1> DEFINE H == Hearing(fs)
             N == Len(fs)
             T == {k \in Nat : r + k <= N => /\ Leads(H[r].said, H[r + k].said)
                                             /\ H[r].over => H[r + k] = H[r]}
  <1>0. N \in Nat /\ DOMAIN fs = 1..N /\ r \in 0..N
    OBVIOUS
  <1>1. \A q \in 1..N : H[q] = HeardFrame(fs, H[q - 1], q)
    BY HearingIs
  <1>2. \A q \in 0..N : H[q] \in Hearings(fs)
    BY HearingType
  <1>3. Meaning(fs) = H[N].said
    BY DEF Meaning
  <1> HIDE DEF H, N
  <1>4. \A q \in 0..N : H[q].said \in Seq(Sayings(fs))
    BY <1>2 DEF Hearings
  <1>5. 0 \in T
    <2>1. r + 0 = r /\ H[r].said \in Seq(Sayings(fs))
      BY <1>0, <1>4
    <2>2. Leads(H[r].said, H[r].said)
      BY <2>1 DEF Leads
    <2> QED
      BY <2>1, <2>2
  <1>6. ASSUME NEW k \in Nat, k \in T PROVE k + 1 \in T
    <2> DEFINE q == r + k
    <2> SUFFICES ASSUME r + (k + 1) <= N
                 PROVE  /\ Leads(H[r].said, H[r + (k + 1)].said)
                        /\ H[r].over => H[r + (k + 1)] = H[r]
      OBVIOUS
    <2>1. r + (k + 1) = q + 1 /\ q \in 0..N /\ q + 1 \in 1..N /\ (q + 1) - 1 = q /\ q <= N /\ q + 1 \in 0..N
      BY <1>0
    <2>2. Leads(H[r].said, H[q].said) /\ (H[r].over => H[q] = H[r])
      BY <1>6, <2>1
    <2> HIDE DEF q
    <2>3. H[q + 1] = HeardFrame(fs, H[q], q + 1) /\ H[q] \in Hearings(fs)
      BY <1>1, <1>2, <2>1
    <2>4. Leads(H[q].said, H[q + 1].said) /\ (H[q].over => H[q + 1] = H[q])
      BY <1>0, <2>1, <2>3, HearOn
    <2>5. Leads(H[r].said, H[q + 1].said)
      BY <1>0, <1>4, <2>1, <2>2, <2>4, LeadsOn
    <2> QED
      BY <2>1, <2>2, <2>4, <2>5
  <1> HIDE DEF T
  <1>7. Nat \subseteq T
    BY <1>5, <1>6, Induction
  <1>8. N - r \in Nat /\ r + (N - r) = N
    BY <1>0
  <1>9. Leads(H[r].said, H[N].said) /\ (H[r].over => H[N] = H[r])
    <2>1. N - r \in T
      BY <1>7, <1>8
    <2> QED
      BY <1>0, <1>8, <2>1 DEF T
  <1> QED
    BY <1>3, <1>9 DEF H

-----------------------------------------------------------------------------
(* Handling a frame in parts.                                              *)

\* WebSocketData, while the connection is open and when it is not any more.
Socket(buffer, tip, said) == [open |-> TRUE, buffer |-> buffer, tip |-> tip, said |-> said]
Shut(buffer, tip, said) == [open |-> FALSE, buffer |-> buffer, tip |-> tip, said |-> said]

\* What is there of a message when the first a bytes of frame r came behind
\* those before it.
Foremost(m, r, a) == m.data \o Part(r, 0, a)

\* After frames that mean m, and when the first a bytes of the next one, r,
\* were handled as well.
Heeded(m) == Socket(m.data, 0, m.said)
Partly(fs, m, r, a) == Socket(Foremost(m, r, a), IF fs[r].op > 2 THEN a ELSE 0, m.said)

\* The connection is gone, and so is the rest of what the peer sends.
Gone(w, m) == ~w.open /\ w.said = m.said /\ m.over

\* The opcode of the message or the control frame that r belongs to.
OpcodeOf(fs, m, r) == IF fs[r].op = CONTINUATION THEN m.op ELSE fs[r].op

(* The fields of WebSocketData.                                            *)
LEMMA SocketFields ==
    ASSUME NEW b, NEW t, NEW s
    PROVE  /\ Socket(b, t, s).open /\ ~Shut(b, t, s).open
           /\ Socket(b, t, s).buffer = b /\ Socket(b, t, s).tip = t
           /\ Socket(b, t, s).said = s /\ Shut(b, t, s).said = s
  BY DEF Socket, Shut

(* The buffer is replaced.                                                 *)
LEMMA SocketBuffer ==
    ASSUME NEW b, NEW t, NEW s, NEW c
    PROVE  [Socket(b, t, s) EXCEPT !.buffer = c] = Socket(c, t, s)
  <1> DEFINE w == Socket(b, t, s)
  <1>1. w = [open |-> TRUE, buffer |-> b, tip |-> t, said |-> s]
    BY DEF Socket
  <1> HIDE DEF w
  <1>2. [w EXCEPT !.buffer = c] = [open |-> TRUE, buffer |-> c, tip |-> t, said |-> s]
    <2> DEFINE R == [open : BOOLEAN, buffer : {b, c}, tip : {t}, said : {s}]
               v == [w EXCEPT !.buffer = c]
               y == [open |-> TRUE, buffer |-> c, tip |-> t, said |-> s]
    <2>1. w \in R
      BY <1>1
    <2>2. v \in R /\ v.open /\ v.buffer = c
      BY <1>1, <2>1
    <2>3. y \in R /\ y.open /\ y.buffer = c
      OBVIOUS
    <2> HIDE DEF v, y
    <2>4. v = y
      BY <2>2, <2>3
    <2> QED
      BY <2>4 DEF v, y
  <1> QED
    BY <1>2 DEF w, Socket

(* Even when the connection is gone.                                       *)
LEMMA ShutBuffer ==
    ASSUME NEW b, NEW t, NEW s, NEW c
    PROVE  [Shut(b, t, s) EXCEPT !.buffer = c] = Shut(c, t, s)
  <1> DEFINE w == Shut(b, t, s)
  <1>1. w = [open |-> FALSE, buffer |-> b, tip |-> t, said |-> s]
    BY DEF Shut
  <1> HIDE DEF w
  <1>2. [w EXCEPT !.buffer = c] = [open |-> FALSE, buffer |-> c, tip |-> t, said |-> s]
    <2> DEFINE R == [open : BOOLEAN, buffer : {b, c}, tip : {t}, said : {s}]
               v == [w EXCEPT !.buffer = c]
               y == [open |-> FALSE, buffer |-> c, tip |-> t, said |-> s]
    <2>1. w \in R
      BY <1>1
    <2>2. v \in R /\ ~v.open /\ v.buffer = c
      BY <1>1, <2>1
    <2>3. y \in R /\ ~y.open /\ y.buffer = c
      OBVIOUS
    <2> HIDE DEF v, y
    <2>4. v = y
      BY <2>2, <2>3
    <2> QED
      BY <2>4 DEF v, y
  <1> QED
    BY <1>2 DEF w, Shut

\* The buffer is replaced, and how much of it belongs to a control frame.
Back(w, buffer, tip) == [w EXCEPT !.buffer = buffer, !.tip = tip]

(* It is replaced while the connection is open.                            *)
LEMMA SocketTip ==
    ASSUME NEW b, NEW t, NEW s, NEW c, NEW u
    PROVE  Back(Socket(b, t, s), c, u) = Socket(c, u, s)
  <1> DEFINE w == Socket(b, t, s)
  <1>1. w = [open |-> TRUE, buffer |-> b, tip |-> t, said |-> s]
    BY DEF Socket
  <1> HIDE DEF w
  <1>2. [w EXCEPT !.buffer = c, !.tip = u] = [open |-> TRUE, buffer |-> c, tip |-> u, said |-> s]
    <2> DEFINE R == [open : BOOLEAN, buffer : {b, c}, tip : {t, u}, said : {s}]
               v == [w EXCEPT !.buffer = c, !.tip = u]
               y == [open |-> TRUE, buffer |-> c, tip |-> u, said |-> s]
    <2>1. w \in R
      BY <1>1
    <2>2. v \in R /\ v.open /\ v.buffer = c /\ v.tip = u
      BY <1>1, <2>1
    <2>3. y \in R /\ y.open /\ y.buffer = c /\ y.tip = u
      OBVIOUS
    <2> HIDE DEF v, y
    <2>4. v = y
      BY <2>2, <2>3
    <2> QED
      BY <2>4 DEF v, y
  <1> QED
    BY <1>2 DEF w, Back, Socket

(* Even then.                                                              *)
LEMMA ShutTip ==
    ASSUME NEW b, NEW t, NEW s, NEW c, NEW u
    PROVE  Back(Shut(b, t, s), c, u) = Shut(c, u, s)
  <1> DEFINE w == Shut(b, t, s)
  <1>1. w = [open |-> FALSE, buffer |-> b, tip |-> t, said |-> s]
    BY DEF Shut
  <1> HIDE DEF w
  <1>2. [w EXCEPT !.buffer = c, !.tip = u] = [open |-> FALSE, buffer |-> c, tip |-> u, said |-> s]
    <2> DEFINE R == [open : BOOLEAN, buffer : {b, c}, tip : {t, u}, said : {s}]
               v == [w EXCEPT !.buffer = c, !.tip = u]
               y == [open |-> FALSE, buffer |-> c, tip |-> u, said |-> s]
    <2>1. w \in R
      BY <1>1
    <2>2. v \in R /\ ~v.open /\ v.buffer = c /\ v.tip = u
      BY <1>1, <2>1
    <2>3. y \in R /\ ~y.open /\ y.buffer = c /\ y.tip = u
      OBVIOUS
    <2> HIDE DEF v, y
    <2>4. v = y
      BY <2>2, <2>3
    <2> QED
      BY <2>4 DEF v, y
  <1> QED
    BY <1>2 DEF w, Back, Shut

(* Whatever is said, the rest of the connection is as it was.              *)
LEMMA SayIs ==
    ASSUME NEW b, NEW t, NEW s, NEW x
    PROVE  Say(Socket(b, t, s), x) = Socket(b, t, Append(s, x))
  <1> DEFINE w == Socket(b, t, s)
             y == Append(s, x)
  <1>1. w = [open |-> TRUE, buffer |-> b, tip |-> t, said |-> s] /\ w.said = s
    BY DEF Socket
  <1>2. Say(w, x) = [w EXCEPT !.said = y]
    BY <1>1 DEF Say
  <1> HIDE DEF w, y
  <1>3. [w EXCEPT !.said = y] = [open |-> TRUE, buffer |-> b, tip |-> t, said |-> y]
    <2> DEFINE R == [open : BOOLEAN, buffer : {b}, tip : {t}, said : {s, y}]
               v == [w EXCEPT !.said = y]
               z == [open |-> TRUE, buffer |-> b, tip |-> t, said |-> y]
    <2>1. w \in R
      BY <1>1
    <2>2. v \in R /\ v.open /\ v.said = y
      BY <1>1, <2>1
    <2>3. z \in R /\ z.open /\ z.said = y
      OBVIOUS
    <2> HIDE DEF v, z
    <2>4. v = z
      BY <2>2, <2>3
    <2> QED
      BY <2>4 DEF v, z
  <1>4. Say(w, x) = Socket(b, t, y)
    BY <1>2, <1>3 DEF Socket
  <1> QED
    BY <1>4 DEF w, y

(* Or it goes away.                                                        *)
LEMMA LeaveIs ==
    ASSUME NEW b, NEW t, NEW s, NEW x
    PROVE  Leave(Socket(b, t, s), x) = Shut(b, t, Append(s, x))
  <1> DEFINE y == Append(s, x)
             w == Socket(b, t, y)
  <1>0. Say(Socket(b, t, s), x) = w
    BY SayIs
  <1>1. w = [open |-> TRUE, buffer |-> b, tip |-> t, said |-> y]
    BY DEF Socket
  <1> HIDE DEF w, y
  <1>2. [w EXCEPT !.open = FALSE] = [open |-> FALSE, buffer |-> b, tip |-> t, said |-> y]
    <2> DEFINE R == [open : BOOLEAN, buffer : {b}, tip : {t}, said : {y}]
               v == [w EXCEPT !.open = FALSE]
              z == [open |-> FALSE, buffer |-> b, tip |-> t, said |-> y]
    <2>1. w \in R
      BY <1>1
    <2>2. v \in R /\ v.open = FALSE
      BY <2>1
    <2>3. z \in R /\ z.open = FALSE
      OBVIOUS
    <2> HIDE DEF v, z
    <2>4. v = z
      BY <2>2, <2>3
    <2> QED
      BY <2>4 DEF v, z
  <1>3. Leave(Socket(b, t, s), x) = [w EXCEPT !.open = FALSE]
    BY <1>0 DEF Leave
  <1>4. Leave(Socket(b, t, s), x) = Shut(b, t, y)
    BY <1>2, <1>3 DEF Shut
  <1> QED
    BY <1>4 DEF y

\* "forced" was said.
Forced(b, t, s) == Shut(b, t, Append(s, [kind |-> "forced"]))

(* The connection is closed.                                               *)
LEMMA ForceIs ==
    ASSUME NEW b, NEW t, NEW s
    PROVE  ForceClose(Socket(b, t, s)) = Forced(b, t, s)
  <1> DEFINE x == [kind |-> "forced"]
  <1>1. ForceClose(Socket(b, t, s)) = Leave(Socket(b, t, s), x)
    BY DEF ForceClose
  <1>2. Forced(b, t, s) = Shut(b, t, Append(s, x))
    BY DEF Forced
  <1> HIDE DEF x
  <1>3. Leave(Socket(b, t, s), x) = Shut(b, t, Append(s, x))
    BY LeaveIs
  <1> QED
    BY <1>1, <1>2, <1>3

(* What is said then.                                                      *)
LEMMA ForcedIs ==
    ASSUME NEW b, NEW t, NEW s
    PROVE  ~Forced(b, t, s).open /\ Forced(b, t, s).said = Append(s, [kind |-> "forced"])
  <1> DEFINE y == Append(s, [kind |-> "forced"])
  <1>1. Forced(b, t, s) = Shut(b, t, y)
    BY DEF Forced
  <1> HIDE DEF y
  <1>2. ~Shut(b, t, y).open /\ Shut(b, t, y).said = y
    BY SocketFields
  <1> QED
    BY <1>1, <1>2 DEF y

(* A sequence is taken from in front of another and from behind it.        *)
LEMMA Split ==
    ASSUME NEW S, NEW s \in Seq(S), NEW t \in Seq(S)
    PROVE  First(Len(s), s \o t) = s /\ After(Len(s), s \o t) = t
  <1> DEFINE k == Len(s)
             u == s \o t
             f == First(k, u)
             a == After(k, u)
  <1>1. k \in Nat /\ Len(t) \in Nat
    OBVIOUS
  <1>2. /\ u \in Seq(S) /\ Len(u) = k + Len(t)
        /\ \A j \in 1..k : u[j] = s[j]
        /\ \A j \in 1..Len(t) : u[k + j] = t[j]
    BY ConcatIs
  <1> HIDE DEF u, k
  <1>3. k \in 0..Len(u) /\ Len(u) - k = Len(t)
    BY <1>1, <1>2
  <1>4. f \in Seq(S) /\ Len(f) = k /\ \A j \in 1..k : f[j] = u[j]
    BY <1>2, <1>3, FirstIs
  <1>5. a \in Seq(S) /\ Len(a) = Len(t) /\ \A j \in 1..Len(t) : a[j] = u[k + j]
    <2>1. a \in Seq(S) /\ Len(a) = Len(u) - k /\ \A j \in 1..(Len(u) - k) : a[j] = u[k + j]
      BY <1>2, <1>3, AfterIs
    <2> QED
      BY <1>3, <2>1
  <1> HIDE DEF f, a
  <1>6. f = s
    <2>1. Len(f) = Len(s) /\ \A j \in 1..Len(f) : f[j] = s[j]
      BY <1>2, <1>4 DEF k
    <2>2. f \in Seq(S)
      BY <1>4
    <2> QED
      BY <2>1, <2>2, SameSeq
  <1>7. a = t
    <2>1. Len(a) = Len(t) /\ \A j \in 1..Len(a) : a[j] = t[j]
      BY <1>2, <1>5
    <2>2. a \in Seq(S)
      BY <1>5
    <2> QED
      BY <2>1, <2>2, SameSeq
  <1> QED
    BY <1>6, <1>7 DEF f, a, u, k

\* What holds of frame r when a bytes of it were handled and n more come.
Handling(fs, m, r, a, n) ==
    /\ fs \in Seq(Frame) /\ r \in DOMAIN fs /\ m \in Hearings(fs)
    /\ ~m.over /\ ~Misplaced(m, fs[r])
    /\ a \in Nat /\ n \in Nat /\ a + n <= fs[r].len

(* What is there of the frame, and of the message it belongs to.           *)
LEMMA HandlingTypes ==
    ASSUME NEW m, NEW r, NEW a, NEW n, Handling(frames, m, r, a, n)
    PROVE  /\ m.data \in Seq(FrameBytes(frames)) /\ m.said \in Seq(Sayings(frames))
           /\ Part(r, a, n) \in Seq(FrameBytes(frames))
           /\ Foremost(m, r, a) \in Seq(FrameBytes(frames))
           /\ Foremost(m, r, a + n) \in Seq(FrameBytes(frames))
  <1>1. r \in 1..Len(frames) /\ a \in Nat /\ n \in Nat /\ a + n \in Nat /\ 0 \in Nat
    BY DEF Handling
  <1>2. m.data \in Seq(FrameBytes(frames)) /\ m.said \in Seq(Sayings(frames))
    BY DEF Handling, Hearings
  <1>3. /\ Part(r, 0, a) \in Seq(FrameBytes(frames)) /\ Part(r, a, n) \in Seq(FrameBytes(frames))
        /\ Part(r, 0, a + n) \in Seq(FrameBytes(frames))
    BY <1>1, PartIs
  <1> QED
    BY <1>2, <1>3 DEF Foremost

(* How many bytes that are, and what a part adds to them.                  *)
LEMMA HandlingParts ==
    ASSUME NEW m, NEW r, NEW a, NEW n, Handling(frames, m, r, a, n)
    PROVE  /\ Len(m.data) \in Nat /\ Len(Part(r, a, n)) = n
           /\ Len(Foremost(m, r, a)) = Len(m.data) + a
           /\ Len(Foremost(m, r, a + n)) = Len(m.data) + (a + n)
           /\ Foremost(m, r, a) \o Part(r, a, n) = Foremost(m, r, a + n)
  <1> DEFINE S == FrameBytes(frames)
             D == m.data
             f == Part(r, 0, a)
             p == Part(r, a, n)
             g == Part(r, 0, a + n)
  <1>1. r \in 1..Len(frames) /\ a \in Nat /\ n \in Nat /\ a + n \in Nat /\ 0 \in Nat
    BY DEF Handling
  <1>2. D \in Seq(S)
    BY DEF Handling, Hearings
  <1>3. f \in Seq(S) /\ Len(f) = a
    BY <1>1, PartIs
  <1>4. p \in Seq(S) /\ Len(p) = n
    BY <1>1, PartIs
  <1>5. g \in Seq(S) /\ Len(g) = a + n
    BY <1>1, PartIs
  <1>6. f \o p = g
    BY <1>1, PartMore
  <1> HIDE DEF S, D, f, p, g
  <1>7. Len(D \o f) = Len(D) + a /\ Len(D) \in Nat
    BY <1>2, <1>3
  <1>8. Len(D \o g) = Len(D) + (a + n)
    BY <1>2, <1>5
  <1>9. (D \o f) \o p = D \o g
    <2>1. (D \o f) \o p = D \o (f \o p)
      BY <1>2, <1>3, <1>4, ConcatThree
    <2> QED
      BY <1>6, <2>1
  <1> QED
    BY <1>4, <1>7, <1>8, <1>9 DEF D, f, p, g, Foremost

(* Bytes that come out right are sound when their frames are.              *)
LEMMA SoundIs ==
    ASSUME NEW data \in Seq(FrameBytes(frames))
    PROVE  Sound(data) <=> \A i \in DOMAIN data : frames[data[i][1]].sound
  <1>1. \A i \in DOMAIN data : data[i] \in FrameBytes(frames)
    OBVIOUS
  <1>2. \A i \in DOMAIN data : data[i][1] # 0
    BY <1>1 DEF FrameBytes
  <1> QED
    BY <1>2 DEF Sound

(* A part of a message: it waits for the others, or the message is handed  *)
(* over, or it is too long or no text and the connection is closed.        *)
LEMMA HandlesData ==
    ASSUME NEW m, NEW r, NEW a, NEW n, Handling(frames, m, r, a, n), ~(frames[r].op > 2)
    PROVE  LET left == frames[r].len - (a + n)
               v == DataFragment(Partly(frames, m, r, a), OpcodeOf(frames, m, r), Part(r, a, n),
                                 frames[r].fin /\ left = 0)
               after == HeardFrame(frames, m, r)
           IN  /\ left > 0 => v = Partly(frames, m, r, a + n) \/ Gone(v, after)
               /\ left = 0 => (~after.over /\ v = Heeded(after)) \/ Gone(v, after)
  <1> DEFINE S == FrameBytes(frames)
             frame == frames[r]
             len == PayloadLen(frames, r)
             fin == frame.fin
             left == len - (a + n)
             last == fin /\ left = 0
             D == m.data
             said == m.said
             front == Foremost(m, r, a)
             p == Part(r, a, n)
             whole == Foremost(m, r, a + n)
             full == Foremost(m, r, len)
             op == OpcodeOf(frames, m, r)
             w == Partly(frames, m, r, a)
             v == DataFragment(w, op, p, last)
             after == HeardFrame(frames, m, r)
             told == [kind |-> "message", op |-> op, data |-> whole]
             sound == \A i \in DOMAIN whole : frames[whole[i][1]].sound
             Good == /\ left > 0 => v = Partly(frames, m, r, a + n) \/ Gone(v, after)
                     /\ left = 0 => (~after.over /\ v = Heeded(after)) \/ Gone(v, after)
  <1>0. len = frames[r].len /\ len \in Nat /\ len <= MaxPayload /\ MaxPayload \in Nat /\ fin \in BOOLEAN
    BY FrameFields, ControlIs, FrameAssumption DEF Handling
  <1> SUFFICES Good
    BY <1>0
  <1>1. a \in Nat /\ n \in Nat /\ a + n <= len
    BY <1>0 DEF Handling
  <1>2. D \in Seq(S) /\ said \in Seq(Sayings(frames)) /\ Len(D) \in Nat
    BY HandlingTypes, HandlingParts
  <1>3. p \in Seq(S) /\ Len(p) = n
    BY HandlingTypes, HandlingParts
  <1>4. front \in Seq(S) /\ Len(front) = Len(D) + a
    BY HandlingTypes, HandlingParts
  <1>5. whole \in Seq(S) /\ Len(whole) = Len(D) + (a + n) /\ front \o p = whole
    BY HandlingTypes, HandlingParts
  <1>6. full \in Seq(S) /\ Len(full) = Len(D) + len
    <2>1. Handling(frames, m, r, 0, len) /\ 0 + len = len
      BY <1>0 DEF Handling
    <2> HIDE DEF len
    <2>2. Foremost(m, r, 0 + len) \in Seq(S)
      BY <2>1, HandlingTypes
    <2>3. Len(Foremost(m, r, 0 + len)) = Len(D) + (0 + len)
      BY <2>1, HandlingParts
    <2> QED
      BY <2>1, <2>2, <2>3
  <1>7. w = Socket(front, 0, said)
    BY DEF Partly
  <1>8. op \in 0..2
    BY ControlIs DEF OpcodeOf, Handling, Hearings
  <1>9. after = IF Len(full) > MaxPayload THEN Fail(m)
                ELSE IF ~fin THEN [m EXCEPT !.op = op, !.data = full]
                ELSE IF op = TEXT /\ ~(\A i \in DOMAIN full : frames[full[i][1]].sound) THEN Fail(m)
                ELSE [Tell(m, [kind |-> "message", op |-> op, data |-> full]) EXCEPT !.op = 0, !.data = <<>>]
    <2>1. Payload(frames, r) = Part(r, 0, len)
      BY <1>0, PartAll DEF Handling
    <2>2. after = HeardData(frames, m, frame, Payload(frames, r))
      BY DEF HeardFrame, Handling
    <2> QED
      BY <2>1, <2>2 DEF HeardData, OpcodeOf, Foremost
  <1>10. left = 0 => full = whole
    <2>1. left = 0 => a + n = len
      BY <1>0, <1>1
    <2> QED
      BY <2>1
  <1>11. m \in Hearings(frames) /\ ~m.over
    BY DEF Handling
  <1>12. Sound(whole) <=> sound
    BY <1>5, SoundIs
  <1>13. Fail(m).over /\ Fail(m).said = Append(said, [kind |-> "forced"])
    BY <1>11, Failing
  <1>14. v = IF last /\ front = <<>> THEN Message(w, op, p)
             ELSE IF Len(whole) > MaxPayload THEN ForceClose(w)
             ELSE IF last THEN [Message(w, op, whole) EXCEPT !.buffer = <<>>]
             ELSE [w EXCEPT !.buffer = whole]
    <2>1. w.buffer = front
      BY <1>7 DEF Socket
    <2> HIDE DEF w, front, p, op, last
    <2> QED
      BY <1>5, <2>1 DEF DataFragment
  <1>15. Partly(frames, m, r, a + n) = Socket(whole, 0, said)
    BY DEF Partly
  <1> HIDE DEF S, frame, len, fin, D, said, front, p, whole, full, op, w, v, after, sound
  <1>16. ASSUME v = ForceClose(w), after = Fail(m) PROVE Good
    <2>1. v = Forced(front, 0, said)
      BY <1>7, <1>16, ForceIs
    <2>2. Gone(v, after)
      <3>1. ~v.open /\ v.said = Append(said, [kind |-> "forced"])
        BY <2>1, ForcedIs
      <3> QED
        BY <1>13, <1>16, <3>1 DEF Gone
    <2> QED
      BY <2>2
  <1>17. ASSUME last PROVE left = 0 /\ fin /\ full = whole
    BY <1>10, <1>17
  <1>18. ASSUME last, ~(Len(whole) > MaxPayload)
         PROVE  /\ op = TEXT /\ ~sound => after = Fail(m)
                /\ ~(op = TEXT /\ ~sound) => ~after.over /\ Heeded(after) = Socket(<<>>, 0, Append(said, told))
    <2>1. after = IF op = TEXT /\ ~sound THEN Fail(m) ELSE [Tell(m, told) EXCEPT !.op = 0, !.data = <<>>]
      BY <1>9, <1>17, <1>18 DEF sound
    <2>2. told \in Sayings(frames)
      BY <1>5, <1>8 DEF Sayings, S
    <2> HIDE DEF told
    <2>3. Tell(m, told) \in Hearings(frames) /\ Tell(m, told).said = Append(said, told) /\ ~Tell(m, told).over
      BY <1>11, <2>2, Telling DEF said
    <2>4. ASSUME after = [Tell(m, told) EXCEPT !.op = 0, !.data = <<>>]
          PROVE  ~after.over /\ Heeded(after) = Socket(<<>>, 0, Append(said, told))
      <3>1. ~after.over /\ after.data = <<>> /\ after.said = Append(said, told)
        BY <2>3, <2>4 DEF Hearings
      <3> QED
        BY <3>1 DEF Heeded
    <2> QED
      BY <2>1, <2>4
  <1>19. ASSUME NEW b, NEW y, y = [kind |-> "message", op |-> op, data |-> b], Sound(b) <=> sound
         PROVE  Message(w, op, b) = IF op = TEXT /\ ~sound THEN ForceClose(w)
                                    ELSE Socket(front, 0, Append(said, y))
    <2>1. Message(w, op, b) = IF op = TEXT /\ ~Sound(b) THEN ForceClose(w) ELSE Say(w, y)
      BY <1>19 DEF Message
    <2>2. Say(w, y) = Socket(front, 0, Append(said, y))
      BY <1>7, SayIs
    <2> QED
      BY <1>19, <2>1, <2>2
  <1>20. CASE last /\ front = <<>>
    <2>1. Len(D) = 0 /\ a = 0
      BY <1>1, <1>2, <1>4, <1>20
    <2>2. D = <<>> /\ p = whole
      <3>1. <<>> \o p = p
        BY <1>3, ConcatNothing
      <3>2. D = <<>>
        BY <1>2, <2>1
      <3> QED
        BY <1>5, <1>20, <3>1, <3>2
    <2>3. ~(Len(whole) > MaxPayload)
      BY <1>0, <1>1, <1>5, <2>1
    <2>4. v = IF op = TEXT /\ ~sound THEN ForceClose(w) ELSE Socket(front, 0, Append(said, told))
      BY <1>12, <1>14, <1>19, <1>20, <2>2
    <2> HIDE DEF told
    <2>5. CASE op = TEXT /\ ~sound
      BY <1>16, <1>18, <1>20, <2>3, <2>4, <2>5
    <2>6. CASE ~(op = TEXT /\ ~sound)
      <3>1. ~after.over /\ Heeded(after) = Socket(<<>>, 0, Append(said, told))
        BY <1>18, <1>20, <2>3, <2>6
      <3>2. v = Heeded(after)
        BY <1>20, <2>4, <2>6, <3>1
      <3> QED
        BY <1>17, <1>20, <3>1, <3>2
    <2> QED
      BY <2>5, <2>6
  <1>21. CASE ~(last /\ front = <<>>) /\ Len(whole) > MaxPayload
    <2>1. Len(full) > MaxPayload
      BY <1>0, <1>1, <1>2, <1>5, <1>6, <1>21
    <2>2. v = ForceClose(w) /\ after = Fail(m)
      BY <1>9, <1>14, <1>21, <2>1
    <2> QED
      BY <1>16, <2>2
  <1>22. CASE ~(last /\ front = <<>>) /\ ~(Len(whole) > MaxPayload) /\ last
    <2>1. v = [Message(w, op, whole) EXCEPT !.buffer = <<>>]
      BY <1>14, <1>22
    <2>2. CASE op = TEXT /\ ~sound
      <3>1. Message(w, op, whole) = Forced(front, 0, said)
        BY <1>7, <1>12, <1>19, <2>2, ForceIs
      <3>2. v = Forced(<<>>, 0, said)
        <4> DEFINE y == Append(said, [kind |-> "forced"])
        <4>1. Forced(front, 0, said) = Shut(front, 0, y) /\ Forced(<<>>, 0, said) = Shut(<<>>, 0, y)
          BY DEF Forced
        <4> HIDE DEF y
        <4>2. [Shut(front, 0, y) EXCEPT !.buffer = <<>>] = Shut(<<>>, 0, y)
          BY ShutBuffer
        <4> QED
          BY <2>1, <3>1, <4>1, <4>2
      <3>3. ~v.open /\ v.said = Append(said, [kind |-> "forced"])
        BY <3>2, ForcedIs
      <3>4. after = Fail(m)
        BY <1>18, <1>22, <2>2
      <3>5. Gone(v, after)
        BY <1>13, <3>3, <3>4 DEF Gone
      <3> QED
        BY <3>5
    <2>3. CASE ~(op = TEXT /\ ~sound)
      <3>1. Message(w, op, whole) = Socket(front, 0, Append(said, told))
        BY <1>12, <1>19, <2>3
      <3> HIDE DEF told
      <3>2. [Socket(front, 0, Append(said, told)) EXCEPT !.buffer = <<>>] = Socket(<<>>, 0, Append(said, told))
        BY SocketBuffer
      <3>3. ~after.over /\ Heeded(after) = Socket(<<>>, 0, Append(said, told))
        BY <1>18, <1>22, <2>3
      <3>4. v = Heeded(after)
        BY <2>1, <3>1, <3>2, <3>3
      <3> QED
        BY <1>17, <1>22, <3>3, <3>4
    <2> QED
      BY <2>2, <2>3
  <1>23. CASE ~(last /\ front = <<>>) /\ ~(Len(whole) > MaxPayload) /\ ~last
    <2>1. v = Socket(whole, 0, said)
      <3>1. [Socket(front, 0, said) EXCEPT !.buffer = whole] = Socket(whole, 0, said)
        BY SocketBuffer
      <3> QED
        BY <1>7, <1>14, <1>23, <3>1
    <2>2. CASE left > 0
      <3>1. v = Partly(frames, m, r, a + n) /\ left # 0
        BY <1>15, <2>1, <2>2
      <3> QED
        BY <3>1
    <2>3. CASE ~(left > 0)
      <3>1. left = 0
        BY <1>0, <1>1, <2>3
      <3>2. ~fin /\ full = whole
        BY <1>10, <1>23, <3>1
      <3>3. after = [m EXCEPT !.op = op, !.data = whole]
        BY <1>9, <1>23, <3>2
      <3>4. ~after.over /\ after.data = whole /\ after.said = said
        BY <1>11, <3>3 DEF Hearings, said
      <3>5. v = Heeded(after)
        BY <2>1, <3>4 DEF Heeded
      <3> QED
        BY <3>1, <3>4, <3>5
    <2> QED
      BY <2>2, <2>3
  <1>24. Good
    BY <1>20, <1>21, <1>22, <1>23
  <1> QED
    BY <1>24

(* The code of a close frame is the one that its payload gives.            *)
LEMMA CodeIs ==
    ASSUME frames \in Seq(Frame), NEW r \in DOMAIN frames
    PROVE  CloseCode(Part(r, 0, PayloadLen(frames, r))) = ClosingCode(frames[r])
  <1> DEFINE n == PayloadLen(frames, r)
             p == Part(r, 0, n)
             S == FrameBytes(frames)
  <1>1. n \in Nat /\ n = frames[r].len /\ r \in 1..Len(frames) /\ 0 \in Nat /\ frames[r].sound \in BOOLEAN
    BY FrameFields
  <1> HIDE DEF n
  <1>2. p \in Seq(S) /\ Len(p) = n /\ \A i \in 1..n : p[i] = <<r, 0 + i>>
    BY <1>1, PartIs
  <1>3. Sound(p) <=> \A i \in DOMAIN p : frames[p[i][1]].sound
    BY <1>2, SoundIs
  <1>4. DOMAIN p = 1..n
    BY <1>2
  <1> HIDE DEF p
  <1>5. ASSUME n >= 2 PROVE Sound(p) <=> frames[r].sound
    <2>1. 1 \in 1..n
      BY <1>1, <1>5
    <2>2. \A i \in 1..n : p[i][1] = r
      BY <1>2
    <2>3. \A i \in 1..n : frames[p[i][1]].sound <=> frames[r].sound
      BY <2>2
    <2> QED
      BY <1>3, <1>4, <2>1, <2>3
  <1>6. ASSUME n < 2 PROVE CloseCode(p) = ClosingCode(frames[r])
    BY <1>1, <1>2, <1>6 DEF CloseCode, ClosingCode
  <1>7. ASSUME n >= 2 PROVE CloseCode(p) = ClosingCode(frames[r])
    BY <1>1, <1>2, <1>5, <1>7 DEF CloseCode, ClosingCode
  <1>8. CloseCode(p) = ClosingCode(frames[r])
    BY <1>1, <1>6, <1>7
  <1> QED
    BY <1>8 DEF p, n

(* A control frame that is there is answered, or ends the connection.      *)
LEMMA ControlTells ==
    ASSUME NEW m, NEW r, Handling(frames, m, r, 0, PayloadLen(frames, r)), frames[r].op > 2, NEW b, NEW t
    PROVE  LET v == Control(Socket(b, t, m.said), frames[r].op, Part(r, 0, PayloadLen(frames, r)))
               after == HeardFrame(frames, m, r)
           IN  \E s : \/ v = Shut(b, t, s) /\ after.over /\ after.said = s
                      \/ v = Socket(b, t, s) /\ ~after.over /\ after.said = s /\ after.data = m.data
  <1> DEFINE data == Part(r, 0, PayloadLen(frames, r))
             frame == frames[r]
             op == frame.op
             w == Socket(b, t, m.said)
             v == Control(w, op, data)
             after == HeardFrame(frames, m, r)
             pong == [kind |-> "pong", data |-> data]
             ponged == [kind |-> "ponged"]
             end == [kind |-> "end", data |-> data, code |-> ClosingCode(frame)]
  <1>1. frames \in Seq(Frame) /\ r \in DOMAIN frames /\ m \in Hearings(frames) /\ ~m.over /\ ~Misplaced(m, frame)
    BY DEF Handling
  <1>2. op \in {CLOSE, PING, PONG}
    BY <1>1, ControlIs
  <1>3. Payload(frames, r) = data
    <2>1. PayloadLen(frames, r) = frames[r].len
      BY DEF PayloadLen
    <2> QED
      BY <1>1, <2>1, PartAll
  <1>4. after = HeardControl(m, frame, data)
    BY <1>1, <1>3 DEF HeardFrame
  <1>5. data \in Seq(FrameBytes(frames))
    BY HandlingTypes
  <1>6. CloseCode(data) = ClosingCode(frame)
    BY <1>1, CodeIs
  <1>7. v = CASE op = CLOSE -> Leave(w, [kind |-> "end", code |-> CloseCode(data), data |-> data])
              [] op = PING  -> Say(w, pong)
              [] op = PONG  -> Say(w, ponged)
    BY DEF Control
  <1>8. [kind |-> "end", code |-> CloseCode(data), data |-> data] = end
    BY <1>6
  <1> HIDE DEF data, frame
  <1>9. /\ op = CLOSE => v = Leave(w, end)
        /\ op = PING => v = Say(w, pong)
        /\ op = PONG => v = Say(w, ponged)
    BY <1>7, <1>8 DEF CLOSE, PING, PONG
  <1>10. /\ pong \in Sayings(frames) /\ ponged \in Sayings(frames)
         /\ op = PING => after = Tell(m, pong)
         /\ op = PONG => after = Tell(m, ponged)
         /\ op = CLOSE => after.over /\ after.said = Append(m.said, end)
    BY <1>1, <1>4, <1>5, ControlMeans
  <1> HIDE DEF pong, ponged, end, op, after, v
  <1>11. CASE op = CLOSE
    <2>1. Leave(w, end) = Shut(b, t, Append(m.said, end))
      BY LeaveIs
    <2>2. v = Shut(b, t, Append(m.said, end)) /\ after.over /\ after.said = Append(m.said, end)
      BY <1>9, <1>10, <1>11, <2>1
    <2> QED
      BY <2>2 DEF v, after, data, op, frame
  <1>12. ASSUME NEW x \in Sayings(frames), v = Say(w, x), after = Tell(m, x)
         PROVE  /\ v = Socket(b, t, Append(m.said, x)) /\ ~after.over
                /\ after.said = Append(m.said, x) /\ after.data = m.data
    <2>1. Say(w, x) = Socket(b, t, Append(m.said, x))
      BY SayIs
    <2>2. Tell(m, x).said = Append(m.said, x) /\ Tell(m, x).data = m.data /\ Tell(m, x).over = m.over
      BY <1>1, Telling
    <2> QED
      BY <1>1, <1>12, <2>1, <2>2
  <1>13. CASE op = PING
    <2>1. /\ v = Socket(b, t, Append(m.said, pong)) /\ ~after.over
          /\ after.said = Append(m.said, pong) /\ after.data = m.data
      BY <1>9, <1>10, <1>12, <1>13
    <2> QED
      BY <2>1 DEF v, after, data, op, frame
  <1>14. CASE op = PONG
    <2>1. /\ v = Socket(b, t, Append(m.said, ponged)) /\ ~after.over
          /\ after.said = Append(m.said, ponged) /\ after.data = m.data
      BY <1>9, <1>10, <1>12, <1>14
    <2> QED
      BY <2>1 DEF v, after, data, op, frame
  <1> QED
    BY <1>2, <1>11, <1>13, <1>14 DEF op, frame

(* A part of a control frame: it waits for the others behind the message   *)
(* it interrupts, or it is answered and the message is as it was.          *)
LEMMA HandlesControl ==
    ASSUME NEW m, NEW r, NEW a, NEW n, Handling(frames, m, r, a, n), frames[r].op > 2
    PROVE  LET left == frames[r].len - (a + n)
               v == ControlFragment(Partly(frames, m, r, a), frames[r].op, Part(r, a, n), frames[r].fin /\ left = 0)
               after == HeardFrame(frames, m, r)
           IN  /\ left > 0 => v = Partly(frames, m, r, a + n) \/ Gone(v, after)
               /\ left = 0 => (~after.over /\ v = Heeded(after)) \/ Gone(v, after)
  <1> DEFINE S == FrameBytes(frames)
             frame == frames[r]
             len == PayloadLen(frames, r)
             left == len - (a + n)
             last == frame.fin /\ left = 0
             op == frame.op
             D == m.data
             said == m.said
             front == Foremost(m, r, a)
             p == Part(r, a, n)
             whole == Foremost(m, r, a + n)
             all == Part(r, 0, len)
             w == Partly(frames, m, r, a)
             v == ControlFragment(w, op, p, last)
             after == HeardFrame(frames, m, r)
             Good == /\ left > 0 => v = Partly(frames, m, r, a + n) \/ Gone(v, after)
                     /\ left = 0 => (~after.over /\ v = Heeded(after)) \/ Gone(v, after)
  <1>0. len = frames[r].len /\ len \in Nat /\ frame.fin
    BY FrameFields, ControlIs DEF Handling
  <1> SUFFICES Good
    BY <1>0
  <1>1. a \in Nat /\ n \in Nat /\ a + n <= len
    BY <1>0 DEF Handling
  <1>2. D \in Seq(S) /\ Len(D) \in Nat
    BY HandlingTypes, HandlingParts
  <1>3. p \in Seq(S) /\ Len(p) = n
    BY HandlingTypes, HandlingParts
  <1>4. whole \in Seq(S) /\ Len(whole) = Len(D) + (a + n) /\ front \o p = whole
    BY HandlingTypes, HandlingParts
  <1>5. Handling(frames, m, r, 0, len)
    BY <1>0 DEF Handling
  <1>6. all \in Seq(S)
    BY <1>5, HandlingTypes
  <1>7. w = Socket(front, a, said)
    BY DEF Partly
  <1>8. Partly(frames, m, r, a + n) = Socket(whole, a + n, said)
    BY DEF Partly
  <1>9. w.buffer = front /\ w.tip = a
    BY <1>7, SocketFields
  <1>10. ASSUME NEW b, NEW t
         PROVE  \E s : \/ Control(Socket(b, t, said), op, all) = Shut(b, t, s) /\ after.over /\ after.said = s
                       \/ Control(Socket(b, t, said), op, all) = Socket(b, t, s) /\ ~after.over
                          /\ after.said = s /\ after.data = D
    BY <1>5, ControlTells
  <1> DEFINE start == Len(whole) - (a + n)
             rest == SubSeq(whole, start + 1, Len(whole))
             before == SubSeq(whole, 1, start)
  <1>11. v = IF last /\ a = 0 THEN Control(w, op, p)
             ELSE IF last THEN Back(Control(w, op, rest), before, 0)
             ELSE Back(w, whole, a + n)
    <2> HIDE DEF w, front, p, op, last
    <2>1. ControlFragment(w, op, p, last) =
             LET b == front \o p
                 t == a + n
                 k == Len(b) - t
             IN  IF last /\ a = 0 THEN Control(w, op, p)
                 ELSE IF last THEN Back(Control(w, op, SubSeq(b, k + 1, Len(b))), SubSeq(b, 1, k), 0)
                 ELSE Back(w, b, t)
      BY <1>3, <1>9 DEF ControlFragment, Back
    <2> HIDE DEF whole
    <2> QED
      BY <1>4, <2>1
  <1>12. ASSUME left = 0 PROVE a + n = len /\ whole = D \o all
    <2>1. a + n = len
      BY <1>0, <1>1, <1>12
    <2> QED
      BY <2>1 DEF Foremost
  <1>13. ASSUME left = 0 PROVE rest = all /\ before = D
    <2>1. start = Len(D)
      <3> HIDE DEF whole, D
      <3> QED
        BY <1>1, <1>2, <1>4
    <2>2. First(Len(D), D \o all) = D /\ After(Len(D), D \o all) = all
      BY <1>2, <1>6, Split
    <2>3. First(Len(D), D \o all) = SubSeq(D \o all, 1, Len(D))
      BY DEF First
    <2>4. After(Len(D), D \o all) = SubSeq(D \o all, Len(D) + 1, Len(D \o all))
      BY DEF After
    <2> HIDE DEF start, D, all, whole
    <2>5. whole = D \o all
      BY <1>12, <1>13
    <2> QED
      BY <2>1, <2>2, <2>3, <2>4, <2>5
  <1> HIDE DEF S, frame, len, op, D, said, front, p, whole, all, w, v, after, start, rest, before
  <1>14. CASE last /\ a = 0
    <2>1. p = all
      <3>1. left = 0
        BY <1>14
      <3>2. a + n = len
        BY <1>12, <3>1
      <3>3. n = len
        BY <1>0, <1>1, <1>14, <3>2
      <3> QED
        BY <1>14, <3>3 DEF p, all
    <2>2. Foremost(m, r, 0) = D
      <3>1. Part(r, 0, 0) = <<>>
        BY PartAll DEF Handling
      <3>2. D \o <<>> = D
        BY <1>2, ConcatNothing
      <3> QED
        BY <3>1, <3>2 DEF Foremost, D
    <2>3. w = Socket(D, 0, said)
      BY <1>7, <1>14, <2>2 DEF front
    <2>4. v = Control(Socket(D, 0, said), op, all)
      BY <1>11, <1>14, <2>1, <2>3
    <2>5. PICK s : \/ v = Shut(D, 0, s) /\ after.over /\ after.said = s
                   \/ v = Socket(D, 0, s) /\ ~after.over /\ after.said = s /\ after.data = D
      BY <1>10, <2>4
    <2>6. CASE v = Shut(D, 0, s) /\ after.over /\ after.said = s
      <3>1. ~v.open /\ v.said = s
        BY <2>6, SocketFields
      <3>2. Gone(v, after)
        BY <2>6, <3>1 DEF Gone
      <3> QED
        BY <3>2
    <2>7. CASE v = Socket(D, 0, s) /\ ~after.over /\ after.said = s /\ after.data = D
      <3>1. v = Heeded(after)
        BY <2>7 DEF Heeded
      <3>2. ~(left > 0)
        BY <1>14
      <3> QED
        BY <2>7, <3>1, <3>2
    <2> QED
      BY <2>5, <2>6, <2>7
  <1>15. CASE last /\ a # 0
    <2>1. v = Back(Control(Socket(front, a, said), op, all), D, 0)
      BY <1>7, <1>11, <1>13, <1>15
    <2>2. PICK s : \/ Control(Socket(front, a, said), op, all) = Shut(front, a, s) /\ after.over /\ after.said = s
                   \/ Control(Socket(front, a, said), op, all) = Socket(front, a, s) /\ ~after.over
                      /\ after.said = s /\ after.data = D
      BY <1>10
    <2>3. CASE Control(Socket(front, a, said), op, all) = Shut(front, a, s) /\ after.over /\ after.said = s
      <3>1. Back(Shut(front, a, s), D, 0) = Shut(D, 0, s)
        BY ShutTip
      <3>2. v = Shut(D, 0, s)
        BY <2>1, <2>3, <3>1
      <3>3. ~v.open /\ v.said = s
        BY <3>2, SocketFields
      <3>4. Gone(v, after)
        BY <2>3, <3>3 DEF Gone
      <3> QED
        BY <3>4
    <2>4. CASE Control(Socket(front, a, said), op, all) = Socket(front, a, s) /\ ~after.over
               /\ after.said = s /\ after.data = D
      <3>1. Back(Socket(front, a, s), D, 0) = Socket(D, 0, s)
        BY SocketTip
      <3>2. v = Socket(D, 0, s)
        BY <2>1, <2>4, <3>1
      <3>3. v = Heeded(after)
        BY <2>4, <3>2 DEF Heeded
      <3>4. ~(left > 0)
        BY <1>15
      <3> QED
        BY <2>4, <3>3, <3>4
    <2> QED
      BY <2>2, <2>3, <2>4
  <1>16. CASE ~last
    <2>1. left # 0
      BY <1>0, <1>16 DEF frame
    <2>2. Back(Socket(front, a, said), whole, a + n) = Socket(whole, a + n, said)
      BY SocketTip
    <2>3. v = Partly(frames, m, r, a + n)
      BY <1>7, <1>8, <1>11, <1>16, <2>2
    <2> QED
      BY <2>1, <2>3
  <1> QED
    BY <1>14, <1>15, <1>16

(* A part of any frame that is in place.                                   *)
LEMMA Handles ==
    ASSUME NEW m, NEW r, NEW a, NEW n, Handling(frames, m, r, a, n)
    PROVE  LET left == frames[r].len - (a + n)
               v == HandleFragment(Partly(frames, m, r, a), OpcodeOf(frames, m, r), Part(r, a, n),
                                   frames[r].fin /\ left = 0)
               after == HeardFrame(frames, m, r)
           IN  /\ left > 0 => v = Partly(frames, m, r, a + n) \/ Gone(v, after)
               /\ left = 0 => (~after.over /\ v = Heeded(after)) \/ Gone(v, after)
  <1>1. CASE frames[r].op > 2
    <2>1. OpcodeOf(frames, m, r) = frames[r].op
      BY <1>1 DEF OpcodeOf, CONTINUATION
    <2>2. ~(OpcodeOf(frames, m, r) < 3)
      <3>1. frames[r].op \in 0..15
        BY FrameFields DEF Handling
      <3> QED
        BY <1>1, <2>1, <3>1
    <2> QED
      BY <1>1, <2>1, <2>2, HandlesControl DEF HandleFragment
  <1>2. CASE ~(frames[r].op > 2)
    <2>1. OpcodeOf(frames, m, r) < 3
      <3>1. frames[r].op \in 0..2 /\ m.op \in 0..2
        BY <1>2, ControlIs DEF Handling, Hearings
      <3> QED
        BY <3>1 DEF OpcodeOf
    <2> QED
      BY <1>2, <2>1, HandlesData DEF HandleFragment
  <1> QED
    BY <1>1, <1>2


-----------------------------------------------------------------------------
(* Where the parser is in the stream, and what was said by then.           *)

\* Frame b began a message that the frames up to r have not finished.
BegunIn(fs, b, r) ==
    /\ b \in 1..r /\ fs[b].op \in 1..2 /\ ~fs[b].fin
    /\ \A k \in b..r : fs[k].op = CONTINUATION => ~fs[k].fin

\* The opcode stack between two frames: r came last, and they mean m.  A
\* message is unfinished although the last frame had FIN when that was a
\* control frame.
Stacked(fs, p, m, r) ==
    /\ m.op = 0 => p.opStack = -1 /\ p.lastFin
    /\ m.op # 0 => /\ p.opStack = 0 /\ p.opCode[0] = m.op
                   /\ \E b \in 1..r : /\ BegunIn(fs, b, r)
                                      /\ p.lastFin => \E h \in b..r : fs[h].op > 2

\* And while frame r is handled, when those before it mean m.
Inside(fs, p, m, r) ==
    /\ p.opCode[p.opStack] = OpcodeOf(fs, m, r)
    /\ p.lastFin <=> fs[r].fin
    /\ p.opStack = IF fs[r].op > 2 /\ m.op # 0 THEN 1 ELSE 0
    /\ m.op # 0 => /\ p.opCode[0] = m.op
                   /\ \E b \in 1..(r - 1) : BegunIn(fs, b, r - 1)

\* Nothing can be made of the bytes s of the header behind frame r.
TooShort(fs, s, r) == Len(s) < 6 \/ (r < Len(fs) /\ Len(s) < HeadLen(fs, r + 1))

\* The first r frames were handled, and the next header is awaited.
AtHead(fs, p, w, s, o, r) ==
    /\ w = Heeded(Hearing(fs)[r]) /\ ~Hearing(fs)[r].over
    /\ p.wantsHead
    /\ WireStream(fs, (IF s = <<>> THEN p.spill ELSE s) \o o, r, 0)
    /\ Stacked(fs, p, Hearing(fs)[r], r)
    /\ s = <<>> => TooShort(fs, p.spill, r)

\* So was part of frame r, and the rest of it is awaited.
Within(fs, p, w, s, o, r) ==
    LET m == Hearing(fs)[r - 1]
        a == PayloadLen(fs, r) - p.remaining
    IN  /\ Handling(fs, m, r, a, p.remaining)
        /\ w = Partly(fs, m, r, a)
        /\ ~p.wantsHead /\ p.remaining >= 1
        /\ WireStream(fs, s \o o, r, p.remaining)
        /\ Inside(fs, p, m, r)
        /\ p.phase = a % 4

\* The connection is gone, and everything was said before.
Parted(fs, w, s) == fs # <<>> /\ ~w.open /\ s = <<>> /\ w.said = Meaning(fs)

Follows(fs, p, w, s, o) ==
    \/ \E r \in 0..Len(fs) : AtHead(fs, p, w, s, o, r)
    \/ \E r \in 1..Len(fs) : Within(fs, p, w, s, o, r)
    \/ Parted(fs, w, s)

FollowsInv == ParserInv /\ (~Nested(frames) => Follows(frames, parser, ws, src, wire))

(* What is known of the frames before and after frame r.                   *)
LEMMA HearingNext ==
    ASSUME NEW fs \in Seq(Frame), NEW r \in 1..Len(fs)
    PROVE  /\ r \in DOMAIN fs /\ r - 1 \in 0..Len(fs) /\ r \in 0..Len(fs)
           /\ Hearing(fs)[r] = HeardFrame(fs, Hearing(fs)[r - 1], r)
           /\ Hearing(fs)[r - 1] \in Hearings(fs) /\ Hearing(fs)[r] \in Hearings(fs)
  <1>1. r \in DOMAIN fs /\ r - 1 \in 0..Len(fs) /\ r \in 0..Len(fs)
    OBVIOUS
  <1> QED
    BY <1>1, HearingIs, HearingType

(* Once the connection is gone, everything was said.                       *)
LEMMA GoneEnds ==
    ASSUME NEW fs \in Seq(Frame), NEW r \in 1..Len(fs), NEW w, Gone(w, Hearing(fs)[r])
    PROVE  Parted(fs, w, <<>>)
  <1>1. r \in 0..Len(fs) /\ fs # <<>>
    OBVIOUS
  <1>2. Hearing(fs)[r].over => Meaning(fs) = Hearing(fs)[r].said
    BY <1>1, SaidOnce
  <1> QED
    BY <1>1, <1>2 DEF Gone, Parted

(* Between two chunks the connection has not gone unnoticed.               *)
LEMMA OpenOrEnded ==
    ASSUME NEW fs, NEW p, NEW w, NEW s, NEW o, Follows(fs, p, w, s, o)
    PROVE  \/ w.open /\ \/ \E r \in 0..Len(fs) : AtHead(fs, p, w, s, o, r)
                        \/ \E r \in 1..Len(fs) : Within(fs, p, w, s, o, r)
           \/ ~w.open /\ Parted(fs, w, s)
  <1>1. CASE \E r \in 0..Len(fs) : AtHead(fs, p, w, s, o, r)
    <2>1. w.open
      BY <1>1, SocketFields DEF AtHead, Heeded
    <2> QED
      BY <1>1, <2>1
  <1>2. CASE \E r \in 1..Len(fs) : Within(fs, p, w, s, o, r)
    <2>1. w.open
      BY <1>2, SocketFields DEF Within, Partly
    <2> QED
      BY <1>2, <2>1
  <1>3. CASE Parted(fs, w, s)
    BY <1>3 DEF Parted
  <1> QED
    BY <1>1, <1>2, <1>3 DEF Follows

(* A connection that was upgraded, before the peer sends anything.         *)
LEMMA FollowStarts ==
    ASSUME NEW fs \in Seq(Frame), NEW p, NEW o, WireStream(fs, o, 0, 0), o \in Seq(FrameBytes(fs)),
           p.wantsHead, p.spill = <<>>, p.opStack = -1, p.lastFin
    PROVE  AtHead(fs, p, Heeded(Nothing), <<>>, o, 0)
  <1>1. 0 \in 0..Len(fs)
    OBVIOUS
  <1>2. Hearing(fs)[0] = Nothing /\ Nothing.op = 0 /\ ~Nothing.over
    BY HearingIs, HearingType
  <1>3. <<>> \o o = o /\ Len(<<>>) < 6
    BY ConcatNothing
  <1>4. Stacked(fs, p, Nothing, 0)
    BY <1>2 DEF Stacked
  <1>5. TooShort(fs, p.spill, 0)
    BY <1>3 DEF TooShort
  <1> QED
    BY <1>2, <1>3, <1>4, <1>5 DEF AtHead

(* The parser begins with the first header.                                *)
LEMMA FollowsInit == FrameInit => FollowsInv
  <1> SUFFICES ASSUME FrameInit PROVE FollowsInv
    OBVIOUS
  <1>1. ParserInv
    BY ParserStarts
  <1>2. frames \in Seq(Frame) /\ frames = <<>> /\ wire = <<>> /\ src = <<>> /\ Len(frames) = 0
    BY DEF FrameInit
  <1>3. parser.wantsHead /\ parser.spill = <<>> /\ parser.opStack = -1 /\ parser.lastFin
    BY DEF FrameInit
  <1>4. ws = Heeded(Nothing)
    BY DEF FrameInit, Heeded, Nothing, Socket
  <1>5. wire \in Seq(FrameBytes(frames)) /\ WireStream(frames, wire, 0, 0)
    <2>1. ~(0 < Len(frames)) /\ ~(0 > 0)
      BY <1>2
    <2>2. \A j \in 1..(Len(wire) - 1) : FALSE
      BY <1>2
    <2>3. WireBegins(frames, wire, 0, 0)
      BY <1>2, <2>1 DEF WireBegins
    <2>4. WireChain(frames, wire)
      BY <1>2, <2>2 DEF WireChain
    <2>5. wire \in Seq(FrameBytes(frames))
      BY <1>2
    <2> QED
      BY <2>3, <2>4, <2>5 DEF WireStream
  <1>6. AtHead(frames, parser, ws, src, wire, 0)
    BY <1>2, <1>3, <1>4, <1>5, FollowStarts
  <1>7. 0 \in 0..Len(frames)
    BY <1>2
  <1> QED
    BY <1>1, <1>6, <1>7 DEF FollowsInv, Follows

(* Frames are chosen while nothing was sent.                               *)
LEMMA StartFramesFollows ==
    ASSUME FollowsInv, NEW fs \in FrameStreams, StartFrames(fs)
    PROVE  FollowsInv'
  <1>1. ParserInv'
    BY StartFramesKeeps DEF FollowsInv
  <1>2. fs \in Seq(Frame) /\ frames = <<>> /\ frames' = fs /\ wire' = AllBytes(fs)
        /\ src' = src /\ parser' = parser /\ ws' = ws
    BY FrameAssumption DEF StartFrames
  <1>3. Len(frames) = 0 /\ DOMAIN frames = {} /\ frames \in Seq(Frame)
    BY <1>2
  <1>4. ~Nested(frames)
    BY <1>3 DEF Nested
  <1>5. AtHead(frames, parser, ws, src, wire, 0)
    <2>1. Follows(frames, parser, ws, src, wire)
      BY <1>4 DEF FollowsInv
    <2>2. ~Parted(frames, ws, src)
      BY <1>2 DEF Parted
    <2>3. 0..Len(frames) = {0} /\ 1..Len(frames) = {}
      BY <1>3
    <2> QED
      BY <2>1, <2>2, <2>3 DEF Follows
  <1>6. src = <<>> /\ parser.spill = <<>>
    <2>1. FrameBytes(frames) = {}
      BY <1>2 DEF FrameBytes
    <2>2. \A s \in Seq(FrameBytes(frames)) : s = <<>>
      BY <2>1
    <2> QED
      BY <2>2 DEF FollowsInv, ParserInv, ParserTypeOK, Parsers
  <1>7. Hearing(frames)[0] = Nothing /\ Nothing.op = 0
    BY <1>3, HearingIs, HearingType
  <1>8. ws = Heeded(Nothing) /\ parser.wantsHead /\ parser.opStack = -1 /\ parser.lastFin
    BY <1>5, <1>7 DEF AtHead, Stacked
  <1>9. wire' \in Seq(FrameBytes(fs)) /\ WireStream(fs, wire', 0, 0)
    BY <1>2, WireStarts
  <1>10. AtHead(fs, parser, Heeded(Nothing), <<>>, wire', 0)
    BY <1>2, <1>6, <1>8, <1>9, FollowStarts
  <1>11. AtHead(frames', parser', ws', src', wire', 0)
    BY <1>2, <1>6, <1>8, <1>10
  <1>12. 0 \in 0..Len(frames')
    BY <1>2
  <1>13. Follows(frames', parser', ws', src', wire')
    BY <1>11, <1>12 DEF Follows
  <1> QED
    BY <1>1, <1>13 DEF FollowsInv

(* A chunk changes nothing of what is left of the stream.                  *)
LEMMA ReceiveFollows ==
    ASSUME FollowsInv, NEW n \in 1..Len(wire), Receive(n)
    PROVE  FollowsInv'
  <1>1. ParserInv' /\ ParserInv
    BY ReceiveKeeps DEF FollowsInv
  <1>2. src = <<>> /\ frames' = frames /\ parser' = parser /\ ws' = ws
        /\ src' = (IF ws.open THEN parser.spill \o First(n, wire) ELSE <<>>) /\ wire' = After(n, wire)
    BY DEF Receive, First, After
  <1>3. SUFFICES ASSUME ~Nested(frames) PROVE Follows(frames, parser, ws, src', wire')
    BY <1>1, <1>2 DEF FollowsInv
  <1> DEFINE S == FrameBytes(frames)
             c == parser.spill
             f == First(n, wire)
             o == After(n, wire)
  <1>4. wire \in Seq(S) /\ c \in Seq(S) /\ n \in 0..Len(wire)
    BY <1>1 DEF ParserInv, ParserTypeOK, Parsers
  <1>5. f \in Seq(S) /\ Len(f) = n /\ o \in Seq(S) /\ f \o o = wire
    BY <1>4, FirstIs, AfterIs, Cut
  <1> HIDE DEF S, c, f, o
  <1>6. (c \o f) \o o = c \o wire
    <2>1. c \in Seq(S) /\ f \in Seq(S) /\ o \in Seq(S)
      BY <1>4, <1>5
    <2>2. (c \o f) \o o = c \o (f \o o)
      BY <2>1, ConcatThree
    <2> QED
      BY <1>5, <2>2
  <1>7. c \o f # <<>>
    <2>1. Len(c \o f) = Len(c) + n
      BY <1>4, <1>5, ConcatIs
    <2>2. Len(c) \in Nat
      BY <1>4
    <2>3. Len(c \o f) # 0
      BY <2>1, <2>2
    <2> QED
      BY <2>3
  <1>8. src' = (IF ws.open THEN c \o f ELSE <<>>) /\ wire' = o
    BY <1>2 DEF c, f, o
  <1>9. Follows(frames, parser, ws, src, wire)
    BY <1>3 DEF FollowsInv
  <1>10. CASE ~ws.open /\ Parted(frames, ws, src)
    <2>1. Parted(frames, ws, src')
      BY <1>2, <1>8, <1>10
    <2> QED
      BY <2>1 DEF Follows
  <1>11. ASSUME ws.open, NEW r \in 0..Len(frames), AtHead(frames, parser, ws, src, wire, r)
         PROVE  AtHead(frames, parser, ws, src', wire', r)
    <2>1. src' = c \o f /\ src' # <<>>
      BY <1>7, <1>8, <1>11
    <2>2. WireStream(frames, c \o wire, r, 0)
      BY <1>2, <1>11 DEF AtHead, c
    <2>3. WireStream(frames, src' \o wire', r, 0)
      BY <1>6, <1>8, <2>1, <2>2
    <2> QED
      BY <1>11, <2>1, <2>3 DEF AtHead
  <1>12. ASSUME ws.open, NEW r \in 1..Len(frames), Within(frames, parser, ws, src, wire, r)
         PROVE  Within(frames, parser, ws, src', wire', r)
    <2>1. c = <<>>
      BY <1>1, <1>12 DEF Within, ParserInv, StateFits, c
    <2>2. src' = c \o f
      BY <1>8, <1>12
    <2>3. src' \o wire' = src \o wire
      BY <1>2, <1>6, <1>8, <2>1, <2>2
    <2> QED
      BY <1>12, <2>3 DEF Within
  <1> QED
    BY <1>9, <1>10, <1>11, <1>12, OpenOrEnded DEF Follows

(* The header in front is that of the next frame.                          *)
LEMMA HeaderAt ==
    ASSUME ParserInv, src # <<>>, NEW r \in 0..Len(frames), AtHead(frames, parser, ws, src, wire, r)
    PROVE  /\ r \in 0..(Len(frames) - 1) /\ r + 1 \in 1..Len(frames) /\ r + 1 \in DOMAIN frames /\ (r + 1) - 1 = r
           /\ Header = frames[r + 1]
           /\ WireStream(frames, src \o wire, r, 0)
  <1> DEFINE S == FrameBytes(frames)
             s == src \o wire
  <1>1. frames \in Seq(Frame) /\ src \in Seq(S) /\ wire \in Seq(S)
    BY DEF ParserInv, ParserTypeOK
  <1>2. Len(src) \in Nat /\ Len(src) >= 1
    BY <1>1
  <1>3. s \in Seq(S) /\ Len(s) = Len(src) + Len(wire) /\ s[1] = src[1]
    <2>1. 1 \in 1..Len(src)
      BY <1>2
    <2> QED
      BY <1>1, <2>1, ConcatIs
  <1>4. WireStream(frames, s, r, 0)
    BY DEF AtHead
  <1> HIDE DEF s
  <1>5. s # <<>>
    <2>1. Len(s) # 0
      BY <1>1, <1>2, <1>3
    <2> QED
      BY <2>1
  <1>6. r < Len(frames) /\ s[1] = <<r + 1, 1 - HeadLen(frames, r + 1)>>
    BY <1>4, <1>5 DEF WireStream, WireBegins
  <1>7. r \in 0..(Len(frames) - 1) /\ r + 1 \in 1..Len(frames) /\ r + 1 \in DOMAIN frames /\ (r + 1) - 1 = r
    BY <1>1, <1>6
  <1>8. Header = frames[r + 1]
    BY <1>3, <1>6 DEF Header
  <1> QED
    BY <1>4, <1>7, <1>8 DEF s

(* A header that is not complete is kept.                                  *)
LEMMA SpillHeadFollows ==
    ASSUME FollowsInv, SpillHead
    PROVE  FollowsInv'
  <1>1. ParserInv' /\ ParserInv
    BY SpillHeadKeeps DEF FollowsInv
  <1>2. src # <<>> /\ parser.wantsHead /\ ~HeadComplete /\ parser' = [parser EXCEPT !.spill = src] /\ src' = <<>>
        /\ frames' = frames /\ wire' = wire /\ ws' = ws
    BY DEF SpillHead
  <1>3. SUFFICES ASSUME ~Nested(frames) PROVE Follows(frames, parser', ws, <<>>, wire)
    BY <1>1, <1>2 DEF FollowsInv
  <1>4. /\ parser'.spill = src /\ parser'.wantsHead = parser.wantsHead /\ parser'.opStack = parser.opStack
        /\ parser'.opCode = parser.opCode /\ parser'.lastFin = parser.lastFin
    BY <1>1, <1>2 DEF ParserInv, ParserTypeOK, Parsers
  <1>5. PICK r \in 0..Len(frames) : AtHead(frames, parser, ws, src, wire, r)
    <2>1. Follows(frames, parser, ws, src, wire)
      BY <1>3 DEF FollowsInv
    <2>2. ~Parted(frames, ws, src) /\ \A r \in 1..Len(frames) : ~Within(frames, parser, ws, src, wire, r)
      BY <1>2 DEF Parted, Within
    <2> QED
      BY <2>1, <2>2 DEF Follows
  <1>6. r < Len(frames) /\ Header = frames[r + 1] /\ WireStream(frames, src \o wire, r, 0)
    <2>1. r \in 0..(Len(frames) - 1) /\ Header = frames[r + 1] /\ WireStream(frames, src \o wire, r, 0)
      BY <1>1, <1>2, <1>5, HeaderAt
    <2> QED
      BY <2>1
  <1>7. TooShort(frames, src, r)
    <2>1. ~(Len(src) >= 6) \/ ~(Len(src) >= HeadLen(frames, r + 1))
      BY <1>2, <1>6 DEF HeadComplete, ShortHeader, HeadLen
    <2>2. Len(src) \in Nat /\ HeadLen(frames, r + 1) \in Nat
      <3>1. r + 1 \in DOMAIN frames /\ frames \in Seq(Frame)
        BY <1>1, <1>6 DEF ParserInv, ParserTypeOK
      <3>2. Len(src) \in Nat
        BY <1>1 DEF ParserInv, ParserTypeOK
      <3> QED
        BY <3>1, <3>2, FrameFields
    <2> QED
      BY <1>6, <2>1, <2>2 DEF TooShort
  <1>8. Stacked(frames, parser', Hearing(frames)[r], r)
    BY <1>4, <1>5 DEF AtHead, Stacked
  <1>9. AtHead(frames, parser', ws, <<>>, wire, r)
    BY <1>4, <1>5, <1>6, <1>7, <1>8 DEF AtHead
  <1> QED
    BY <1>9 DEF Follows

(* An unfinished message goes on while no frame ends it.                   *)
LEMMA BegunOn ==
    ASSUME NEW fs, NEW r \in Nat, NEW b \in 1..r, BegunIn(fs, b, r),
           fs[r + 1].op = CONTINUATION => ~fs[r + 1].fin
    PROVE  b \in 1..(r + 1) /\ BegunIn(fs, b, r + 1)
  <1>1. b \in 1..(r + 1)
    OBVIOUS
  <1>2. ASSUME NEW k \in b..(r + 1), fs[k].op = CONTINUATION PROVE ~fs[k].fin
    <2>1. k \in b..r \/ k = r + 1
      BY <1>2
    <2> QED
      BY <1>2, <2>1 DEF BegunIn
  <1> QED
    BY <1>1, <1>2 DEF BegunIn

(* No message begins inside another but those the parser refuses.          *)
LEMMA NotInside ==
    ASSUME frames \in Seq(Frame), ~Nested(frames), NEW r \in Nat, r + 1 \in DOMAIN frames,
           NEW b \in 1..r, BegunIn(frames, b, r), frames[r + 1].op \in 1..2
    PROVE  frames[r + 1].op # 2 /\ \A h \in b..r : ~(frames[h].op > 2)
  <1>1. b \in DOMAIN frames /\ b < r + 1
    OBVIOUS
  <1>2. BegunIn(frames, b, r + 1)
    BY <1>1, BegunOn DEF CONTINUATION
  <1>3. frames[b].op \in 1..2 /\ ~frames[b].fin /\ \A k \in b..(r + 1) : frames[k].op = CONTINUATION => ~frames[k].fin
    BY <1>2 DEF BegunIn
  <1>4. ~(frames[r + 1].op = 2 \/ \E h \in b..(r + 1) : frames[h].op > 2)
    BY <1>1, <1>3 DEF Nested
  <1>5. \A h \in b..r : h \in b..(r + 1)
    OBVIOUS
  <1> QED
    BY <1>4, <1>5

(* The parser refuses the frames that are misplaced, and no others.        *)
LEMMA Placed ==
    ASSUME ParserInv, ~Nested(frames), NEW r \in 0..(Len(frames) - 1), Header = frames[r + 1],
           NEW m \in Hearings(frames), Stacked(frames, parser, m, r)
    PROVE  (Refused \/ Unexpected \/ Header.len > MaxPayload) <=> Misplaced(m, frames[r + 1])
  <1> DEFINE q == r + 1
             op == frames[q].op
             len == frames[q].len
             fin == frames[q].fin
             header == frames[q].header
             rsv == frames[q].rsv
             top == m.op
             Bad == \/ rsv \/ op \in 3..7 \/ op > 10
                    \/ op > 2 /\ (~fin \/ header # 6)
             Out == \/ op # 0 /\ parser.opStack = 1
                    \/ op = 1 /\ ~parser.lastFin
                    \/ op = 0 /\ parser.opStack = -1
  <1>1. frames \in Seq(Frame) /\ q \in DOMAIN frames /\ r \in Nat /\ q \in Nat
    BY DEF ParserInv, ParserTypeOK
  <1>2. op \in 0..15 /\ len \in Nat /\ MaxPayload \in Nat /\ top \in 0..2
    BY <1>1, FrameFields, FrameAssumption DEF Hearings
  <1>3. Refused <=> Bad
    BY DEF Refused, PONG, ShortHeader
  <1>4. Unexpected <=> Out
    BY DEF Unexpected, CONTINUATION, TEXT
  <1>5. Misplaced(m, frames[q]) <=> \/ rsv
                                    \/ op \in 3..7 \cup 11..15
                                    \/ len > MaxPayload
                                    \/ op > 2 /\ (~fin \/ header # 6)
                                    \/ op <= 2 /\ (op = 0) # (top # 0)
    BY DEF Misplaced, CONTINUATION, ShortHeader
  <1>6. top = 0 => parser.opStack = -1 /\ parser.lastFin
    BY DEF Stacked
  <1>7. ASSUME top # 0 PROVE parser.opStack = 0 /\ (op \in 1..2 => op = 1 /\ ~parser.lastFin)
    <2>1. PICK b \in 1..r : BegunIn(frames, b, r) /\ (parser.lastFin => \E h \in b..r : frames[h].op > 2)
      BY <1>7 DEF Stacked
    <2>2. ASSUME op \in 1..2 PROVE op # 2 /\ \A h \in b..r : ~(frames[h].op > 2)
      BY <1>1, <2>1, <2>2, NotInside
    <2>3. ASSUME op \in 1..2 PROVE op = 1 /\ ~parser.lastFin
      BY <2>1, <2>2, <2>3
    <2>4. parser.opStack = 0
      BY <1>7 DEF Stacked
    <2> QED
      BY <2>3, <2>4
  <1> HIDE DEF q, op, len, fin, header, rsv, top
  <1>8. Out <=> (op <= 2 /\ (op = 0) # (top # 0))
    <2>1. CASE top = 0
      BY <1>2, <1>6, <2>1
    <2>2. CASE top # 0
      BY <1>2, <1>7, <2>2
    <2> QED
      BY <2>1, <2>2
  <1> HIDE DEF Out
  <1>9. (Bad \/ Out \/ len > MaxPayload) <=> \/ rsv
                                             \/ op \in 3..7 \cup 11..15
                                             \/ len > MaxPayload
                                             \/ op > 2 /\ (~fin \/ header # 6)
                                             \/ op <= 2 /\ (op = 0) # (top # 0)
    <2>1. op \in 3..7 \cup 11..15 <=> op \in 3..7 \/ op > 10
      BY <1>2
    <2> QED
      BY <1>8, <2>1
  <1>10. Header.len = len
    BY DEF len, q
  <1> QED
    BY <1>3, <1>4, <1>5, <1>9, <1>10 DEF q

(* A frame that cannot be one ends the connection, as it should.           *)
LEMMA RefuseHeadFollows ==
    ASSUME FollowsInv, RefuseHead
    PROVE  FollowsInv'
  <1>1. ParserInv' /\ ParserInv
    BY RefuseHeadKeeps DEF FollowsInv
  <1>2. /\ src # <<>> /\ parser.wantsHead /\ (Refused \/ Unexpected \/ Header.len > MaxPayload)
        /\ ws' = ForceClose(ws) /\ src' = <<>> /\ frames' = frames /\ wire' = wire /\ parser' = parser
    BY DEF RefuseHead
  <1>3. SUFFICES ASSUME ~Nested(frames) PROVE Parted(frames, ws', <<>>)
    BY <1>1, <1>2 DEF FollowsInv, Follows
  <1>4. PICK r \in 0..Len(frames) : AtHead(frames, parser, ws, src, wire, r)
    <2>1. Follows(frames, parser, ws, src, wire)
      BY <1>3 DEF FollowsInv
    <2>2. ~Parted(frames, ws, src) /\ \A r \in 1..Len(frames) : ~Within(frames, parser, ws, src, wire, r)
      BY <1>2 DEF Parted, Within
    <2> QED
      BY <2>1, <2>2 DEF Follows
  <1> DEFINE q == r + 1
             m == Hearing(frames)[r]
             after == Hearing(frames)[q]
  <1>5. r \in 0..(Len(frames) - 1) /\ q \in 1..Len(frames) /\ q - 1 = r /\ Header = frames[q]
    BY <1>1, <1>2, <1>4, HeaderAt
  <1>6. frames \in Seq(Frame)
    BY <1>1 DEF ParserInv, ParserTypeOK
  <1>7. after = HeardFrame(frames, m, q) /\ m \in Hearings(frames)
    BY <1>5, <1>6, HearingNext
  <1>8. Misplaced(m, frames[q])
    BY <1>1, <1>2, <1>3, <1>4, <1>5, <1>7, Placed DEF AtHead
  <1>9. ~m.over /\ ws = Socket(m.data, 0, m.said)
    BY <1>4 DEF AtHead, Heeded
  <1>10. after = Fail(m)
    BY <1>7, <1>8, <1>9 DEF HeardFrame
  <1>11. ~ws'.open /\ ws'.said = Append(m.said, [kind |-> "forced"])
    BY <1>2, <1>9, ForceIs, ForcedIs
  <1>12. Gone(ws', after)
    <2>1. after.over /\ after.said = Append(m.said, [kind |-> "forced"])
      BY <1>7, <1>10, Failing
    <2> QED
      BY <1>11, <2>1 DEF Gone
  <1> HIDE DEF q
  <1> QED
    BY <1>5, <1>6, <1>12, GoneEnds

(* The opcode of a frame that was let in is on top of the stack, and that  *)
(* of the message it interrupts below.                                     *)
LEMMA PushedInside ==
    ASSUME ParserInv, NEW r \in 0..(Len(frames) - 1), Header = frames[r + 1], ~Unexpected,
           NEW m \in Hearings(frames), Stacked(frames, parser, m, r), ~Misplaced(m, frames[r + 1])
    PROVE  Inside(frames, Pushed, m, r + 1)
  <1> DEFINE q == r + 1
             op == frames[q].op
             fin == frames[q].fin
  <1>1. frames \in Seq(Frame) /\ q \in DOMAIN frames /\ q - 1 = r
    BY DEF ParserInv, ParserTypeOK
  <1>2. op \in 0..15 /\ fin \in BOOLEAN /\ m.op \in 0..2
    BY <1>1, FrameFields DEF Hearings
  <1>3. ~(op > 2) => op \in 0..2 /\ ((op = CONTINUATION) <=> m.op # 0)
    BY <1>1, ControlIs
  <1>4. /\ m.op = 0 => parser.opStack = -1
        /\ m.op # 0 => /\ parser.opStack = 0 /\ parser.opCode[0] = m.op
                       /\ \E b \in 1..(q - 1) : BegunIn(frames, b, q - 1)
    BY <1>1 DEF Stacked
  <1>5. parser \in Parsers(frames) /\ parser.opCode \in [0..1 -> 0..15]
    BY DEF ParserInv, ParserTypeOK, Parsers
  <1>6. CASE op = CONTINUATION
    <2>1. Pushed = [parser EXCEPT !.lastFin = fin]
      BY <1>6 DEF Pushed
    <2>2. Pushed.lastFin = fin /\ Pushed.opStack = parser.opStack /\ Pushed.opCode = parser.opCode
      BY <1>5, <2>1 DEF Parsers
    <2>3. m.op # 0 /\ ~(op > 2)
      BY <1>3, <1>6 DEF CONTINUATION
    <2>4. OpcodeOf(frames, m, q) = m.op
      BY <1>6 DEF OpcodeOf
    <2> QED
      BY <1>4, <2>2, <2>3, <2>4 DEF Inside
  <1>7. CASE op # CONTINUATION
    <2> DEFINE top == parser.opStack + 1
               codes == [parser.opCode EXCEPT ![top] = op]
    <2>1. Pushed = [parser EXCEPT !.opStack = top, !.opCode = codes, !.lastFin = fin]
      BY <1>5, <1>7 DEF Pushed, Parsers
    <2>2. OpcodeOf(frames, m, q) = op
      BY <1>7 DEF OpcodeOf
    <2>3. top = IF m.op # 0 THEN 1 ELSE 0
      BY <1>4
    <2>4. codes[top] = op /\ (m.op # 0 => codes[0] = m.op)
      BY <1>4, <1>5, <2>3
    <2>5. top = IF op > 2 /\ m.op # 0 THEN 1 ELSE 0
      BY <1>3, <1>7, <2>3
    <2> HIDE DEF top, codes
    <2>6. Pushed.lastFin = fin /\ Pushed.opStack = top /\ Pushed.opCode = codes
      BY <1>5, <2>1 DEF Parsers
    <2> QED
      BY <1>4, <2>2, <2>4, <2>5, <2>6 DEF Inside
  <1> QED
    BY <1>6, <1>7

(* A control frame leaves the message it interrupts as it is.              *)
LEMMA ControlOp ==
    ASSUME NEW fs, NEW m \in Hearings(fs), NEW frame, frame.op \in {CLOSE, PING, PONG},
           NEW data \in Seq(FrameBytes(fs))
    PROVE  LET v == HeardControl(m, frame, data) IN v.over \/ v.op = m.op
  <1> DEFINE v == HeardControl(m, frame, data)
             pong == [kind |-> "pong", data |-> data]
             ponged == [kind |-> "ponged"]
  <1>1. /\ pong \in Sayings(fs) /\ ponged \in Sayings(fs)
        /\ frame.op = PING => v = Tell(m, pong)
        /\ frame.op = PONG => v = Tell(m, ponged)
        /\ frame.op = CLOSE => v.over
    BY ControlMeans
  <1> HIDE DEF v, pong, ponged
  <1>2. Tell(m, pong).op = m.op /\ Tell(m, ponged).op = m.op
    BY <1>1, Telling
  <1>3. v.over \/ v.op = m.op
    BY <1>1, <1>2
  <1> QED
    BY <1>3 DEF v

\* The opcode of the message that frame r leaves unfinished.
OpAfter(fs, m, r) ==
    IF fs[r].op > 2 THEN m.op ELSE IF fs[r].fin THEN 0 ELSE OpcodeOf(fs, m, r)

(* Unless the connection is over, it is that one.                          *)
LEMMA HeardOp ==
    ASSUME NEW fs \in Seq(Frame), NEW r \in DOMAIN fs, NEW m \in Hearings(fs), ~m.over, ~Misplaced(m, fs[r]),
           ~HeardFrame(fs, m, r).over
    PROVE  HeardFrame(fs, m, r).op = OpAfter(fs, m, r)
  <1> DEFINE v == HeardFrame(fs, m, r)
             data == Payload(fs, r)
             frame == fs[r]
  <1>1. data \in Seq(FrameBytes(fs))
    BY PayloadType
  <1>2. m.data \in Seq(FrameBytes(fs)) /\ m.op \in 0..2
    BY DEF Hearings
  <1>3. CASE frame.op > 2
    <2>1. v = HeardControl(m, frame, data) /\ frame.op \in {CLOSE, PING, PONG}
      BY <1>3, ControlIs DEF HeardFrame
    <2>2. v.over \/ v.op = m.op
      BY <1>1, <2>1, ControlOp
    <2>3. ~v.over
      OBVIOUS
    <2> HIDE DEF v
    <2>4. v.op = m.op
      BY <2>2, <2>3
    <2> QED
      BY <1>3, <2>4 DEF OpAfter, v, frame
  <1>4. CASE ~(frame.op > 2)
    <2> DEFINE whole == m.data \o data
               sound == \A i \in DOMAIN whole : fs[whole[i][1]].sound
               op == OpcodeOf(fs, m, r)
               told == [kind |-> "message", op |-> op, data |-> whole]
    <2>1. v = HeardData(fs, m, frame, data)
      BY <1>4 DEF HeardFrame
    <2>2. v = IF Len(whole) > MaxPayload THEN Fail(m)
              ELSE IF ~frame.fin THEN [m EXCEPT !.op = op, !.data = whole]
              ELSE IF op = TEXT /\ ~sound THEN Fail(m)
              ELSE [Tell(m, told) EXCEPT !.op = 0, !.data = <<>>]
      BY <2>1 DEF HeardData, OpcodeOf
    <2>3. whole \in Seq(FrameBytes(fs))
      BY <1>1, <1>2
    <2>4. op \in 0..2
      <3>1. frame.op \in 0..2
        BY <1>4, ControlIs
      <3> QED
        BY <1>2, <3>1 DEF OpcodeOf
    <2>5. told \in Sayings(fs)
      <3> HIDE DEF whole, op
      <3> QED
        BY <2>3, <2>4 DEF Sayings
    <2>6. Fail(m).over
      BY Failing
    <2>7. ~v.over
      OBVIOUS
    <2> HIDE DEF v, whole, sound, told, op
    <2>8. Tell(m, told) \in Hearings(fs)
      BY <2>5, Telling
    <2>9. CASE ~frame.fin
      <3>1. v = [m EXCEPT !.op = op, !.data = whole]
        BY <2>2, <2>6, <2>7, <2>9
      <3>2. v.op = op
        BY <3>1 DEF Hearings
      <3> QED
        BY <1>4, <2>9, <3>2 DEF OpAfter, v, op
    <2>10. CASE frame.fin
      <3>1. v = [Tell(m, told) EXCEPT !.op = 0, !.data = <<>>]
        BY <2>2, <2>6, <2>7, <2>10
      <3>2. v.op = 0
        BY <2>8, <3>1 DEF Hearings
      <3> QED
        BY <1>4, <2>10, <3>2 DEF OpAfter, v
    <2> QED
      BY <2>9, <2>10
  <1> QED
    BY <1>3, <1>4

(* Behind a frame, its opcode is popped when it had FIN, and the stack is  *)
(* what it should be between two frames.                                   *)
LEMMA PoppedStacked ==
    ASSUME NEW fs \in Seq(Frame), NEW r \in 1..Len(fs), NEW m \in Hearings(fs), ~m.over, ~Misplaced(m, fs[r]),
           ~HeardFrame(fs, m, r).over, NEW p, Inside(fs, p, m, r),
           NEW x, x.opStack = (IF fs[r].fin THEN p.opStack - 1 ELSE p.opStack), x.opCode = p.opCode,
           x.lastFin = p.lastFin
    PROVE  Stacked(fs, x, HeardFrame(fs, m, r), r)
  <1> DEFINE after == HeardFrame(fs, m, r)
             op == fs[r].op
             fin == fs[r].fin
  <1>1. r \in DOMAIN fs /\ r - 1 \in Nat /\ (r - 1) + 1 = r
    OBVIOUS
  <1>2. op \in 0..15 /\ fin \in BOOLEAN /\ m.op \in 0..2
    BY <1>1, FrameFields DEF Hearings
  <1>3. /\ op > 2 => fin
        /\ ~(op > 2) => op \in 0..2 /\ ((op = CONTINUATION) <=> m.op # 0)
    BY <1>1, ControlIs
  <1>4. after.op = OpAfter(fs, m, r)
    BY <1>1, HeardOp
  <1> HIDE DEF after
  <1>5. /\ p.opCode[p.opStack] = OpcodeOf(fs, m, r) /\ (p.lastFin <=> fin)
        /\ p.opStack = IF op > 2 /\ m.op # 0 THEN 1 ELSE 0
    BY DEF Inside
  <1>6. ASSUME m.op # 0, op = CONTINUATION => ~fin
        PROVE  p.opCode[0] = m.op /\ \E b \in 1..r : b <= r /\ BegunIn(fs, b, r)
    <2>1. PICK b \in 1..(r - 1) : BegunIn(fs, b, r - 1)
      BY <1>6 DEF Inside
    <2>2. b \in 1..r /\ BegunIn(fs, b, r)
      BY <1>1, <1>6, <2>1, BegunOn
    <2>3. p.opCode[0] = m.op
      BY <1>6 DEF Inside
    <2> QED
      BY <2>2, <2>3
  <1>7. CASE op > 2
    <2>1. after.op = m.op /\ fin /\ x.lastFin
      BY <1>3, <1>4, <1>5, <1>7 DEF OpAfter
    <2>2. x.opStack = IF m.op # 0 THEN 0 ELSE -1
      BY <1>5, <1>7, <2>1
    <2>3. CASE m.op = 0
      BY <2>1, <2>2, <2>3 DEF Stacked, after
    <2>4. CASE m.op # 0
      <3>1. op # CONTINUATION
        BY <1>2, <1>7 DEF CONTINUATION
      <3>2. PICK b \in 1..r : b <= r /\ BegunIn(fs, b, r)
        BY <1>6, <2>4, <3>1
      <3>3. r \in b..r /\ fs[r].op > 2
        BY <1>7, <3>2
      <3>4. x.opStack = 0 /\ x.opCode[0] = after.op
        BY <1>6, <2>1, <2>2, <2>4, <3>1
      <3> QED
        BY <2>1, <2>4, <3>2, <3>3, <3>4 DEF Stacked, after
    <2> QED
      BY <2>3, <2>4 DEF after
  <1>8. CASE ~(op > 2) /\ fin
    <2>1. after.op = 0 /\ x.opStack = -1 /\ x.lastFin
      BY <1>4, <1>5, <1>8 DEF OpAfter
    <2> QED
      BY <2>1 DEF Stacked, after
  <1>9. CASE ~(op > 2) /\ ~fin
    <2>1. after.op = OpcodeOf(fs, m, r) /\ x.opStack = 0 /\ ~x.lastFin /\ x.opCode[0] = after.op
      BY <1>4, <1>5, <1>9 DEF OpAfter
    <2>2. after.op # 0 /\ \E b \in 1..r : BegunIn(fs, b, r)
      <3>1. CASE op = CONTINUATION
        <4>1. m.op # 0 /\ after.op = m.op
          BY <1>3, <1>9, <2>1, <3>1 DEF OpcodeOf
        <4> QED
          BY <1>6, <1>9, <4>1
      <3>2. CASE op # CONTINUATION
        <4>1. after.op = op /\ op \in 1..2
          BY <1>3, <1>9, <2>1, <3>2 DEF OpcodeOf, CONTINUATION
        <4>2. r..r = {r} /\ r \in 1..r
          OBVIOUS
        <4>3. BegunIn(fs, r, r)
          BY <1>9, <3>2, <4>1, <4>2 DEF BegunIn
        <4> QED
          BY <4>1, <4>2, <4>3
      <3> QED
        BY <3>1, <3>2
    <2> QED
      BY <2>1, <2>2 DEF Stacked, after
  <1> QED
    BY <1>2, <1>7, <1>8, <1>9

(* The mask was rotated by the bytes that came before.                     *)
LEMMA UnmaskIs ==
    ASSUME NEW fs, NEW r \in 1..Len(fs), NEW a \in Nat, NEW n \in Nat
    PROVE  Unmask(Part(r, a, n), a % 4) = Part(r, a, n)
  <1> DEFINE p == Part(r, a, n)
  <1>1. p = [i \in 1..n |-> <<r, a + i>>]
    BY DEF Part
  <1>2. DOMAIN p = 1..n /\ \A i \in 1..n : p[i] = <<r, a + i>>
    BY <1>1
  <1>3. ASSUME NEW i \in 1..n PROVE ((a % 4) + i - p[i][2]) % 4 = 0
    <2>1. p[i][2] = a + i
      BY <1>2
    <2>2. ((a % 4) + i - (a + i)) % 4 = 0
      <3>1. a % 4 \in Int /\ (a % 4) + i - (a + i) = (a % 4) - a
        OBVIOUS
      <3>2. ((a % 4) - a) % 4 = 0
        OBVIOUS
      <3> QED
        BY <3>1, <3>2
    <2> QED
      BY <2>1, <2>2
  <1> HIDE DEF p
  <1>4. Unmask(p, a % 4) = [i \in 1..n |-> p[i]]
    BY <1>2, <1>3 DEF Unmask
  <1>5. p = [i \in 1..n |-> p[i]]
    BY <1>1, <1>2
  <1> QED
    BY <1>4, <1>5 DEF p

\* n elements of s, behind its first k.
Slice(s, k, n) == SubSeq(s, k + 1, k + n)

\* Behind the first k bytes of s come n bytes of frame r, from its a-th on.
Brings(fs, s, o, r, k, a, n) ==
    /\ r \in 1..Len(fs) /\ s \in Seq(FrameBytes(fs)) /\ o \in Seq(FrameBytes(fs))
    /\ k \in Nat /\ a \in Nat /\ n \in Nat /\ k + n <= Len(s)
    /\ \A j \in 1..n : (s \o o)[k + j] = <<r, a + j>>

(* The bytes in front of a chunk are those of the frame.                   *)
LEMMA TakenIs ==
    ASSUME NEW fs, NEW s, NEW o, NEW r, NEW k, NEW a, NEW n, Brings(fs, s, o, r, k, a, n)
    PROVE  Slice(s, k, n) = Part(r, a, n)
  <1> DEFINE S == FrameBytes(fs)
             u == SubSeq(s, k + 1, k + n)
             p == Part(r, a, n)
             l == s \o o
  <1>0. /\ r \in 1..Len(fs) /\ s \in Seq(S) /\ o \in Seq(S) /\ k \in Nat /\ a \in Nat /\ n \in Nat /\ k + n <= Len(s)
        /\ \A j \in 1..n : l[k + j] = <<r, a + j>>
    BY DEF Brings
  <1>1. p \in Seq(S) /\ Len(p) = n /\ \A j \in 1..n : p[j] = <<r, a + j>>
    BY <1>0, PartIs
  <1>2. \A j \in 1..Len(s) : l[j] = s[j]
    BY <1>0, ConcatIs
  <1> HIDE DEF p, S, l
  <1>3. u \in Seq(S) /\ Len(u) = n /\ \A j \in 1..n : u[j] = s[k + j]
    BY <1>0 DEF S
  <1> HIDE DEF u
  <1>4. ASSUME NEW j \in 1..n PROVE u[j] = p[j]
    <2>1. k + j \in 1..Len(s)
      BY <1>0
    <2>2. l[k + j] = <<r, a + j>>
      BY <1>0
    <2> QED
      BY <1>1, <1>2, <1>3, <2>1, <2>2
  <1>5. u = p
    BY <1>0, <1>1, <1>3, <1>4, SameSeq
  <1> QED
    BY <1>5 DEF u, p, Slice

(* The last part of a frame was handled: the next header is awaited, or    *)
(* the connection is gone.                                                 *)
LEMMA HandledWhole ==
    ASSUME NEW r \in 1..Len(frames), NEW m, m = Hearing(frames)[r - 1], NEW a, NEW n, Handling(frames, m, r, a, n),
           a + n = PayloadLen(frames, r),
           NEW v, v = HandleFragment(Partly(frames, m, r, a), OpcodeOf(frames, m, r), Part(r, a, n), frames[r].fin),
           NEW p, Inside(frames, p, m, r),
           NEW x, x.opStack = (IF frames[r].fin THEN p.opStack - 1 ELSE p.opStack), x.opCode = p.opCode,
           x.lastFin = p.lastFin, x.wantsHead, x.spill = <<>>,
           NEW rest, NEW o, WireStream(frames, rest \o o, r, 0)
    PROVE  Follows(frames, x, v, Rest(v, rest), o)
  <1> DEFINE after == Hearing(frames)[r]
             last == frames[r].fin /\ frames[r].len - (a + n) = 0
  <1>1. /\ frames \in Seq(Frame) /\ r \in DOMAIN frames /\ m \in Hearings(frames)
        /\ ~m.over /\ ~Misplaced(m, frames[r]) /\ a \in Nat /\ n \in Nat
    BY DEF Handling
  <1>2. after = HeardFrame(frames, m, r) /\ r \in 0..Len(frames)
    BY <1>1, HearingNext
  <1>3. frames[r].len = PayloadLen(frames, r) /\ PayloadLen(frames, r) \in Nat /\ frames[r].fin \in BOOLEAN
    BY <1>1, FrameFields
  <1>4. last = frames[r].fin /\ frames[r].len - (a + n) = 0
    BY <1>3
  <1>5. (~after.over /\ v = Heeded(after)) \/ Gone(v, after)
    BY <1>2, <1>4, Handles
  <1> HIDE DEF after, last
  <1>6. CASE ~after.over /\ v = Heeded(after)
    <2>1. v.open
      BY <1>6, SocketFields DEF Heeded
    <2>2. Rest(v, rest) = rest
      BY <2>1 DEF Rest
    <2>3. Stacked(frames, x, after, r)
      BY <1>1, <1>2, <1>6, PoppedStacked
    <2>4. (IF rest = <<>> THEN x.spill ELSE rest) = rest
      OBVIOUS
    <2>5. TooShort(frames, x.spill, r)
      <3>1. Len(<<>>) < 6
        OBVIOUS
      <3> QED
        BY <3>1 DEF TooShort
    <2>6. AtHead(frames, x, v, rest, o, r)
      BY <1>6, <2>3, <2>4, <2>5 DEF AtHead, after
    <2> QED
      BY <1>2, <2>2, <2>6 DEF Follows
  <1>7. CASE Gone(v, after)
    <2>1. Rest(v, rest) = <<>>
      BY <1>7 DEF Rest, Gone
    <2>2. Parted(frames, v, <<>>)
      BY <1>1, <1>7, GoneEnds DEF after
    <2> QED
      BY <2>1, <2>2 DEF Follows
  <1> QED
    BY <1>5, <1>6, <1>7

(* Some of it was handled: the rest is awaited, or the connection is gone. *)
LEMMA HandledPart ==
    ASSUME NEW r \in 1..Len(frames), NEW m, m = Hearing(frames)[r - 1], NEW a, NEW n, Handling(frames, m, r, a, n),
           a + n < PayloadLen(frames, r),
           NEW v, v = HandleFragment(Partly(frames, m, r, a), OpcodeOf(frames, m, r), Part(r, a, n), FALSE),
           NEW p, Inside(frames, p, m, r),
           NEW x, x.opStack = p.opStack, x.opCode = p.opCode, x.lastFin = p.lastFin, ~x.wantsHead,
           x.remaining = PayloadLen(frames, r) - (a + n), x.phase = (a + n) % 4,
           NEW o, o \in Seq(FrameBytes(frames)), WireStream(frames, o, r, PayloadLen(frames, r) - (a + n))
    PROVE  Follows(frames, x, v, <<>>, o)
  <1> DEFINE after == Hearing(frames)[r]
             len == PayloadLen(frames, r)
             last == frames[r].fin /\ frames[r].len - (a + n) = 0
             b == a + n
  <1>1. /\ frames \in Seq(Frame) /\ r \in DOMAIN frames /\ m \in Hearings(frames)
        /\ ~m.over /\ ~Misplaced(m, frames[r]) /\ a \in Nat /\ n \in Nat
    BY DEF Handling
  <1>2. after = HeardFrame(frames, m, r)
    BY <1>1, HearingNext
  <1>3. frames[r].len = len /\ len \in Nat
    BY <1>1, FrameFields
  <1> DEFINE left == len - b
  <1>a. left > 0 /\ left # 0 /\ left \in Nat /\ b \in Nat /\ b < len /\ len - left = b /\ b + left = len /\ left >= 1
    <2>1. b < len /\ b \in Nat
      BY <1>1
    <2> HIDE DEF b, len
    <2> QED
      BY <1>3, <2>1
  <1>b. x.remaining = left
    OBVIOUS
  <1>c. frames[r].len - (a + n) = left
    BY <1>3
  <1> HIDE DEF left
  <1>4. (last <=> FALSE) /\ frames[r].len - (a + n) > 0
    BY <1>a, <1>c
  <1>5. v = Partly(frames, m, r, b) \/ Gone(v, after)
    BY <1>2, <1>4, Handles
  <1>6. /\ b \in Nat /\ b < len /\ len - x.remaining = b
        /\ x.remaining \in Nat /\ x.remaining >= 1 /\ b + x.remaining = len
    BY <1>a, <1>b
  <1>7. x.phase = b % 4 /\ WireStream(frames, o, r, x.remaining)
    OBVIOUS
  <1> HIDE DEF after, last, len, b
  <1>8. CASE v = Partly(frames, m, r, b)
    <2>1. Handling(frames, m, r, b, x.remaining)
      BY <1>1, <1>3, <1>6 DEF Handling
    <2>2. Inside(frames, x, m, r)
      BY DEF Inside
    <2>3. <<>> \o o = o
      BY ConcatNothing
    <2>4. Within(frames, x, v, <<>>, o, r)
      BY <1>6, <1>7, <1>8, <2>1, <2>2, <2>3 DEF Within, len
    <2> QED
      BY <2>4 DEF Follows
  <1>9. CASE Gone(v, after)
    <2>1. Parted(frames, v, <<>>)
      BY <1>1, <1>9, GoneEnds DEF after
    <2> QED
      BY <2>1 DEF Follows
  <1> QED
    BY <1>5, <1>8, <1>9

(* The opcode is popped behind the last part of a frame with FIN.          *)
LEMMA PoppedIs ==
    ASSUME NEW p \in Parsers(frames), p.opStack \in 0..1, NEW fin \in BOOLEAN
    PROVE  /\ Popped(p, fin) \in Parsers(frames)
           /\ Popped(p, fin).opStack = (IF fin THEN p.opStack - 1 ELSE p.opStack)
           /\ Popped(p, fin).opCode = p.opCode /\ Popped(p, fin).lastFin = p.lastFin
           /\ Popped(p, fin).wantsHead = p.wantsHead /\ Popped(p, fin).spill = p.spill
  <1> DEFINE top == p.opStack - 1
  <1>1. Popped(p, fin) = IF fin THEN [p EXCEPT !.opStack = top] ELSE p
    BY DEF Popped
  <1>2. top \in -1..1
    OBVIOUS
  <1> HIDE DEF top
  <1>3. /\ Popped(p, fin).opStack = (IF fin THEN top ELSE p.opStack)
        /\ Popped(p, fin).opCode = p.opCode /\ Popped(p, fin).lastFin = p.lastFin
    BY <1>1 DEF Parsers
  <1> QED
    BY <1>3, PoppedFits DEF top

(* Before any of a frame was handled.                                      *)
LEMMA PartlyNothing ==
    ASSUME NEW fs \in Seq(Frame), NEW r \in DOMAIN fs, NEW m \in Hearings(fs)
    PROVE  Partly(fs, m, r, 0) = Heeded(m)
  <1>1. Part(r, 0, 0) = <<>>
    BY PartAll
  <1>2. m.data \o <<>> = m.data
    <2>1. m.data \in Seq(FrameBytes(fs))
      BY DEF Hearings
    <2> QED
      BY <2>1, ConcatNothing
  <1>3. Foremost(m, r, 0) = m.data
    BY <1>1, <1>2 DEF Foremost
  <1> QED
    BY <1>3 DEF Partly, Heeded

\* The bytes of the payload that a chunk has behind a header of h bytes.
Arrived(h, len, size) == IF h + len <= size THEN len ELSE size - h

(* A frame, or what the chunk holds of it.                                 *)
LEMMA ConsumeMessageFollows ==
    ASSUME FollowsInv, ConsumeMessage
    PROVE  FollowsInv'
  <1>1. ParserInv' /\ ParserInv
    BY ConsumeMessageKeeps DEF FollowsInv
  <1>2. /\ src # <<>> /\ parser.wantsHead /\ HeadComplete
        /\ ~Refused /\ ~Unexpected /\ Header.len <= MaxPayload
        /\ frames' = frames /\ wire' = wire
    BY DEF ConsumeMessage
  <1>3. SUFFICES ASSUME ~Nested(frames) PROVE Follows(frames, parser', ws', src', wire)
    BY <1>1, <1>2 DEF FollowsInv
  <1>4. PICK r \in 0..Len(frames) : AtHead(frames, parser, ws, src, wire, r)
    <2>1. Follows(frames, parser, ws, src, wire)
      BY <1>3 DEF FollowsInv
    <2>2. ~Parted(frames, ws, src) /\ \A r \in 1..Len(frames) : ~Within(frames, parser, ws, src, wire, r)
      BY <1>2 DEF Parted, Within
    <2> QED
      BY <2>1, <2>2 DEF Follows
  <1> DEFINE q == r + 1
             m == Hearing(frames)[r]
             h == HeadLen(frames, q)
             len == PayloadLen(frames, q)
             fin == frames[q].fin
             S == FrameBytes(frames)
             n == Arrived(h, len, Len(src))
             part == Part(q, 0, n)
  <1>5. /\ r \in 0..(Len(frames) - 1) /\ q \in 1..Len(frames) /\ q \in DOMAIN frames /\ q - 1 = r
        /\ Header = frames[q] /\ WireStream(frames, src \o wire, r, 0)
    BY <1>1, <1>2, <1>4, HeaderAt
  <1>6. frames \in Seq(Frame) /\ src \in Seq(S) /\ wire \in Seq(S) /\ src \o wire \in Seq(S) /\ Len(src) \in Nat
    BY <1>1 DEF ParserInv, ParserTypeOK
  <1>7. Header \in Frame
    BY <1>1, <1>2, HeaderType DEF ParserInv
  <1>8. Header.header = h /\ Header.len = len /\ Header.fin = fin /\ h \in Nat /\ len \in Nat /\ fin \in BOOLEAN
    BY <1>5, <1>6, FrameFields
  <1>9. m \in Hearings(frames) /\ m = Hearing(frames)[q - 1]
    BY <1>4, <1>5, <1>6, HearingType
  <1>10. ws = Heeded(m) /\ ~m.over /\ Stacked(frames, parser, m, r)
    BY <1>4 DEF AtHead
  <1>11. ~Misplaced(m, frames[q])
    <2>1. ~(Header.len > MaxPayload)
      BY <1>2, <1>8, FrameAssumption
    <2> QED
      BY <1>1, <1>2, <1>3, <1>5, <1>9, <1>10, <2>1, Placed
  <1>12. Inside(frames, Pushed, m, q)
    BY <1>1, <1>2, <1>5, <1>9, <1>10, <1>11, PushedInside
  <1>13. /\ Pushed \in Parsers(frames) /\ Pushed.opStack \in 0..1 /\ Pushed.wantsHead
    BY <1>1, <1>2, <1>7, PushedFits
  <1>14. Pushed.opCode[Pushed.opStack] = OpcodeOf(frames, m, q)
    BY <1>12 DEF Inside
  <1>15. Len(src) >= h
    BY <1>2, <1>8 DEF HeadComplete
  <1> HIDE DEF m
  <1>16. /\ n \in 0..len /\ n \in Nat /\ h + n = (IF h + len < Len(src) THEN h + len ELSE Len(src))
         /\ h + n <= Len(src)
         /\ h + len <= Len(src) => n = len
         /\ ~(h + len <= Len(src)) => n < len /\ h + n = Len(src) /\ (h + len) - Len(src) = len - n
    <2> DEFINE L == Len(src)
    <2>1. L \in Nat /\ h \in Nat /\ len \in Nat /\ L >= h
      BY <1>6, <1>8, <1>15
    <2> HIDE DEF h, len, L
    <2>2. n = Arrived(h, len, L)
      BY DEF L
    <2> HIDE DEF n
    <2>3. /\ n \in 0..len /\ n \in Nat /\ h + n = (IF h + len < L THEN h + len ELSE L) /\ h + n <= L
          /\ h + len <= L => n = len
          /\ ~(h + len <= L) => n < len /\ h + n = L /\ (h + len) - L = len - n
      BY <2>1, <2>2 DEF Arrived
    <2> QED
      BY <2>3 DEF L
  <1> DEFINE s == src \o wire
  <1>17. /\ \A j \in 1..len : s[h + j] = <<q, j>>
         /\ \A k \in 0..len : WireStream(frames, After(h + k, s), q, len - k)
    BY <1>5, <1>6, FrameNext
  <1> HIDE DEF q, h, len, fin, n, s
  <1>18. Unmask(SubSeq(src, h + 1, h + n), 0) = part
    <2>1. \A j \in 1..n : s[h + j] = <<q, 0 + j>>
      <3>1. ASSUME NEW j \in 1..n PROVE s[h + j] = <<q, 0 + j>>
        <4>1. j \in 1..len /\ 0 + j = j
          BY <1>8, <1>16
        <4> QED
          BY <1>17, <4>1
      <3> QED
        BY <3>1
    <2>2. SubSeq(src, h + 1, h + n) = part
      <3>1. src \in Seq(FrameBytes(frames)) /\ wire \in Seq(FrameBytes(frames)) /\ 0 \in Nat
        BY <1>6
      <3>2. \A j \in 1..n : (src \o wire)[h + j] = <<q, 0 + j>>
        BY <2>1 DEF s
      <3>3. q \in 1..Len(frames) /\ h \in Nat /\ n \in Nat /\ h + n <= Len(src)
        BY <1>5, <1>8, <1>16
      <3>4. Brings(frames, src, wire, q, h, 0, n)
        BY <3>1, <3>2, <3>3 DEF Brings
      <3>5. Slice(src, h, n) = Part(q, 0, n)
        BY <3>4, TakenIs
      <3> QED
        BY <3>5 DEF Slice
    <2>3. 0 \in Nat /\ 0 % 4 = 0
      OBVIOUS
    <2>4. Unmask(Part(q, 0, n), 0 % 4) = Part(q, 0, n)
      BY <1>5, <1>16, <2>3, UnmaskIs
    <2> QED
      BY <2>2, <2>3, <2>4
  <1>19. ws = Partly(frames, m, q, 0)
    BY <1>5, <1>6, <1>9, <1>10, PartlyNothing
  <1>20. Handling(frames, m, q, 0, n)
    <2>1. 0 + n <= frames[q].len
      BY <1>5, <1>8, <1>16
    <2> QED
      BY <1>5, <1>6, <1>9, <1>10, <1>11, <1>16, <2>1 DEF Handling
  <1>21. ws' = HandleFragment(Partly(frames, m, q, 0), OpcodeOf(frames, m, q), part, fin /\ h + len <= Len(src))
    <2>1. ws' = HandleFragment(ws, Pushed.opCode[Pushed.opStack],
                               Unmask(SubSeq(src, Header.header + 1,
                                             IF Header.header + Header.len < Len(src) THEN Header.header + Header.len
                                             ELSE Len(src)), 0),
                               Header.fin /\ Header.header + Header.len <= Len(src))
      BY DEF ConsumeMessage
    <2>2. ws' = HandleFragment(ws, Pushed.opCode[Pushed.opStack], Unmask(SubSeq(src, h + 1, h + n), 0),
                               fin /\ h + len <= Len(src))
      BY <1>8, <1>16, <2>1
    <2> HIDE DEF part
    <2> QED
      BY <1>14, <1>18, <1>19, <2>2
  <1>22. CASE h + len <= Len(src)
    <2> DEFINE x == [Popped(Pushed, fin) EXCEPT !.spill = <<>>]
               rest == After(h + len, src)
    <2>1. parser' = x /\ src' = Rest(ws', rest)
      BY <1>8, <1>22 DEF ConsumeMessage, Drop, After
    <2>2. n = len /\ 0 + n = len /\ 0 \in Nat
      BY <1>16, <1>22
    <2>3. (fin /\ h + len <= Len(src)) = fin
      BY <1>8, <1>22
    <2>4. ws' = HandleFragment(Partly(frames, m, q, 0), OpcodeOf(frames, m, q), part, fin)
      BY <1>21, <2>3
    <2>5. /\ x.opStack = (IF fin THEN Pushed.opStack - 1 ELSE Pushed.opStack) /\ x.opCode = Pushed.opCode
          /\ x.lastFin = Pushed.lastFin /\ x.wantsHead /\ x.spill = <<>>
      <3> DEFINE y == Popped(Pushed, fin)
      <3>1. /\ y \in Parsers(frames) /\ y.opStack = (IF fin THEN Pushed.opStack - 1 ELSE Pushed.opStack)
            /\ y.opCode = Pushed.opCode /\ y.lastFin = Pushed.lastFin /\ y.wantsHead
        BY <1>8, <1>13, PoppedIs
      <3> HIDE DEF y
      <3>2. x = [y EXCEPT !.spill = <<>>]
        BY DEF y
      <3> QED
        BY <3>1, <3>2 DEF Parsers
    <2>6. WireStream(frames, rest \o wire, q, 0)
      <3>1. h + len \in 0..Len(src)
        BY <1>8, <1>22
      <3>2. rest \o wire = After(h + len, s)
        BY <1>6, <3>1, AfterConcat DEF s
      <3>3. len \in 0..len /\ len - len = 0
        BY <1>8
      <3> QED
        BY <1>17, <3>2, <3>3
    <2> HIDE DEF x, rest
    <2>7. Follows(frames, x, ws', Rest(ws', rest), wire)
      BY <1>5, <1>9, <1>12, <1>20, <2>2, <2>4, <2>5, <2>6, HandledWhole DEF fin, len, part
    <2> QED
      BY <2>1, <2>7
  <1>23. CASE ~(h + len <= Len(src))
    <2> DEFINE left == len - n
               x == [Pushed EXCEPT !.spill = <<>>, !.wantsHead = FALSE, !.remaining = left, !.phase = n % 4]
    <2>1. n < len /\ h + n = Len(src) /\ (h + len) - Len(src) = left /\ 0 + n = n
      BY <1>16, <1>23
    <2>2. parser' = x /\ src' = <<>>
      <3>1. Len(SubSeq(src, h + 1, h + n)) = n
        BY <1>6, <1>8, <1>16
      <3>2. /\ parser' = [Pushed EXCEPT !.spill = <<>>, !.wantsHead = FALSE, !.remaining = (h + len) - Len(src),
                                        !.phase = Rotate(0, Len(SubSeq(src, h + 1, h + n)))]
            /\ src' = <<>>
        BY <1>8, <1>16, <1>23 DEF ConsumeMessage
      <3>3. Rotate(0, n) = n % 4
        BY <1>16 DEF Rotate
      <3> QED
        BY <2>1, <3>1, <3>2, <3>3
    <2>3. (fin /\ h + len <= Len(src)) <=> FALSE
      BY <1>23
    <2>4. ws' = HandleFragment(Partly(frames, m, q, 0), OpcodeOf(frames, m, q), part, FALSE)
      BY <1>21, <2>3
    <2>5. WireStream(frames, wire, q, left)
      <3>1. After(Len(src), s) = wire
        BY <1>6, Split DEF s
      <3>2. n \in 0..len /\ Len(src) = h + n
        BY <1>16, <2>1
      <3> QED
        BY <1>17, <3>1, <3>2
    <2> HIDE DEF left
    <2>6. /\ x.opStack = Pushed.opStack /\ x.opCode = Pushed.opCode /\ x.lastFin = Pushed.lastFin
          /\ ~x.wantsHead /\ x.remaining = left /\ x.phase = n % 4
      BY <1>13 DEF Parsers
    <2> HIDE DEF x
    <2>7. Follows(frames, x, ws', <<>>, wire)
      BY <1>5, <1>6, <1>9, <1>12, <1>20, <2>1, <2>4, <2>5, <2>6, HandledPart DEF len, left, part
    <2> QED
      BY <2>2, <2>7
  <1> QED
    BY <1>22, <1>23

(* More of a frame, perhaps all that was awaited.                          *)
LEMMA ContinueMessageFollows ==
    ASSUME FollowsInv, ContinueMessage
    PROVE  FollowsInv'
  <1>1. ParserInv' /\ ParserInv
    BY ContinueMessageKeeps DEF FollowsInv
  <1>2. src # <<>> /\ ~parser.wantsHead /\ frames' = frames /\ wire' = wire
    BY DEF ContinueMessage
  <1>3. SUFFICES ASSUME ~Nested(frames) PROVE Follows(frames, parser', ws', src', wire)
    BY <1>1, <1>2 DEF FollowsInv
  <1>4. PICK r \in 1..Len(frames) : Within(frames, parser, ws, src, wire, r)
    <2>1. Follows(frames, parser, ws, src, wire)
      BY <1>3 DEF FollowsInv
    <2>2. ~Parted(frames, ws, src) /\ \A r \in 0..Len(frames) : ~AtHead(frames, parser, ws, src, wire, r)
      BY <1>2 DEF Parted, AtHead
    <2> QED
      BY <2>1, <2>2 DEF Follows
  <1> DEFINE m == Hearing(frames)[r - 1]
             len == PayloadLen(frames, r)
             left == parser.remaining
             a == len - left
             fin == frames[r].fin
             S == FrameBytes(frames)
             s == src \o wire
             L == Len(src)
             n == IF left <= L THEN left ELSE L
             part == Part(r, a, n)
  <1>5. /\ Handling(frames, m, r, a, left) /\ ws = Partly(frames, m, r, a) /\ left >= 1
        /\ WireStream(frames, s, r, left) /\ Inside(frames, parser, m, r) /\ parser.phase = a % 4
    BY <1>4 DEF Within
  <1> HIDE DEF m
  <1>6. /\ frames \in Seq(Frame) /\ r \in DOMAIN frames /\ r \in 1..Len(frames)
        /\ src \in Seq(S) /\ wire \in Seq(S) /\ s \in Seq(S) /\ L \in Nat /\ L >= 1
    <2>1. frames \in Seq(Frame) /\ src \in Seq(S) /\ wire \in Seq(S)
      BY <1>1 DEF ParserInv, ParserTypeOK
    <2>2. s \in Seq(S) /\ L \in Nat /\ L >= 1
      BY <1>2, <2>1
    <2> QED
      BY <2>1, <2>2
  <1>7. parser \in Parsers(frames) /\ parser.opStack \in 0..1 /\ parser.spill = <<>> /\ left \in Nat
    BY <1>1, <1>2 DEF ParserInv, ParserTypeOK, Parsers, StateFits
  <1>8. fin \in BOOLEAN /\ (parser.lastFin <=> fin) /\ parser.lastFin \in BOOLEAN /\ parser.lastFin = fin
    <2>1. fin \in BOOLEAN
      BY <1>6, FrameFields
    <2>2. parser.lastFin <=> fin
      BY <1>5 DEF Inside
    <2>3. parser.lastFin \in BOOLEAN
      BY <1>7 DEF Parsers
    <2> QED
      BY <2>1, <2>2, <2>3
  <1>9. parser.opCode[parser.opStack] = OpcodeOf(frames, m, r)
    BY <1>5 DEF Inside
  <1>10. len \in Nat /\ a \in Nat /\ a + left <= frames[r].len /\ frames[r].len = len
    BY <1>5, <1>6, FrameFields DEF Handling
  <1> HIDE DEF len, left, L
  <1>11. /\ n \in Nat /\ n <= L /\ n <= left /\ a + left = len /\ left \in 1..len /\ n \in 0..left /\ n \in 0..L
         /\ 0 + n = n /\ 0 + n <= L /\ left <= len
    BY <1>5, <1>6, <1>7, <1>10
  <1>12. /\ \A j \in 1..left : s[j] = <<r, len - left + j>>
         /\ \A k \in 0..left : WireStream(frames, After(k, s), r, left - k)
    BY <1>5, <1>6, <1>11, PayloadNext DEF len
  <1> HIDE DEF a, s, n
  <1>13. Unmask(SubSeq(src, 0 + 1, 0 + n), parser.phase) = part
    <2>1. \A j \in 1..n : (src \o wire)[0 + j] = <<r, a + j>>
      <3>1. ASSUME NEW j \in 1..n PROVE s[0 + j] = <<r, a + j>>
        <4>1. j \in 1..left /\ 0 + j = j
          BY <1>11
        <4> QED
          BY <1>12, <4>1 DEF a
      <3> QED
        BY <3>1 DEF s
    <2>2. src \in Seq(FrameBytes(frames)) /\ wire \in Seq(FrameBytes(frames)) /\ 0 \in Nat
      BY <1>6
    <2>3. n \in Nat /\ a \in Nat /\ 0 + n <= Len(src)
      BY <1>10, <1>11 DEF L
    <2>4. Slice(src, 0, n) = Part(r, a, n)
      <3>1. Brings(frames, src, wire, r, 0, a, n)
        BY <1>6, <2>1, <2>2, <2>3 DEF Brings
      <3> QED
        BY <3>1, TakenIs
    <2>5. Unmask(Part(r, a, n), a % 4) = Part(r, a, n)
      BY <1>6, <2>3, UnmaskIs
    <2>6. SubSeq(src, 0 + 1, 0 + n) = part
      BY <2>4 DEF Slice
    <2> QED
      BY <1>5, <2>5, <2>6
  <1>14. Handling(frames, m, r, a, n)
    <2>1. a + n <= frames[r].len
      BY <1>10, <1>11
    <2> QED
      BY <1>5, <1>10, <1>11, <2>1 DEF Handling
  <1>15. (IF left <= L THEN Take(left) ELSE src) = SubSeq(src, 0 + 1, 0 + n)
    <2>1. SubSeq(src, 0 + 1, 0 + n) = SubSeq(src, 1, n)
      BY <1>11
    <2>2. CASE left <= L
      BY <2>1, <2>2 DEF Take, n
    <2>3. CASE ~(left <= L)
      <3>1. SubSeq(src, 1, Len(src)) = src
        BY <1>6
      <3> QED
        BY <2>1, <2>3, <3>1 DEF n, L
    <2> QED
      BY <2>2, <2>3
  <1>16. ws' = HandleFragment(Partly(frames, m, r, a), OpcodeOf(frames, m, r), part, left <= L /\ fin)
    <2>1. ws' = HandleFragment(ws, parser.opCode[parser.opStack],
                               Unmask(IF left <= L THEN Take(left) ELSE src, parser.phase),
                               left <= L /\ parser.lastFin)
      BY DEF ContinueMessage, left, L
    <2> HIDE DEF part
    <2> QED
      BY <1>5, <1>8, <1>9, <1>13, <1>15, <2>1
  <1>17. CASE left <= L
    <2> DEFINE x == [Popped(parser, fin) EXCEPT !.wantsHead = TRUE, !.remaining = 0]
               rest == After(left, src)
    <2>1. parser' = x /\ src' = Rest(ws', rest)
      BY <1>8, <1>17 DEF ContinueMessage, Drop, After, left, L
    <2>2. n = left /\ a + n = len
      BY <1>11, <1>17 DEF n
    <2>3. (left <= L /\ fin) = fin
      BY <1>8, <1>17
    <2>4. ws' = HandleFragment(Partly(frames, m, r, a), OpcodeOf(frames, m, r), part, fin)
      BY <1>16, <2>3
    <2>5. /\ x.opStack = (IF fin THEN parser.opStack - 1 ELSE parser.opStack) /\ x.opCode = parser.opCode
          /\ x.lastFin = parser.lastFin /\ x.wantsHead /\ x.spill = <<>>
      <3> DEFINE y == Popped(parser, fin)
      <3>1. /\ y \in Parsers(frames) /\ y.opStack = (IF fin THEN parser.opStack - 1 ELSE parser.opStack)
            /\ y.opCode = parser.opCode /\ y.lastFin = parser.lastFin /\ y.spill = <<>>
        BY <1>7, <1>8, PoppedIs
      <3> HIDE DEF y
      <3>2. x = [y EXCEPT !.wantsHead = TRUE, !.remaining = 0]
        BY DEF y
      <3> QED
        BY <3>1, <3>2 DEF Parsers
    <2>6. WireStream(frames, rest \o wire, r, 0)
      <3>1. left \in 0..Len(src)
        BY <1>7, <1>17 DEF L
      <3>2. rest \o wire = After(left, s)
        BY <1>6, <3>1, AfterConcat DEF s
      <3>3. left \in 0..left /\ left - left = 0
        BY <1>7
      <3> QED
        BY <1>12, <3>2, <3>3
    <2> HIDE DEF x, rest
    <2>7. Follows(frames, x, ws', Rest(ws', rest), wire)
      BY <1>5, <1>6, <1>14, <2>2, <2>4, <2>5, <2>6, HandledWhole DEF m, fin, len, part
    <2> QED
      BY <2>1, <2>7
  <1>18. CASE ~(left <= L)
    <2> DEFINE rest == len - (a + n)
               x == [parser EXCEPT !.remaining = rest, !.phase = (a + n) % 4]
    <2>1. n = L /\ a + n < len /\ left - L = rest /\ left - n = rest
      BY <1>10, <1>11, <1>18, <1>6 DEF n
    <2>2. parser' = x /\ src' = <<>>
      <3>1. /\ parser' = [parser EXCEPT !.remaining = left - L, !.phase = Rotate(parser.phase, L)]
            /\ src' = Rest(ws', <<>>)
        BY <1>7, <1>18 DEF ContinueMessage, Parsers, left, L
      <3>2. Rotate(parser.phase, L) = (a + n) % 4
        <4>1. ((a % 4) + n) % 4 = (a + n) % 4
          BY <1>10, <1>11
        <4> QED
          BY <1>5, <2>1, <4>1 DEF Rotate
      <3>3. Rest(ws', <<>>) = <<>>
        BY DEF Rest
      <3> QED
        BY <2>1, <3>1, <3>2, <3>3
    <2>3. (left <= L /\ fin) <=> FALSE
      BY <1>18
    <2>4. ws' = HandleFragment(Partly(frames, m, r, a), OpcodeOf(frames, m, r), part, FALSE)
      BY <1>16, <2>3
    <2>5. WireStream(frames, wire, r, rest)
      <3>1. After(Len(src), s) = wire
        BY <1>6, Split DEF s
      <3>2. n \in 0..left /\ Len(src) = n
        BY <1>11, <2>1 DEF L
      <3> QED
        BY <1>12, <2>1, <3>1, <3>2
    <2>6. /\ x.opStack = parser.opStack /\ x.opCode = parser.opCode /\ x.lastFin = parser.lastFin
          /\ ~x.wantsHead /\ x.remaining = rest /\ x.phase = (a + n) % 4
      <3> HIDE DEF rest
      <3> QED
        BY <1>2, <1>7 DEF Parsers
    <2> HIDE DEF x
    <2>7. Follows(frames, x, ws', <<>>, wire)
      BY <1>5, <1>6, <1>14, <2>1, <2>4, <2>5, <2>6, HandledPart DEF m, len, part
    <2> QED
      BY <2>2, <2>7
  <1> QED
    BY <1>17, <1>18

(* A parser that follows the frames has told what they mean.               *)
LEMMA FollowsUnderstood == FollowsInv => Understood
  <1> SUFFICES ASSUME FollowsInv, ~Nested(frames)
               PROVE  /\ Leads(ws.said, Meaning(frames))
                      /\ (src = <<>> /\ (wire = <<>> \/ ~ws.open)) => ws.said = Meaning(frames)
    BY DEF Understood, Leads
  <1>1. ParserInv /\ Follows(frames, parser, ws, src, wire)
    BY DEF FollowsInv
  <1>2. frames \in Seq(Frame) /\ parser.spill \in Seq(FrameBytes(frames)) /\ Len(frames) \in Nat
    BY <1>1 DEF ParserInv, ParserTypeOK, Parsers
  <1>3. ASSUME NEW r \in 0..Len(frames), AtHead(frames, parser, ws, src, wire, r)
        PROVE  /\ Leads(ws.said, Meaning(frames))
               /\ (src = <<>> /\ (wire = <<>> \/ ~ws.open)) => ws.said = Meaning(frames)
    <2>1. ws.said = Hearing(frames)[r].said /\ ws.open
      BY <1>3, SocketFields DEF AtHead, Heeded
    <2>2. Leads(ws.said, Meaning(frames))
      BY <1>2, <2>1, SaidOnce
    <2>3. ASSUME src = <<>>, wire = <<>> PROVE ws.said = Meaning(frames)
      <3> DEFINE c == parser.spill
      <3>1. c \o <<>> = c
        BY <1>2, ConcatNothing
      <3>2. WireStream(frames, c, r, 0) /\ TooShort(frames, c, r)
        BY <1>3, <2>3, <3>1 DEF AtHead
      <3>3. ASSUME r < Len(frames) PROVE FALSE
        <4>1. r \in 0..(Len(frames) - 1) /\ r + 1 \in DOMAIN frames
          BY <1>2, <3>3
        <4>2. Len(c) >= HeadLen(frames, r + 1) + PayloadLen(frames, r + 1)
          BY <1>2, <3>2, <4>1, FrameNext
        <4>3. HeadLen(frames, r + 1) \in Nat /\ HeadLen(frames, r + 1) >= 6 /\ PayloadLen(frames, r + 1) \in Nat
          BY <1>2, <4>1, FrameFields
        <4>4. Len(c) \in Nat
          BY <1>2
        <4> HIDE DEF c
        <4> QED
          BY <3>2, <4>2, <4>3, <4>4 DEF TooShort
      <3>4. r = Len(frames)
        BY <1>2, <3>3
      <3> QED
        BY <2>1, <3>4 DEF Meaning
    <2> QED
      BY <2>1, <2>2, <2>3
  <1>4. ASSUME NEW r \in 1..Len(frames), Within(frames, parser, ws, src, wire, r)
        PROVE  /\ Leads(ws.said, Meaning(frames))
               /\ ~(src = <<>> /\ (wire = <<>> \/ ~ws.open))
    <2>1. ws.said = Hearing(frames)[r - 1].said /\ ws.open
      BY <1>4, SocketFields DEF Within, Partly
    <2>2. Leads(ws.said, Meaning(frames))
      <3>1. r - 1 \in 0..Len(frames)
        BY <1>2
      <3> QED
        BY <1>2, <2>1, <3>1, SaidOnce
    <2>3. ASSUME src = <<>>, wire = <<>> PROVE FALSE
      <3>1. <<>> \o <<>> = <<>>
        OBVIOUS
      <3>2. WireStream(frames, <<>>, r, parser.remaining) /\ parser.remaining >= 1
        BY <1>4, <2>3, <3>1 DEF Within
      <3>3. parser.remaining > 0
        BY <1>1, <3>2 DEF ParserInv, ParserTypeOK, Parsers
      <3> QED
        BY <3>2, <3>3 DEF WireStream, WireBegins
    <2> QED
      BY <2>1, <2>2, <2>3
  <1>5. ASSUME Parted(frames, ws, src) PROVE Leads(ws.said, Meaning(frames)) /\ ws.said = Meaning(frames)
    <2>1. ws.said = Meaning(frames)
      BY <1>5 DEF Parted
    <2>2. Leads(Meaning(frames), Meaning(frames))
      <3>1. Len(frames) \in 0..Len(frames)
        BY <1>2
      <3>2. Leads(Hearing(frames)[Len(frames)].said, Meaning(frames))
        BY <1>2, <3>1, SaidOnce
      <3> QED
        BY <3>2 DEF Meaning
    <2> QED
      BY <2>1, <2>2
  <1> QED
    BY <1>1, <1>3, <1>4, <1>5 DEF Follows

(* However the frames of a peer are cut into chunks: what the handlers are *)
(* told and the peer is answered is what the frames mean as far as they    *)
(* were received, and no byte of it is lost, doubled, unmasked wrongly or  *)
(* given to another message (WebSocketProtocol::consume,                   *)
(* WebSocketContext::handleFragment); messages that begin inside others    *)
(* excepted, which the parser does not refuse as it should.                *)
THEOREM UnderstoodCorrect == FrameSpec => []Understood
  <1>1. FrameInit => FollowsInv
    BY FollowsInit
  <1>2. FollowsInv /\ [(\E fs \in FrameStreams : StartFrames(fs)) \/ FrameStep]_frameVars => FollowsInv'
    <2> SUFFICES ASSUME FollowsInv, [(\E fs \in FrameStreams : StartFrames(fs)) \/ FrameStep]_frameVars
                 PROVE  FollowsInv'
      OBVIOUS
    <2>1. CASE \E fs \in FrameStreams : StartFrames(fs)
      BY <2>1, StartFramesFollows
    <2>2. CASE FrameStep
      BY <2>2, ReceiveFollows, RefuseHeadFollows, SpillHeadFollows, ConsumeMessageFollows, ContinueMessageFollows
         DEF FrameStep
    <2>3. CASE UNCHANGED frameVars
      BY <2>3 DEF frameVars, FollowsInv, ParserInv, ParserTypeOK, StateFits
    <2> QED
      BY <2>1, <2>2, <2>3
  <1>3. FollowsInv => Understood
    BY FollowsUnderstood
  <1> QED
    BY <1>1, <1>2, <1>3, PTL DEF FrameSpec
=============================================================================
