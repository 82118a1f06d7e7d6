---------------------------- MODULE FrameParser ----------------------------
(***************************************************************************)
(* The websocket parser of a connection: WebSocketProtocol::consume, which *)
(* finds the frames in the chunks the kernel delivers, and                 *)
(* WebSocketContext::handleFragment, which puts messages together.  A step *)
(* is one turn of the parser's loop; a chunk is cut anywhere.              *)
(*                                                                         *)
(* A byte of the stream is <<f, i>>: the i-th byte of the payload of frame *)
(* f when i > 0, and a byte of its header when i <= 0.                     *)
(***************************************************************************)
EXTENDS Integers, Sequences

CONSTANTS
    FrameStreams,   \* the sequences of frames the peer may send
    MaxPayload      \* WebSocketContextData::maxPayloadLength

VARIABLES
    frames,     \* the frames this peer sends
    wire,       \* their bytes that have not been delivered yet
    src,        \* the bytes consume is looking at; <<>> between callbacks
    parser,     \* WebSocketState
    ws          \* WebSocketData, and what the peer's frames brought about

frameVars == <<frames, wire, src, parser, ws>>

CONTINUATION == 0
TEXT == 1
CLOSE == 8
PING == 9
PONG == 10

\* SHORT_, MEDIUM_ and LONG_MESSAGE_HEADER of a server, mask included.
HeaderSizes == {6, 8, 14}
ShortHeader == 6

\* A frame's header says its opcode, FIN, whether a reserved bit is set, and
\* the payload's length in one of three forms; sound says of the payload
\* that its text is UTF-8 and, of a close frame, that its code is allowed.
Frame == [op: 0..15, fin: BOOLEAN, rsv: BOOLEAN, header: HeaderSizes, len: Nat, sound: BOOLEAN]

ASSUME FrameAssumption == FrameStreams \subseteq Seq(Frame) /\ MaxPayload \in Nat

Wire(fs, f) == [i \in 1..(fs[f].header + fs[f].len) |-> <<f, i - fs[f].header>>]

\* All bytes of a stream of frames.
AllBytes(fs) ==
    LET bytes[f \in 0..Len(fs)] == IF f = 0 THEN <<>> ELSE bytes[f - 1] \o Wire(fs, f)
    IN  bytes[Len(fs)]

FrameInit ==
    /\ frames = <<>>
    /\ wire = <<>>
    /\ src = <<>>
    /\ parser = [wantsHead |-> TRUE, spill |-> <<>>, opStack |-> -1, opCode |-> [k \in 0..1 |-> 0],
                 lastFin |-> TRUE, remaining |-> 0, phase |-> 0]
    /\ ws = [open |-> TRUE, buffer |-> <<>>, tip |-> 0, said |-> <<>>]

-----------------------------------------------------------------------------
(* handleFragment.  Breaking out of the parser's loop is the same as the   *)
(* connection being closed or shutting down on return.                     *)

Say(w, what) == [w EXCEPT !.said = Append(@, what)]
Leave(w, what) == [Say(w, what) EXCEPT !.open = FALSE]

ForceClose(w) == Leave(w, [kind |-> "forced"])

Sound(data) == \A i \in DOMAIN data : data[i][1] # 0 /\ frames[data[i][1]].sound

\* A message is handed to messageHandler, which answers it (on_message); a
\* text that is not UTF-8 ends the connection.
Message(w, op, data) ==
    IF op = TEXT /\ ~Sound(data) THEN ForceClose(w)
    ELSE Say(w, [kind |-> "message", op |-> op, data |-> data])

\* last: nothing of the frame remains, and it has FIN.
DataFragment(w, op, data, last) ==
    LET whole == w.buffer \o data
    IN  IF last /\ w.buffer = <<>> THEN Message(w, op, data)
        ELSE IF Len(whole) > MaxPayload THEN ForceClose(w)
        ELSE IF last THEN [Message(w, op, whole) EXCEPT !.buffer = <<>>]
        ELSE [w EXCEPT !.buffer = whole]

\* parseClosePayload, and the close frame that answers: no code, the code
\* that was given, or 1006 in place of one that is not allowed.
CloseCode(data) == IF Len(data) < 2 THEN 1005 ELSE IF Sound(data) THEN 1000 ELSE 1006

Control(w, op, data) ==
    CASE op = CLOSE -> Leave(w, [kind |-> "end", code |-> CloseCode(data), data |-> data])
      [] op = PING  -> Say(w, [kind |-> "pong", data |-> data])
      [] op = PONG  -> Say(w, [kind |-> "ponged"])

\* Parts of a control frame wait behind those of the message it interrupts,
\* controlTipLength bytes at the end of the same buffer.
ControlFragment(w, op, data, last) ==
    LET whole == w.buffer \o data
        tip == w.tip + Len(data)
        start == Len(whole) - tip
    IN  IF last /\ w.tip = 0 THEN Control(w, op, data)
        ELSE IF last THEN [Control(w, op, SubSeq(whole, start + 1, Len(whole)))
                              EXCEPT !.buffer = SubSeq(whole, 1, start), !.tip = 0]
        ELSE [w EXCEPT !.buffer = whole, !.tip = tip]

HandleFragment(w, op, data, last) ==
    IF op < 3 THEN DataFragment(w, op, data, last) ELSE ControlFragment(w, op, data, last)

-----------------------------------------------------------------------------
(* The parser.                                                             *)

\* Byte i of data is the one mask[(phase + i - 1) % 4] belongs to, or it
\* comes out as something else.
Unmask(data, phase) ==
    [i \in DOMAIN data |-> IF (phase + i - data[i][2]) % 4 = 0 THEN data[i] ELSE <<0, 0>>]

\* mutant: the mask is not rotated after a part of a frame.
RotateNever(phase, n) == phase
\* rotateMask(4 - n % 4) after n bytes: the next byte's is in front again.
Rotate(phase, n) == (phase + n) % 4

Header == frames[src[1][1]]
Take(n) == SubSeq(src, 1, n)
Drop(n) == SubSeq(src, n + 1, Len(src))

\* Reserved bits and opcodes, control frames in parts or too long.  RSV1 is
\* no better than the others: compression was not negotiated.
Refused == \/ Header.rsv
           \/ Header.op \in 3..7
           \/ Header.op > PONG
           \/ Header.op > 2 /\ (~Header.fin \/ Header.header # ShortHeader)

\* A new message inside one that is not finished, or a continuation of none.
\* (A binary message is let in all the same, and so is a text after a
\* control frame has set lastFin.)
Unexpected == \/ Header.op # CONTINUATION /\ parser.opStack = 1
              \/ Header.op = TEXT /\ ~parser.lastFin
              \/ Header.op = CONTINUATION /\ parser.opStack = -1

\* mutant: the whole frame is waited for.
HeadCompleteWhole == Len(src) >= ShortHeader /\ Len(src) >= Header.header + Header.len
\* The header can be read: six bytes, and then the extended length.
HeadComplete == Len(src) >= ShortHeader /\ (Refused \/ Len(src) >= Header.header)

\* The opcodes of the message and of the control frame inside it.
Pushed == IF Header.op = CONTINUATION THEN [parser EXCEPT !.lastFin = Header.fin]
          ELSE [parser EXCEPT !.opStack = @ + 1, !.opCode[parser.opStack + 1] = Header.op,
                              !.lastFin = Header.fin]

Popped(p, fin) == IF fin THEN [p EXCEPT !.opStack = @ - 1] ELSE p

\* The rest of a chunk is not looked at once the connection goes away.
Rest(w, rest) == IF w.open THEN rest ELSE <<>>

\* The connection was upgraded, and the peer sends frames from now on.
StartFrames(fs) ==
    /\ frames = <<>>
    /\ frames' = fs
    /\ wire' = AllBytes(fs)
    /\ UNCHANGED <<src, parser, ws>>

\* on_data: n bytes arrive, and are put behind what was left of a header.
\* A connection that is shutting down does not look at them.
Receive(n) ==
    /\ src = <<>>
    /\ n \in 1..Len(wire)
    /\ src' = IF ws.open THEN parser.spill \o SubSeq(wire, 1, n) ELSE <<>>
    /\ wire' = SubSeq(wire, n + 1, Len(wire))
    /\ UNCHANGED <<frames, parser, ws>>

\* consume, before consumeMessage: the frame cannot be one.
RefuseHead ==
    /\ src # <<>> /\ parser.wantsHead /\ HeadComplete
    /\ Refused \/ Unexpected \/ Header.len > MaxPayload
    /\ ws' = ForceClose(ws)
    /\ src' = <<>>
    /\ UNCHANGED <<frames, wire, parser>>

\* consume: the header is not complete and is kept for the next chunk.
SpillHead ==
    /\ src # <<>> /\ parser.wantsHead /\ ~HeadComplete
    /\ parser' = [parser EXCEPT !.spill = src]
    /\ src' = <<>>
    /\ UNCHANGED <<frames, wire, ws>>

\* consumeMessage<MESSAGE_HEADER, T>: the whole frame is there, or the part
\* of it the chunk holds is handled and the rest awaited.
ConsumeMessage ==
    LET size == Header.header + Header.len
        have == SubSeq(src, Header.header + 1, IF size < Len(src) THEN size ELSE Len(src))
        last == Header.fin /\ size <= Len(src)
        handled == HandleFragment(ws, Pushed.opCode[Pushed.opStack], Unmask(have, 0), last)
    IN  /\ src # <<>> /\ parser.wantsHead /\ HeadComplete
        /\ ~Refused /\ ~Unexpected /\ Header.len <= MaxPayload
        /\ ws' = handled
        /\ IF size <= Len(src)
             THEN /\ parser' = [Popped(Pushed, Header.fin) EXCEPT !.spill = <<>>]
                  /\ src' = Rest(handled, Drop(size))
             ELSE /\ parser' = [Pushed EXCEPT !.spill = <<>>, !.wantsHead = FALSE,
                                              !.remaining = size - Len(src),
                                              !.phase = Rotate(0, Len(have))]
                  /\ src' = <<>>
        /\ UNCHANGED <<frames, wire>>

\* consumeContinuation: more of the frame, perhaps all that was awaited.
ContinueMessage ==
    LET whole == parser.remaining <= Len(src)
        have == IF whole THEN Take(parser.remaining) ELSE src
        handled == HandleFragment(ws, parser.opCode[parser.opStack], Unmask(have, parser.phase),
                                  whole /\ parser.lastFin)
    IN  /\ src # <<>> /\ ~parser.wantsHead
        /\ ws' = handled
        /\ parser' = IF whole THEN [Popped(parser, parser.lastFin)
                                      EXCEPT !.wantsHead = TRUE, !.remaining = 0]
                     ELSE [parser EXCEPT !.remaining = @ - Len(src),
                                         !.phase = Rotate(@, Len(src))]
        /\ src' = Rest(handled, IF whole THEN Drop(parser.remaining) ELSE <<>>)
        /\ UNCHANGED <<frames, wire>>

FrameStep ==
    \/ \E n \in 1..Len(wire) : Receive(n)
    \/ RefuseHead
    \/ SpillHead
    \/ ConsumeMessage
    \/ ContinueMessage

FrameSpec == FrameInit /\ [][(\E fs \in FrameStreams : StartFrames(fs)) \/ FrameStep]_frameVars

-----------------------------------------------------------------------------

(* The bounds the arrays of WebSocketState have: spill holds               *)
(* LONG_MESSAGE_HEADER - 1 bytes, and opCode two opcodes, of which one is  *)
(* there whenever part of a frame is handled.                              *)
StateFits ==
    /\ Len(parser.spill) \in 0..13
    /\ parser.opStack \in -1..1
    /\ ~parser.wantsHead => parser.opStack >= 0 /\ parser.remaining > 0 /\ parser.spill = <<>>

-----------------------------------------------------------------------------
(* What the frames of a stream mean, whatever the chunks.                  *)

Payload(fs, f) == [i \in 1..fs[f].len |-> <<f, i>>]

\* m: what was said, the opcode of the unfinished message (0: none), and its
\* bytes; the connection is over once "end" or "forced" was said.
Nothing == [said |-> <<>>, op |-> 0, data |-> <<>>, over |-> FALSE]
Tell(m, what) == [m EXCEPT !.said = Append(@, what)]
Fail(m) == [Tell(m, [kind |-> "forced"]) EXCEPT !.over = TRUE]

\* A frame that is none, or that may not come where it does.
Misplaced(m, frame) ==
    \/ frame.rsv
    \/ frame.op \in 3..7 \cup 11..15
    \/ frame.len > MaxPayload
    \/ frame.op > 2 /\ (~frame.fin \/ frame.header # ShortHeader)
    \/ frame.op <= 2 /\ (frame.op = CONTINUATION) # (m.op # 0)

HeardControl(m, frame, data) ==
    CASE frame.op = PING -> Tell(m, [kind |-> "pong", data |-> data])
      [] frame.op = PONG -> Tell(m, [kind |-> "ponged"])
      [] frame.op = CLOSE ->
            [Tell(m, [kind |-> "end", data |-> data,
                      code |-> IF frame.len < 2 THEN 1005 ELSE IF frame.sound THEN 1000 ELSE 1006])
                EXCEPT !.over = TRUE]

HeardData(fs, m, frame, data) ==
    LET whole == m.data \o data
        sound == \A i \in DOMAIN whole : fs[whole[i][1]].sound
        op == IF frame.op = CONTINUATION THEN m.op ELSE frame.op
    IN  IF Len(whole) > MaxPayload THEN Fail(m)
        ELSE IF ~frame.fin THEN [m EXCEPT !.op = op, !.data = whole]
        ELSE IF op = TEXT /\ ~sound THEN Fail(m)
        ELSE [Tell(m, [kind |-> "message", op |-> op, data |-> whole]) EXCEPT !.op = 0, !.data = <<>>]

HeardFrame(fs, m, f) ==
    IF m.over THEN m
    ELSE IF Misplaced(m, fs[f]) THEN Fail(m)
    ELSE IF fs[f].op > 2 THEN HeardControl(m, fs[f], Payload(fs, f))
    ELSE HeardData(fs, m, fs[f], Payload(fs, f))

\* After each frame of the stream.
Hearing(fs) ==
    LET heard[f \in 0..Len(fs)] == IF f = 0 THEN Nothing ELSE HeardFrame(fs, heard[f - 1], f)
    IN  heard

Meaning(fs) == Hearing(fs)[Len(fs)].said

\* A binary message inside an unfinished one is let in, and a text too when
\* a control frame came between: what that means is anybody's guess.
Nested(fs) ==
    \E f, g \in DOMAIN fs :
        /\ f < g /\ fs[f].op \in 1..2 /\ ~fs[f].fin /\ fs[g].op \in 1..2
        /\ \A k \in f..g : fs[k].op = CONTINUATION => ~fs[k].fin
        /\ fs[g].op = 2 \/ \E h \in f..g : fs[h].op > 2

(* The chunks do not matter: what the handlers are told and the peer is    *)
(* answered is what the frames mean, as far as they were received, no byte *)
(* of a message or a pong comes out wrong, and nothing is left behind.     *)
Understood ==
    ~Nested(frames) =>
        LET meaning == Meaning(frames)
        IN  /\ Len(ws.said) <= Len(meaning)
            /\ \A i \in DOMAIN ws.said : ws.said[i] = meaning[i]
            /\ (src = <<>> /\ (wire = <<>> \/ ~ws.open)) => ws.said = meaning

=============================================================================
