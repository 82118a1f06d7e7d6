---------------------------- MODULE AsyncSocket ----------------------------
(***************************************************************************)
(* The write path of uWS::AsyncSocket<false> (AsyncSocket.h): bytes go to  *)
(* the cork buffer the sockets of a loop share, else to the kernel, else   *)
(* to the socket's own buffer.  The state of all sockets of one loop is a  *)
(* record, and every function of the class a function on that record.      *)
(*                                                                         *)
(* A byte is <<s, f, i>>: the i-th byte of the f-th frame written to       *)
(* socket s.  Sizes are counted in units of a few kilobytes.               *)
(***************************************************************************)
EXTENDS Integers, Sequences

CONSTANTS
    Sockets,      \* the sockets of the loop
    NoSocket,     \* LoopData::corkedSocket == nullptr
    CorkSize,     \* LoopData::CORK_BUFFER_SIZE
    RoomSize      \* what the kernel's send buffer of a socket holds

ASSUME NoSocketAssumption == NoSocket \notin Sockets
ASSUME SizeAssumption == CorkSize \in Nat /\ RoomSize \in Nat

Byte == Sockets \X Nat \X Nat

Net == [corked: Sockets \cup {NoSocket},   \* LoopData::corkedSocket
        cork: Seq(Byte),                   \* corkBuffer up to corkOffset
        buffer: [Sockets -> Seq(Byte)],    \* AsyncSocketData::buffer
        wire: [Sockets -> Seq(Byte)],      \* what the kernel has taken
        room: [Sockets -> 0..RoomSize],    \* what it can take at present
        polling: SUBSET Sockets,           \* sockets polled for writable
        closed: SUBSET Sockets,            \* us_socket_is_closed
        shut: SUBSET Sockets]              \* us_socket_is_shut_down

NetInit == [corked  |-> NoSocket,
            cork    |-> <<>>,
            buffer  |-> [s \in Sockets |-> <<>>],
            wire    |-> [s \in Sockets |-> <<>>],
            room    |-> [s \in Sockets |-> RoomSize],
            polling |-> {},
            closed  |-> {},
            shut    |-> {}]

Smaller(a, b) == IF a <= b THEN a ELSE b

-----------------------------------------------------------------------------
(* us_socket_write: the kernel takes what it has room for; if that is not  *)
(* everything, the socket is polled for writable.                          *)

\* mutant: the return value of us_socket_write is not looked at.
TakenAll(net, s, bytes) == Len(bytes)
Taken(net, s, bytes) == IF s \in net.shut THEN 0 ELSE Smaller(Len(bytes), net.room[s])

\* mutant: a write that fails in part does not poll for writable.
SysWriteUnpolled(net, s, bytes) ==
    LET n == Taken(net, s, bytes)
    IN  [net EXCEPT !.wire[s] = @ \o SubSeq(bytes, 1, n), !.room[s] = @ - n]
SysWrite(net, s, bytes) ==
    LET n == Taken(net, s, bytes)
    IN  [net EXCEPT !.wire[s] = @ \o SubSeq(bytes, 1, n),
                    !.room[s] = @ - n,
                    !.polling = IF n < Len(bytes) /\ s \notin net.shut THEN @ \cup {s} ELSE @]

Remaining(net, s, bytes) == SubSeq(bytes, Taken(net, s, bytes) + 1, Len(bytes))

-----------------------------------------------------------------------------
(* AsyncSocket.  A result is the new state and whether the call failed.    *)

Done(net) == [net |-> net, failed |-> FALSE]
Failed(net) == [net |-> net, failed |-> TRUE]

\* A socket is corked whatever socket was before.
Cork(net, s) == [net EXCEPT !.corked = s]

\* mutant: the buffer is cleared although the kernel took only part of it.
DrainCleared(net, s) == [SysWrite(net, s, net.buffer[s]) EXCEPT !.buffer[s] = <<>>]
\* The socket's own buffer goes first, as far as the kernel takes it.
Drain(net, s) ==
    [SysWrite(net, s, net.buffer[s]) EXCEPT !.buffer[s] = Remaining(net, s, net.buffer[s])]

\* mutant: all of src is buffered, not what is left of it.
WriteThroughTwice(net, s, src) ==
    IF Remaining(net, s, src) = <<>>
      THEN Done(SysWrite(net, s, src))
      ELSE Failed([SysWrite(net, s, src) EXCEPT !.buffer[s] = @ \o src])
\* To the kernel, and what it does not take to the socket's buffer.
WriteThrough(net, s, src) ==
    IF Remaining(net, s, src) = <<>>
      THEN Done(SysWrite(net, s, src))
      ELSE Failed([SysWrite(net, s, src) EXCEPT !.buffer[s] = @ \o Remaining(net, s, src)])

\* mutant: src does not wait for the buffered bytes.
WriteAhead(net, s, src) == IF s \in net.closed THEN Done(net) ELSE WriteThrough(net, s, src)
\* write on a socket that is not corked.  A closed one fakes success; what
\* cannot follow the buffered bytes is buffered behind them.
WriteUncorked(net, s, src) ==
    LET drained == Drain(net, s)
    IN  IF s \in net.closed THEN Done(net)
        ELSE IF drained.buffer[s] # <<>> THEN Failed([drained EXCEPT !.buffer[s] = @ \o src])
        ELSE WriteThrough(drained, s, src)

\* mutant: corkOffset is reset without flushing.
UncorkDropped(net, s, src) ==
    IF net.corked # s THEN Done(net)
    ELSE WriteUncorked([net EXCEPT !.corked = NoSocket, !.cork = <<>>], s, src)
\* uncork: the cork buffer is flushed, then src is written, unless flushing
\* failed: then write has buffered the corked bytes, and src goes nowhere.
\* (Flushing an empty cork buffer only drains, as writing src does first.)
Uncork(net, s, src) ==
    LET flushed == WriteUncorked([net EXCEPT !.corked = NoSocket], s, net.cork)
        emptied == [flushed.net EXCEPT !.cork = <<>>]
    IN  IF net.corked # s THEN Done(net)
        ELSE IF net.cork # <<>> /\ flushed.failed THEN Failed(emptied)
        ELSE WriteUncorked(emptied, s, src)

\* write: as above, but a corked socket with nothing buffered writes to the
\* cork buffer while there is room, and is uncorked when there is none.
Write(net, s, src) ==
    LET drained == Drain(net, s)
    IN  IF net.corked # s \/ s \in net.closed \/ drained.buffer[s] # <<>>
          THEN WriteUncorked(net, s, src)
        ELSE IF Len(net.cork) + Len(src) <= CorkSize
          THEN Done([drained EXCEPT !.cork = @ \o src])
        ELSE Uncork(drained, s, src)

\* getSendBuffer and formatMessage into it: straight into the cork buffer if
\* the socket is corked and there is room to spare, else by way of write.
Format(net, s, frame) ==
    IF net.corked = s /\ Len(net.cork) + Len(frame) < CorkSize
      THEN Done([net EXCEPT !.cork = @ \o frame])
      ELSE Write(net, s, frame)

\* mutant: no uncork after corking for the user.
SendFrameCorked(net, s, frame) ==
    Format(IF net.corked = NoSocket THEN Cork(net, s) ELSE net, s, frame)
\* WebSocket::send once it is decided not to skip the message.  The socket
\* is corked for the call if none is; if writing fails it stays as it is.
SendFrame(net, s, frame) ==
    LET auto == net.corked = NoSocket
        sent == Format(IF auto THEN Cork(net, s) ELSE net, s, frame)
    IN  IF auto /\ ~sent.failed THEN Uncork(sent.net, s, <<>>) ELSE sent

\* us_socket_close and us_socket_shutdown.
Close(net, s) == [net EXCEPT !.closed = @ \cup {s}, !.polling = @ \ {s}]
Shutdown(net, s) ==
    IF s \in net.closed THEN net
    ELSE [net EXCEPT !.shut = @ \cup {s}, !.polling = @ \ {s}]
=============================================================================
