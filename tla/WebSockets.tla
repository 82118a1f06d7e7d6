----------------------------- MODULE WebSockets -----------------------------
(***************************************************************************)
(* The websocket connections of the server between the callbacks of their  *)
(* loop (WebSocketContext.h, the upgrade in HttpResponse.h) and the bytes  *)
(* that reach the peers (AsyncSocket).  The loop thread corks a socket,    *)
(* runs a handler of WBServer and uncorks; the front server's thread sends *)
(* broadcast messages to the same sockets.  If Overlap is FALSE a send of  *)
(* the front thread falls between two callbacks; if it is TRUE it takes    *)
(* three steps, which fall anywhere.                                       *)
(***************************************************************************)
EXTENDS AsyncSocket

CONSTANTS
    MaxBackpressure,   \* WebSocketBehavior::maxBackpressure
    MaxFrame,          \* bound: the largest frame sent
    MaxFrames,         \* bound: frames sent to one socket, but for its last
    MaxReplies,        \* bound: frames sent in answer to one chunk of data
    Overlap            \* do sends of the front thread overlap callbacks?

ASSUME FrameAssumption ==
    /\ MaxBackpressure \in Nat
    /\ MaxFrame \in Nat \ {0}
    /\ MaxFrames \in Nat
    /\ MaxReplies \in Nat \ {0}
    /\ Overlap \in BOOLEAN

VARIABLES
    net,        \* the sockets and the cork buffer of the loop
    upgraded,   \* sockets that are websockets by now
    ending,     \* WebSocketData::isShuttingDown
    overdue,    \* sockets whose idle timeout has run off
    conSet,     \* WBServer::wss_con_set_
    loop,       \* the loop thread: its callback, the socket it is for, its replies
    sender,     \* the front thread: its send
    frames,     \* history: size and result of each frame sent to a socket
    closes      \* history: close events of a socket

vars == <<net, upgraded, ending, overdue, conSet, loop, sender, frames, closes>>

-----------------------------------------------------------------------------
LoopIdle == [at |-> "idle", s |-> NoSocket, replies |-> 0]
SenderIdle == [at |-> "idle", s |-> NoSocket, size |-> 1, auto |-> FALSE]

Frame == [size: 1..MaxFrame, ok: BOOLEAN]

\* Values of the right type.
TypeOK ==
    /\ net \in Net
    /\ upgraded \in SUBSET Sockets
    /\ ending \in SUBSET Sockets
    /\ overdue \in SUBSET Sockets
    /\ conSet \in SUBSET Sockets
    /\ loop \in [at: {"idle", "opening", "data", "done"}, s: Sockets \cup {NoSocket},
                 replies: 0..MaxReplies]
    /\ sender \in [at: {"idle", "format", "uncork"}, s: Sockets \cup {NoSocket},
                   size: 1..MaxFrame, auto: BOOLEAN]
    /\ frames \in [Sockets -> Seq(Frame)]
    /\ closes \in [Sockets -> Nat]

Init ==
    /\ net = NetInit
    /\ upgraded = {}
    /\ ending = {}
    /\ overdue = {}
    /\ conSet = {}
    /\ loop = LoopIdle
    /\ sender = SenderIdle
    /\ frames = [s \in Sockets |-> <<>>]
    /\ closes = [s \in Sockets |-> 0]

-----------------------------------------------------------------------------
(* WebSocket::send.                                                        *)

NewFrame(s, size) == [i \in 1..size |-> <<s, Len(frames[s]) + 1, i>>]

\* mutant: no limit for backpressure.
SkipsNever(s) == FALSE
\* send skips the message and reports success; a limit of 0 is none.
Skips(s) == MaxBackpressure # 0 /\ Len(net.buffer[s]) > MaxBackpressure

Record(s, size, ok) == frames' = [frames EXCEPT ![s] = Append(@, [size |-> size, ok |-> ok])]

\* A send of the loop thread, or of the front thread if nothing interferes.
Send(s, size) ==
    IF Skips(s) THEN UNCHANGED <<net, overdue, frames>>
    ELSE LET sent == SendFrame(net, s, NewFrame(s, size))
         IN  /\ net' = sent.net
             /\ Record(s, size, ~sent.failed)
             /\ overdue' = IF sent.failed THEN overdue ELSE overdue \ {s}

-----------------------------------------------------------------------------
(* Callbacks of the loop thread.                                           *)

\* HTTP data that asks for an upgrade: the response is written to the corked
\* socket, which becomes a websocket; the open handler, WBServer::on_open,
\* inserts it into the set.
Upgrade(s) ==
    /\ loop = LoopIdle
    /\ s \notin upgraded \cup net.closed
    /\ LET response == Write(Cork(net, s), s, NewFrame(s, 1))
       IN  /\ net' = response.net
           /\ Record(s, 1, ~response.failed)
    /\ upgraded' = upgraded \cup {s}
    /\ conSet' = conSet \cup {s}
    /\ overdue' = overdue \ {s}
    /\ loop' = [at |-> "opening", s |-> s, replies |-> 0]
    /\ UNCHANGED <<ending, sender, closes>>

\* on_open, the greeting.
Greet(size) ==
    /\ loop.at = "opening"
    /\ Send(loop.s, size)
    /\ loop' = [loop EXCEPT !.at = "done"]
    /\ UNCHANGED <<upgraded, ending, conSet, sender, closes>>

\* on_data begins: the timeout is reset and the socket corked.
OnData(s) ==
    /\ loop = LoopIdle
    /\ s \in upgraded \ (ending \cup net.closed)
    /\ overdue' = overdue \ {s}
    /\ net' = Cork(net, s)
    /\ loop' = [at |-> "data", s |-> s, replies |-> 0]
    /\ UNCHANGED <<upgraded, ending, conSet, sender, frames, closes>>

\* A message or a ping: WBServer::on_message answers, or a pong is sent.
Reply(size) ==
    /\ loop.at = "data"
    /\ Len(frames[loop.s]) < MaxFrames /\ loop.replies < MaxReplies
    /\ Send(loop.s, size)
    /\ loop' = [loop EXCEPT !.replies = @ + 1]
    /\ UNCHANGED <<upgraded, ending, conSet, sender, closes>>

\* The close event: WBServer::on_close erases the socket from the set.
CloseEvent(s) ==
    /\ conSet' = conSet \ {s}
    /\ closes' = [closes EXCEPT ![s] = @ + 1]

\* A close frame: WebSocket::end sends one back.  The FIN is put off until
\* the socket is uncorked, unless it is not corked and all has been sent.
EndCall ==
    /\ loop.at = "data"
    /\ LET s == loop.s
           sent == SendFrame(net, s, NewFrame(s, 1))
           ok == Skips(s) \/ ~sent.failed
           after == IF Skips(s) THEN net ELSE sent.net
       IN  /\ ending' = ending \cup {s}
           /\ net' = IF after.corked # s /\ ok THEN Shutdown(after, s) ELSE after
           /\ IF Skips(s) THEN UNCHANGED frames ELSE Record(s, 1, ok)
           /\ overdue' = IF ok /\ ~Skips(s) THEN overdue \ {s} ELSE overdue
           /\ CloseEvent(s)
    /\ loop' = [loop EXCEPT !.at = "done"]
    /\ UNCHANGED <<upgraded, sender>>

\* mutant: the close handler does not look at isShuttingDown.
CloseSocketTwice(s) ==
    /\ net' = Close(net, s)
    /\ IF s \in upgraded THEN CloseEvent(s) ELSE UNCHANGED <<conSet, closes>>
    /\ UNCHANGED <<upgraded, ending, overdue, sender, frames>>
\* us_socket_close and the close handler it calls.
CloseSocket(s) ==
    /\ net' = Close(net, s)
    /\ IF s \in upgraded \ ending THEN CloseEvent(s) ELSE UNCHANGED <<conSet, closes>>
    /\ UNCHANGED <<upgraded, ending, overdue, sender, frames>>

\* Data that breaks the protocol: forceClose.
ForceClose ==
    /\ loop.at = "data"
    /\ CloseSocket(loop.s)
    /\ loop' = [loop EXCEPT !.at = "done"]

\* mutant: the FIN does not wait for the buffer to drain.
EndDataHasty ==
    /\ loop.at \in {"data", "done"}
    /\ LET after == Uncork(net, loop.s, <<>>).net
       IN  net' = IF loop.s \in ending THEN Shutdown(after, loop.s) ELSE after
    /\ loop' = LoopIdle
    /\ UNCHANGED <<upgraded, ending, overdue, conSet, sender, frames, closes>>
\* on_data ends: uncork, and send the FIN if the close frame is out.
EndData ==
    /\ loop.at \in {"data", "done"}
    /\ LET after == Uncork(net, loop.s, <<>>).net
       IN  net' = IF loop.s \in ending /\ after.buffer[loop.s] = <<>>
                    THEN Shutdown(after, loop.s) ELSE after
    /\ loop' = LoopIdle
    /\ UNCHANGED <<upgraded, ending, overdue, conSet, sender, frames, closes>>

\* on_writable: drain, then the timeout as the code has it, then the FIN.
OnWritable(s) ==
    /\ loop = LoopIdle
    /\ s \in upgraded \cap net.polling
    /\ s \notin net.shut
    /\ net.room[s] > 0
    /\ LET before == Len(net.buffer[s])
           drained == Write([net EXCEPT !.polling = @ \ {s}], s, <<>>).net
           after == Len(drained.buffer[s])
       IN  /\ net' = IF s \in ending /\ after = 0 THEN Shutdown(drained, s) ELSE drained
           /\ overdue' = IF before = 0 \/ before < after THEN overdue \ {s} ELSE overdue
    /\ UNCHANGED <<upgraded, ending, conSet, loop, sender, frames, closes>>

\* on_end: the peer sent its FIN.
OnEnd(s) ==
    /\ loop = LoopIdle
    /\ s \notin net.closed
    /\ CloseSocket(s)
    /\ UNCHANGED loop

\* mutant: a connection that is shutting down does not time out.
OnTimeoutOpen(s) ==
    /\ loop = LoopIdle
    /\ s \in overdue \ (net.closed \cup ending)
    /\ CloseSocket(s)
    /\ UNCHANGED loop
\* on_timeout: the connection is closed.
OnTimeout(s) ==
    /\ loop = LoopIdle
    /\ s \in overdue \ net.closed
    /\ CloseSocket(s)
    /\ UNCHANGED loop

-----------------------------------------------------------------------------
(* The front server's thread: the sends of broadcast.                      *)

Broadcast(s, size) ==
    /\ ~Overlap
    /\ loop = LoopIdle
    /\ s \in conSet
    /\ Len(frames[s]) < MaxFrames
    /\ Send(s, size)
    /\ UNCHANGED <<upgraded, ending, conSet, loop, sender, closes>>

\* The same send in three steps: cork, format, uncork.
BeginSend(s, size) ==
    /\ Overlap
    /\ sender.at = "idle"
    /\ s \in conSet
    /\ Len(frames[s]) < MaxFrames
    /\ ~Skips(s)
    /\ sender' = [at |-> "format", s |-> s, size |-> size, auto |-> net.corked = NoSocket]
    /\ net' = IF net.corked = NoSocket THEN Cork(net, s) ELSE net
    /\ UNCHANGED <<upgraded, ending, overdue, conSet, loop, frames, closes>>

FormatSend ==
    /\ sender.at = "format"
    /\ LET s == sender.s
           sent == Format(net, s, NewFrame(s, sender.size))
       IN  /\ net' = sent.net
           /\ Record(s, sender.size, ~sent.failed)
           /\ IF sender.auto /\ ~sent.failed
                THEN sender' = [sender EXCEPT !.at = "uncork"] /\ UNCHANGED overdue
                ELSE /\ sender' = SenderIdle
                     /\ overdue' = IF sent.failed THEN overdue ELSE overdue \ {s}
    /\ UNCHANGED <<upgraded, ending, conSet, loop, closes>>

EndSend ==
    /\ sender.at = "uncork"
    /\ LET flushed == Uncork(net, sender.s, <<>>)
       IN  /\ net' = flushed.net
           /\ overdue' = IF flushed.failed THEN overdue ELSE overdue \ {sender.s}
    /\ sender' = SenderIdle
    /\ UNCHANGED <<upgraded, ending, conSet, loop, frames, closes>>

-----------------------------------------------------------------------------
(* The peers and the clock.                                                *)

\* The peer reads: the kernel has room again.
PeerReads(s) ==
    /\ net.room[s] < RoomSize
    /\ net' = [net EXCEPT !.room[s] = RoomSize]
    /\ UNCHANGED <<upgraded, ending, overdue, conSet, loop, sender, frames, closes>>

Elapse(s) ==
    /\ s \notin overdue \cup net.closed
    /\ overdue' = overdue \cup {s}
    /\ UNCHANGED <<net, upgraded, ending, conSet, loop, sender, frames, closes>>

Callback ==
    \/ \E s \in Sockets : Upgrade(s) \/ OnData(s) \/ OnWritable(s) \/ OnEnd(s) \/ OnTimeout(s)
    \/ \E size \in 1..MaxFrame : Greet(size) \/ Reply(size)
    \/ EndCall
    \/ ForceClose
    \/ EndData

FrontThread ==
    \/ \E s \in Sockets, size \in 1..MaxFrame : Broadcast(s, size) \/ BeginSend(s, size)
    \/ FormatSend
    \/ EndSend

Next == Callback \/ FrontThread \/ \E s \in Sockets : PeerReads(s) \/ Elapse(s)

\* A loop delivers the events of its sockets and finishes its callbacks;
\* time passes.  Peers need not read.
Fairness ==
    /\ WF_vars(Greet(1))
    /\ WF_vars(EndData)
    /\ \A s \in Sockets : SF_vars(OnTimeout(s)) /\ WF_vars(Elapse(s))

Spec == Init /\ [][Next]_vars
FairSpec == Spec /\ Fairness

-----------------------------------------------------------------------------
(* What reaches the peers.                                                 *)

\* Everything written to a socket and not lost: sent, buffered or corked.
Stream(s) == net.wire[s] \o net.buffer[s] \o (IF net.corked = s THEN net.cork ELSE <<>>)

\* Bytes x and y lie next to each other in a frame written to s.
Joined(s, x, y) == x[1] = s /\ y = <<s, x[2], x[3] + 1>>

\* The first and the last byte of a frame of s.
Begins(s, x) == x[1] = s /\ x[3] = 1
Ends(s, x) == x[1] = s /\ x[3] = frames[s][x[2]].size

\* A peer never sees a byte of another connection or part of a frame,
\* whatever levels the bytes passed through (AsyncSocket.h:138-255).
FramesWhole ==
    \A s \in upgraded \ net.closed :
        LET bytes == Stream(s)
        IN  \A i \in DOMAIN bytes :
              /\ Begins(s, bytes[i]) \/ (i > 1 /\ Joined(s, bytes[i - 1], bytes[i]))
              /\ Ends(s, bytes[i]) \/ (i < Len(bytes) /\ Joined(s, bytes[i], bytes[i + 1]))

\* Frames reach the peer in the order in which they were sent, none twice,
\* as do the bytes of an AsyncSocket: they go through the cork buffer, the
\* kernel and the buffer of the socket, "in three levels of prioritization"
\* (AsyncSocket.h:138).
FramesInOrder ==
    \A s \in upgraded \ net.closed :
        LET bytes == Stream(s)
        IN  \A i \in 1..(Len(bytes) - 1) :
              Joined(s, bytes[i], bytes[i + 1]) \/ bytes[i][2] < bytes[i + 1][2]

Kept(s, f) == \E i \in DOMAIN Stream(s) : Stream(s)[i] = <<s, f, 1>>

\* A frame for which send returned true is never lost (WebSocket.h:59-125),
\* though it may pass the cork buffer, a flush that fails and on_writable.
AcceptedIsKept ==
    \A s \in upgraded \ net.closed :
        \A f \in DOMAIN frames[s] : frames[s][f].ok => Kept(s, f)

\* "Send or buffer a WebSocket frame" (WebSocket.h:59): a frame that is not
\* skipped for backpressure is sent or buffered, whatever send returns.
EveryFrameKept ==
    \A s \in upgraded \ net.closed : \A f \in DOMAIN frames[s] : Kept(s, f)

\* "It is essential to remember doing this" (AsyncSocket.h:230): outside
\* callbacks and sends nothing is corked and the cork buffer is empty.
CorkReleased ==
    loop = LoopIdle /\ sender = SenderIdle => net.corked = NoSocket /\ net.cork = <<>>

\* Buffered bytes are waited for: a socket with a buffer is polled for
\* writable, so that on_writable will drain it (WebSocketContext.h:303-348).
BufferedIsPolled ==
    \A s \in Sockets \ (net.closed \cup net.shut) : net.buffer[s] # <<>> => s \in net.polling

\* maxBackpressure bounds what a slow peer can make the server buffer: the
\* limit, and what one send and one flush of the cork buffer may add to it
\* (WebSocket.h:65-68).
BackpressureBounded ==
    MaxBackpressure # 0 =>
        \A s \in Sockets : Len(net.buffer[s]) <= MaxBackpressure + MaxFrame + CorkSize

\* "We postpone any FIN sending to either drainage or uncorking"
\* (WebSocket.h:136): when the FIN is sent no byte is left behind it.
FinComesLast ==
    \A s \in net.shut \ net.closed : s \in ending /\ Stream(s) = net.wire[s]

\* Each websocket has one close event, from end or from on_close and never
\* from both (WebSocketContext.h:241-255), and until then, but no longer,
\* it is in the set broadcast walks.
CloseEventOnce ==
    \A s \in Sockets :
        /\ s \in conSet <=> s \in upgraded \ (ending \cup net.closed)
        /\ closes[s] = IF s \in upgraded \cap (ending \cup net.closed) THEN 1 ELSE 0

\* "Only one socket may ever be corked per-loop at any given time"
\* (AsyncSocket.h:68): no socket is corked in the place of another.
OneCorked ==
    [][net'.corked # net.corked => NoSocket \in {net.corked, net'.corked}]_vars

\* A connection that is shutting down does not linger, even if its peer
\* neither reads nor answers (WebSocketContext.h:271-273, 360-367).
EveryCloseEnds == \A s \in Sockets : s \in ending ~> s \in net.closed
=============================================================================
