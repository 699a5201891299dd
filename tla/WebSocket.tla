------------------------------ MODULE WebSocket ------------------------------
(***************************************************************************)
(* One WebSocket connection (src/ws/lib/websocket.js) with everything      *)
(* around it: the program that uses it, the peer, the network, zlib and    *)
(* the close timer.  The peer may send anything, end its side, reset the   *)
(* connection or never answer.                                             *)
(***************************************************************************)
EXTENDS WebSocketOps

CONSTANTS
    Deflate,      \* permessage-deflate was negotiated
    UserCodes,    \* codes the program passes to close()
    PeerCodes,    \* codes of the peer's close frames
    MaxArrive,    \* bound: frames the peer sends
    MaxSend,      \* bound: frames the program sends
    MaxPause      \* bound: calls of pause()

ASSUME WebSocketAssumption ==
    /\ Deflate \in BOOLEAN
    /\ \A c \in UserCodes : c = NoCode \/ IsValidStatusCode(c)
    /\ \A c \in PeerCodes : c = NoStatus \/ IsValidStatusCode(c)
    /\ {HighWater, MaxArrive, MaxSend, MaxPause} \subseteq Nat

VARIABLES
    w,            \* the connection
    peerFin,      \* the peer has sent its FIN
    pauses,       \* counts calls of pause()
    sent,         \* counts calls of send()
    arrived,      \* history: frames the socket took from the network
    emitted,      \* history: the messages of the 'message' events
    wire,         \* history: frames written out
    closes        \* history: 'close' events

vars == <<w, peerFin, pauses, sent, arrived, emitted, wire, closes>>

(***************************************************************************)
(* The peer's frames.  The identity of a data frame is its place in what   *)
(* the socket took from the network.                                       *)
(***************************************************************************)
ArrivingFrames(n) ==
    {Frame("data", n, comp) : comp \in {FALSE, Deflate}}
        \cup {Frame("close", c, FALSE) : c \in PeerCodes}
        \cup {Frame("bad", 0, comp) : comp \in {FALSE, Deflate}}
        \cup {Frame("ping", 0, FALSE)}

TypeOK ==
    /\ w \in Connection
    /\ peerFin \in BOOLEAN
    /\ pauses \in Nat
    /\ sent \in Nat
    /\ arrived \in Seq(FrameType)
    /\ emitted \in Seq(Nat)
    /\ wire \in Seq(FrameType)
    /\ closes \in Nat

\* A client that has just been constructed, or an accepted server connection.
Init ==
    /\ w \in {Connecting, Accepted}
    /\ peerFin = FALSE
    /\ pauses = 0
    /\ sent = 0
    /\ arrived = <<>>
    /\ emitted = <<>>
    /\ wire = <<>>
    /\ closes = 0

Environment == <<peerFin, pauses, sent, arrived>>
History     == <<emitted, wire, closes>>

-----------------------------------------------------------------------------
(***************************************************************************)
(* What the connection goes on to do in the same turn of the event loop    *)
(***************************************************************************)

\* The first frame in the receiver is parsed and its event emitted; a frame
\* that has to be inflated, once zlib has answered.
ParseFrame ==
    LET f == Head(w.rx)
    IN  /\ \/ f.op = "data"  /\ w' = Parsed(w) /\ emitted' = Append(emitted, f.val)
           \/ f.op = "ping"  /\ w' = ReceiverOnPing(w) /\ UNCHANGED emitted
           \/ f.op = "close" /\ w' = ReceiverOnConclude(w) /\ UNCHANGED emitted
           \/ f.op = "bad"   /\ w' = ReceiverOnError(w) /\ UNCHANGED emitted
        /\ UNCHANGED <<Environment, wire, closes>>

Parse == CanParse(w) /\ ParseFrame

Flow ==
    /\ ~CanParse(w)
    /\ CanFlow(w)
    /\ w' = FlowOne(w)
    /\ UNCHANGED <<Environment, History>>

Finish ==
    /\ MayFinish(w)
    /\ w' = EmitClose(w)
    /\ closes' = closes + 1
    /\ UNCHANGED <<Environment, emitted, wire>>

\* emitErrorAndClose on the nextTick queue, and the 'error' event of a stream
\* that abortHandshake destroyed.
AbortTick ==
    /\ \/ w.abort = "tick" /\ w' = HandshakeClosed(w) /\ closes' = closes + 1
       \/ w.abort = "error" /\ w' = [w EXCEPT !.abort = "close"] /\ UNCHANGED closes
    /\ UNCHANGED <<Environment, emitted, wire>>

Turn == Parse \/ Flow \/ Finish \/ AbortTick

Idle == ~Busy(w)

-----------------------------------------------------------------------------
(***************************************************************************)
(* The opening handshake                                                   *)
(***************************************************************************)

\* The server accepts; a listener of 'upgrade' may close the connection before
\* the check of line 892.
Upgrade ==
    /\ Idle
    /\ w.readyState = "CONNECTING"
    /\ \/ w' = Upgraded(w)
       \/ w' = Upgraded(AbortRequest(w))
       \/ w' = UpgradeRefused(w)
    /\ UNCHANGED <<Environment, History>>

\* The request fails ('error'): emitErrorAndClose at once.
RequestFails ==
    /\ Idle
    /\ w.readyState = "CONNECTING"
    /\ w' = HandshakeClosed(w)
    /\ closes' = closes + 1
    /\ UNCHANGED <<Environment, emitted, wire>>

\* The server answers something else than 101: abortHandshake(websocket, req).
UnexpectedResponse ==
    /\ Idle
    /\ w.readyState = "CONNECTING"
    /\ w' = AbortRequest(w)
    /\ UNCHANGED <<Environment, History>>

\* The 'close' event of the stream that abortHandshake destroyed.
StreamClosed ==
    /\ Idle
    /\ w.abort = "close"
    /\ w' = HandshakeClosed(w)
    /\ closes' = closes + 1
    /\ UNCHANGED <<Environment, emitted, wire>>

-----------------------------------------------------------------------------
(***************************************************************************)
(* The program                                                             *)
(***************************************************************************)

UserClose(code) ==
    /\ Idle
    /\ w' = Close(w, code)
    /\ w' # w
    /\ UNCHANGED <<Environment, History>>

UserSend ==
    /\ Idle
    /\ w.readyState # "CONNECTING"
    /\ sent < MaxSend
    /\ w' = SendFrame(w, Frame("data", sent, FALSE))
    /\ sent' = sent + 1
    /\ UNCHANGED <<peerFin, pauses, arrived, History>>

UserTerminate ==
    /\ Idle
    /\ w' = Terminate(w)
    /\ w' # w
    /\ UNCHANGED <<Environment, History>>

UserPause ==
    /\ Idle
    /\ w.socket # "none"
    /\ pauses < MaxPause
    /\ w' = Pause(w)
    /\ w' # w
    /\ pauses' = pauses + 1
    /\ UNCHANGED <<peerFin, sent, arrived, History>>

UserResume ==
    /\ Idle
    /\ w.userPaused
    /\ w' = Resume(w)
    /\ w' # w
    /\ UNCHANGED <<Environment, History>>

-----------------------------------------------------------------------------
(***************************************************************************)
(* The network, zlib and the timer                                         *)
(***************************************************************************)

NetData(f) ==
    /\ Idle
    /\ Listening(w)
    /\ ~peerFin
    /\ Len(arrived) < MaxArrive
    /\ w' = Arrive(w, f)
    /\ arrived' = Append(arrived, f)
    /\ UNCHANGED <<peerFin, pauses, sent, History>>

NetFin ==
    /\ Idle
    /\ w.socket = "up"
    /\ ~peerFin
    /\ peerFin' = TRUE
    /\ UNCHANGED <<w, pauses, sent, arrived, History>>

\* socketOnEnd: everything before the FIN was read, so a paused socket waits.
NetEnd ==
    /\ Idle
    /\ w.socket = "up"
    /\ peerFin
    /\ ~w.endEmitted
    /\ ~w.paused
    /\ w.inbuf = <<>>
    /\ w' = SocketOnEnd(w)
    /\ UNCHANGED <<Environment, History>>

NetError ==
    /\ Idle
    /\ w.socket = "up"
    /\ w' = SocketOnError(w)
    /\ UNCHANGED <<Environment, History>>

NetClose ==
    /\ Idle
    /\ MayEmitClose(w)
    /\ w' = SocketOnClose(w)
    /\ UNCHANGED <<Environment, History>>

NetWrite ==
    /\ Idle
    /\ w.socket = "up"
    /\ w.tx # <<>>
    /\ w' = Written(w)
    /\ wire' = Append(wire, Head(w.tx))
    /\ UNCHANGED <<Environment, emitted, closes>>

\* zlib answers for the frame the receiver waits for.
Inflated ==
    /\ Idle
    /\ Inflating(w)
    /\ ParseFrame

Timeout ==
    /\ Idle
    /\ w.closeTimer
    /\ w.socket = "up"
    /\ w' = CloseTimeout(w)
    /\ UNCHANGED <<Environment, History>>

Handshake == Upgrade \/ RequestFails \/ UnexpectedResponse \/ StreamClosed

Program ==
    \/ \E c \in UserCodes : UserClose(c)
    \/ UserSend
    \/ UserTerminate
    \/ UserPause
    \/ UserResume

Network ==
    \/ \E f \in ArrivingFrames(Len(arrived) + 1) : NetData(f)
    \/ NetFin \/ NetEnd \/ NetError \/ NetClose \/ NetWrite
    \/ Inflated
    \/ Timeout

Next == Turn \/ Handshake \/ Program \/ Network

(***************************************************************************)
(* A turn of the event loop is finished, zlib answers, the timer fires and *)
(* a destroyed stream emits 'close'.  The peer and the program are free to *)
(* do nothing, for ever: no frame has to come, and no byte to be taken.    *)
(***************************************************************************)
Fairness ==
    /\ WF_vars(Turn)
    /\ WF_vars(Inflated)
    /\ WF_vars(Timeout)
    /\ WF_vars(StreamClosed)
    /\ WF_vars(NetClose)

Spec == Init /\ [][Next]_vars /\ Fairness

-----------------------------------------------------------------------------
(***************************************************************************)
(* Properties                                                              *)
(***************************************************************************)

Rank == [CONNECTING |-> 0, OPEN |-> 1, CLOSING |-> 2, CLOSED |-> 3]

\* readyState never goes back: no late 'upgrade', 'end', 'error' or 'close'
\* event of a stream revives a connection that was closed meanwhile.
StateNeverGoesBack == [][Rank[w'.readyState] >= Rank[w.readyState]]_vars

\* The program sees exactly one 'close' event, when readyState becomes CLOSED:
\* five paths lead to emitClose() (two handshake failures, a finished receiver,
\* a failed receiver, a receiver that finishes after the socket).
OneCloseEvent == closes = (IF w.readyState = "CLOSED" THEN 1 ELSE 0)

Refused(f) == f.op \in {"close", "bad"}

\* The arrived messages the program has to see: those before the frame, if any,
\* that ends the stream.
Deliverable ==
    {i \in 1..Len(arrived) : arrived[i].op = "data"
                             /\ \A j \in 1..(i - 1) : ~Refused(arrived[j])}

(***************************************************************************)
(* The connection implements WebSocketLife: the messages that are due are  *)
(* the deliverable ones that were not emitted yet, wherever they are (the  *)
(* socket's read buffer, the receiver, zlib).                              *)
(***************************************************************************)
Emitted == {emitted[k] : k \in 1..Len(emitted)}

Due == Deliverable \ Emitted

Promise == INSTANCE WebSocketLife
            WITH Message <- 1..MaxArrive, state <- w.readyState, due <- Due

\* 'close' comes last: every message the socket took from the network before
\* it went away is emitted before 'close', once and in order, although zlib
\* lags, the program has paused the socket or the socket was destroyed with
\* data in its buffer; and every step of the connection is one of WebSocketLife.
ImplementsLife == Promise!Spec

\* A close frame is the last frame of the connection, and there is one at most.
NothingAfterCloseFrame ==
    LET out == wire \o w.tx
    IN  \A i \in 1..Len(out) : out[i].op = "close" => i = Len(out)

\* A received close frame is answered, unless the connection was being shut
\* down without one (the peer's FIN, an error) already.
CloseFrameAnswered ==
    (w.closeFrameReceived /\ w.socket = "up" /\ ~w.endEmitted)
        => \E i \in 1..Len(wire \o w.tx) : (wire \o w.tx)[i].op = "close"

\* A closing connection that still has its socket has something that will end
\* it: the close timer or its own FIN in answer to the peer's.
ClosingIsTimed ==
    w.readyState = "CLOSING" /\ w.socket = "up" => w.closeTimer \/ w.endEmitted

\* What Sender relies on: nothing is sent over a destroyed socket.
DestroyedNotOpen == w.readyState = "OPEN" => w.socket = "up"

\* While the socket is read, it is paused exactly when the program or the
\* receiver wants it: pause(), resume() and the receiver's 'drain' event come
\* in any order and none undoes the other.
PausedForAReason ==
    Listening(w) => (w.paused <=> w.userPaused \/ w.needDrain)

\* The socket is on its way out without the peer's help: its timer runs, or it has
\* failed, or both sides' ends are there and nothing is left to be written.
Timed == w.closeTimer \/ w.socket # "up" \/ (w.endEmitted /\ w.tx = <<>>)

\* A closing connection is closed in the end, although the peer may answer nothing
\* and read nothing: the close timer bounds the closing handshake (line 318).  The
\* exception is the one socketOnEnd() makes: the peer's FIN closes the connection
\* without a timer, so bytes that the peer never takes hold it in CLOSING.
ClosingEnds ==
    (w.readyState = "CLOSING" /\ Timed) ~> (w.readyState = "CLOSED")
=============================================================================
