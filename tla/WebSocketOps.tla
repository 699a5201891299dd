----------------------------- MODULE WebSocketOps -----------------------------
(***************************************************************************)
(* One WebSocket connection of src/ws/lib/websocket.js as a record, and    *)
(* the methods and listeners that change it as functions on that record.   *)
(* WebSocket runs one connection in an open environment, WsBridge joins    *)
(* two.                                                                    *)
(***************************************************************************)
EXTENDS Integers, Sequences

CONSTANT HighWater     \* unparsed frames at which receiver.write() returns false

\* The argument of close() when there is none, and the codes of the protocol:
\* 1005 is a close frame without a code, 1006 no close frame at all.
NoCode       == 0
NoStatus     == 1005
Abnormal     == 1006
ProtocolCode == 1002

(***************************************************************************)
(* validation.js isValidStatusCode                                         *)
(***************************************************************************)
IsValidStatusCode(code) ==
    \/ code \in 1000..1014 /\ code \notin {1004, NoStatus, Abnormal}
    \/ code \in 3000..4999

(***************************************************************************)
(* A frame: op "bad" is any frame the receiver refuses with a protocol     *)
(* error; comp says that its payload has to be inflated first; val is the  *)
(* message, or the status code of a close frame.                           *)
(***************************************************************************)
Frame(op, val, comp) == [op |-> op, val |-> val, comp |-> comp]

CloseFrame(code) ==
    Frame("close", IF code = NoCode THEN NoStatus ELSE code, FALSE)

(***************************************************************************)
(* The connection.                                                         *)
(*   socket      "none": _socket is null; "up"; "destroyed": destroy() was *)
(*               called and 'close' is to come; "closed": socketOnClose    *)
(*               ran                                                       *)
(*   ended       socket.end() was called                                   *)
(*   endEmitted  the socket's 'end' event was emitted                      *)
(*   receiver    "ended": end() was called with frames left to inflate     *)
(*   userPaused  _paused;  needDrain: of the receiver's _writableState     *)
(*   paused      the socket does not flow                                  *)
(*   inbuf       frames in the socket's read buffer                        *)
(*   rx          frames written to the receiver and not parsed yet         *)
(*   tx          frames handed to the sender and not written out yet       *)
(*   abort       a failed handshake: "tick" when emitErrorAndClose is on   *)
(*               the nextTick queue, "error" and then "close" for the      *)
(*               events of a destroyed stream                              *)
(***************************************************************************)
NewConnection(state, socket) ==
    [readyState |-> state, socket |-> socket,
     closeFrameSent |-> FALSE, closeFrameReceived |-> FALSE,
     closeCode |-> Abnormal, closeTimer |-> FALSE,
     ended |-> FALSE, endEmitted |-> FALSE, receiver |-> "open",
     userPaused |-> FALSE, needDrain |-> FALSE, paused |-> FALSE,
     inbuf |-> <<>>, rx |-> <<>>, tx |-> <<>>, abort |-> "no"]

FrameType == [op : {"data", "ping", "pong", "close", "bad"}, val : Nat,
              comp : BOOLEAN]

Connection ==
    [readyState : {"CONNECTING", "OPEN", "CLOSING", "CLOSED"},
     socket : {"none", "up", "destroyed", "closed"},
     closeFrameSent : BOOLEAN, closeFrameReceived : BOOLEAN,
     closeCode : Nat, closeTimer : BOOLEAN,
     ended : BOOLEAN, endEmitted : BOOLEAN,
     receiver : {"open", "ended", "finished", "errored"},
     userPaused : BOOLEAN, needDrain : BOOLEAN, paused : BOOLEAN,
     inbuf : Seq(FrameType), rx : Seq(FrameType), tx : Seq(FrameType),
     abort : {"no", "tick", "error", "close"}]

\* `new WebSocket(url)`, after initAsClient() sent the request.
Connecting == NewConnection("CONNECTING", "none")

\* setSocket(), for the server side called by completeUpgrade().
SetSocket(w) == [w EXCEPT !.readyState = "OPEN", !.socket = "up"]

Accepted == SetSocket(NewConnection("CONNECTING", "none"))

Errored(w) == w.receiver = "errored"

\* Is socketOnData still a listener of the socket?
Listening(w) == w.socket = "up" /\ ~w.closeFrameReceived /\ ~Errored(w)

-----------------------------------------------------------------------------
(***************************************************************************)
(* Methods                                                                 *)
(***************************************************************************)

\* sender.close() refuses the code: an exception leaves close() half-way.
CloseThrows(w, code) ==
    w.readyState = "OPEN" /\ code # NoCode /\ ~IsValidStatusCode(code)

\* abortHandshake(websocket, websocket._req)
AbortRequest(w) == [w EXCEPT !.readyState = "CLOSING", !.abort = "tick"]

\* Mutant of Close: no close timer.
CloseUntimed(w, code) ==
    CASE w.readyState = "CONNECTING" -> AbortRequest(w)
      [] w.readyState = "OPEN" ->
            IF CloseThrows(w, code)
            THEN [w EXCEPT !.readyState = "CLOSING"]
            ELSE [w EXCEPT !.readyState = "CLOSING", !.tx = Append(@, CloseFrame(code))]
      [] w.readyState = "CLOSING" ->
            [w EXCEPT !.ended = @ \/ (/\ w.closeFrameSent
                                      /\ w.closeFrameReceived \/ Errored(w))]
      [] w.readyState = "CLOSED" -> w

Close(w, code) ==
    CASE w.readyState = "CONNECTING" -> AbortRequest(w)
      [] w.readyState = "OPEN" ->
            IF CloseThrows(w, code)
            THEN [w EXCEPT !.readyState = "CLOSING"]
            ELSE [w EXCEPT !.readyState = "CLOSING", !.closeTimer = TRUE,
                           !.tx = Append(@, CloseFrame(code))]
      [] w.readyState = "CLOSING" ->
            [w EXCEPT !.ended = @ \/ (/\ w.closeFrameSent
                                      /\ w.closeFrameReceived \/ Errored(w))]
      [] w.readyState = "CLOSED" -> w

\* Mutant of SendFrame: no test of readyState.
SendFrameAnyway(w, f) == [w EXCEPT !.tx = Append(@, f)]

\* send(), ping() and pong(); sendAfterClose() drops the data.
SendFrame(w, f) ==
    IF w.readyState = "OPEN" THEN [w EXCEPT !.tx = Append(@, f)] ELSE w

Terminate(w) ==
    CASE w.readyState = "CONNECTING" -> AbortRequest(w)
      [] w.socket = "up" ->
            [w EXCEPT !.readyState = "CLOSING", !.socket = "destroyed", !.tx = <<>>]
      [] OTHER -> w

Pause(w) ==
    IF w.readyState \in {"CONNECTING", "CLOSED"} THEN w
    ELSE [w EXCEPT !.userPaused = TRUE, !.paused = TRUE]

\* Mutant of Resume: a full receiver is not asked.
ResumeAtOnce(w) ==
    IF w.readyState \in {"CONNECTING", "CLOSED"} THEN w
    ELSE [w EXCEPT !.userPaused = FALSE, !.paused = FALSE]

Resume(w) ==
    IF w.readyState \in {"CONNECTING", "CLOSED"} THEN w
    ELSE [w EXCEPT !.userPaused = FALSE,
                   !.paused = IF w.needDrain THEN @ ELSE FALSE]

-----------------------------------------------------------------------------
(***************************************************************************)
(* The opening handshake of a client                                       *)
(***************************************************************************)

\* The 'upgrade' listener, with an answer that passes the checks; the 'upgrade'
\* event it emits first may have closed the connection.
Upgraded(w) == IF w.readyState = "CONNECTING" THEN SetSocket(w) ELSE w

\* abortHandshake(websocket, socket): the answer failed a check.
UpgradeRefused(w) ==
    IF w.readyState = "CONNECTING"
    THEN [w EXCEPT !.readyState = "CLOSING", !.abort = "error"] ELSE w

\* emitErrorAndClose() and emitClose() while _socket is null.
HandshakeClosed(w) == [w EXCEPT !.readyState = "CLOSED", !.abort = "no"]

-----------------------------------------------------------------------------
(***************************************************************************)
(* Listeners of the socket                                                 *)
(***************************************************************************)

\* socketOnData: write the frame to the receiver, pause when it is full.
SocketOnData(w, f) ==
    LET full == Len(w.rx) + 1 >= HighWater
    IN  [w EXCEPT !.rx = Append(@, f), !.needDrain = @ \/ full,
                  !.paused = @ \/ full]

\* A frame read from the network: kept back by a paused socket, and dropped
\* when nothing listens any more.
Arrive(w, f) ==
    IF ~Listening(w) THEN w
    ELSE IF w.paused \/ w.inbuf # <<>> THEN [w EXCEPT !.inbuf = Append(@, f)]
    ELSE SocketOnData(w, f)

\* A resumed socket gives its buffer out, chunk by chunk, unless paused again.
CanFlow(w) == Listening(w) /\ ~w.paused /\ w.inbuf # <<>>

FlowOne(w) == SocketOnData([w EXCEPT !.inbuf = Tail(@)], Head(w.inbuf))

\* receiver.end(): it finishes once what was written is parsed.
EndReceiver(w) ==
    [w EXCEPT !.receiver = IF @ # "open" THEN @
                           ELSE IF w.rx = <<>> THEN "finished" ELSE "ended"]

SocketOnEnd(w) ==
    EndReceiver([w EXCEPT !.readyState = "CLOSING", !.ended = TRUE,
                          !.endEmitted = TRUE])

\* The kernel destroys the socket with an error.
SocketOnError(w) ==
    [w EXCEPT !.readyState = "CLOSING", !.socket = "destroyed", !.tx = <<>>]

\* The close timer: socket.destroy().
CloseTimeout(w) ==
    [w EXCEPT !.closeTimer = FALSE, !.socket = "destroyed", !.tx = <<>>]

\* The socket emits 'close' when it was destroyed, or when both of its
\* directions have ended.
MayEmitClose(w) ==
    \/ w.socket = "destroyed"
    \/ w.socket = "up" /\ w.ended /\ w.endEmitted /\ w.tx = <<>>

\* Mutant of SocketOnClose: the socket's read buffer is not read.
SocketOnCloseNoRead(w) ==
    EndReceiver([w EXCEPT !.readyState = "CLOSING", !.socket = "closed",
                          !.closeTimer = FALSE, !.tx = <<>>, !.inbuf = <<>>])

SocketOnClose(w) ==
    LET rest == IF w.endEmitted \/ w.closeFrameReceived \/ Errored(w)
                THEN <<>> ELSE w.inbuf
    IN  EndReceiver([w EXCEPT !.readyState = "CLOSING", !.socket = "closed",
                              !.closeTimer = FALSE, !.tx = <<>>,
                              !.rx = @ \o rest, !.inbuf = <<>>])

\* Mutant of MayFinish: several callers of emitClose() get through.
MayFinishAgain(w) ==
    /\ w.socket = "closed"
    /\ w.receiver \in {"finished", "errored"}

\* emitClose(), called by socketOnClose or by receiverOnFinish.
MayFinish(w) ==
    /\ w.socket = "closed"
    /\ w.receiver \in {"finished", "errored"}
    /\ w.readyState # "CLOSED"

EmitClose(w) == [w EXCEPT !.readyState = "CLOSED"]

\* The first frame of tx is written out; the callback of a close frame.
Written(w) ==
    LET v == [w EXCEPT !.tx = Tail(@)]
    IN  IF Head(w.tx).op # "close" THEN v
        ELSE [v EXCEPT !.closeFrameSent = TRUE,
                       !.ended = @ \/ w.closeFrameReceived \/ Errored(w)]

-----------------------------------------------------------------------------
(***************************************************************************)
(* Listeners of the receiver, for the first frame of rx                    *)
(***************************************************************************)

\* Mutant of Parsed: an ended receiver that drains does not finish.
ParsedNeverFinishes(w) ==
    LET v == [w EXCEPT !.rx = Tail(@)]
    IN  IF v.rx = <<>> /\ w.needDrain
        THEN [v EXCEPT !.needDrain = FALSE, !.paused = IF w.userPaused THEN @ ELSE FALSE]
        ELSE v

\* The frame is parsed: a drained receiver resumes the socket (receiverOnDrain)
\* and an ended one finishes.
Parsed(w) ==
    LET v == [w EXCEPT !.rx = Tail(@)]
    IN  IF v.rx # <<>> THEN v
        ELSE IF w.receiver = "ended" THEN [v EXCEPT !.receiver = "finished"]
        ELSE IF w.needDrain
             THEN [v EXCEPT !.needDrain = FALSE,
                            !.paused = IF w.userPaused THEN @ ELSE FALSE]
             ELSE v

\* receiverOnPing: the connection answers by itself.
ReceiverOnPing(w) == SendFrame(Parsed(w), Frame("pong", Head(w.rx).val, FALSE))

\* What both listeners below do first: no more data, and let the socket flow.
StopListening(w) == [w EXCEPT !.inbuf = <<>>, !.paused = FALSE]

\* Mutant of ReceiverOnConclude: the close frame is not answered.
ReceiverOnConcludeSilently(w) ==
    LET v == [w EXCEPT !.closeFrameReceived = TRUE, !.closeCode = Head(w.rx).val,
                       !.receiver = "finished", !.rx = <<>>]
    IN  IF w.socket = "closed" THEN v
        ELSE [StopListening(v) EXCEPT !.readyState = "CLOSING", !.closeTimer = TRUE]

\* receiverOnConclude; the receiver ends itself and ignores what follows.
ReceiverOnConclude(w) ==
    LET code == Head(w.rx).val
        v    == [w EXCEPT !.closeFrameReceived = TRUE, !.closeCode = code,
                          !.receiver = "finished", !.rx = <<>>]
    IN  IF w.socket = "closed" THEN v
        ELSE Close(StopListening(v), IF code = NoStatus THEN NoCode ELSE code)

\* receiverOnError, before it emits 'error'.  The code stands for 1002, 1007 and 1009:
\* all of them may be sent, and nothing here tells them apart.
ReceiverOnError(w) ==
    LET v == [w EXCEPT !.receiver = "errored", !.rx = <<>>]
    IN  IF w.socket = "closed" THEN v
        ELSE Close(StopListening(v), ProtocolCode)

\* The parsing loop goes on by itself unless the frame has to be inflated.
CanParse(w) == w.rx # <<>> /\ ~Head(w.rx).comp

Inflating(w) == w.rx # <<>> /\ Head(w.rx).comp

\* Does the connection still have work in the current turn of the event loop?
\* Nothing else happens before it is done.
Busy(w) ==
    \/ CanParse(w)
    \/ CanFlow(w)
    \/ MayFinish(w)
    \/ w.abort \in {"tick", "error"}
=============================================================================
