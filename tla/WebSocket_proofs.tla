--------------------------- MODULE WebSocket_proofs ---------------------------
(***************************************************************************)
(* Proofs about WebSocket: its types, the life of a connection, the place  *)
(* of its close frames, pausing, and that it implements WebSocketLife, for *)
(* every set of codes, every number of frames and every high water mark.   *)
(*                                                                         *)
(* A lemma per method and listener of WebSocketOps says that it keeps the  *)
(* life of the connection (Keeps), and a second one that it keeps its      *)
(* input in order (Upholds); a step of WebSocket then needs only to name   *)
(* the functions it applies.  The first invariant, IInv, is about what is  *)
(* written and closed; the second, StreamInv, adds what is read.           *)
(***************************************************************************)
EXTENDS WebSocket, SequenceTheorems, TLAPS

\* A frame from the peer: its close frames carry a code that may be sent, or none.
PeerFrame ==
    {f \in FrameType : f.op = "close" => f.val = NoStatus \/ IsValidStatusCode(f.val)}

Typed(v) ==
    /\ v \in Connection
    /\ v.rx \in Seq(PeerFrame)
    /\ v.inbuf \in Seq(PeerFrame)

\* What a connection keeps all its life, besides its types.
Life(v) ==
    /\ v.readyState = "CONNECTING" => v.socket = "none" /\ v.abort = "no"
    /\ v.readyState = "OPEN" => v.socket = "up"
    /\ v.readyState = "CLOSED" => v.socket \in {"none", "closed"} /\ v.abort = "no"
    /\ v.abort # "no" => v.readyState = "CLOSING" /\ v.socket = "none"
    /\ v.socket = "none" => v.rx = <<>>
    /\ v.readyState = "CLOSING" /\ v.socket = "up" => v.closeTimer \/ v.endEmitted
    /\ v.closeTimer => v.readyState \in {"CLOSING", "CLOSED"}

Onward(v, u) == Rank[u.readyState] >= Rank[v.readyState]

\* The frames to be written out change in three ways only.
Sends(v, u) ==
    \/ u.tx = v.tx
    \/ u.tx = <<>>
    \/ /\ v.readyState = "OPEN"
       /\ \E f \in FrameType : /\ u.tx = Append(v.tx, f)
                               /\ f.op = "close" => u.readyState # "OPEN"

\* v becomes u, and does not become CLOSED.
Keeps(v, u) ==
    /\ Typed(u)
    /\ Life(u)
    /\ Onward(v, u)
    /\ Sends(v, u)
    /\ u.readyState = "CLOSED" => v.readyState = "CLOSED"

-----------------------------------------------------------------------------
(***************************************************************************)
(* The methods and listeners                                               *)
(***************************************************************************)

LEMMA RanksAreNumbers ==
    /\ Rank["CONNECTING"] = 0 /\ Rank["OPEN"] = 1
    /\ Rank["CLOSING"] = 2 /\ Rank["CLOSED"] = 3
BY DEF Rank

\* What follows from unchanged fields.
LEMMA SameState ==
    ASSUME NEW v, NEW u, Typed(v), u.readyState = v.readyState, u.tx = v.tx
    PROVE  Onward(v, u) /\ Sends(v, u) /\ (u.readyState = "CLOSED" => v.readyState = "CLOSED")
<1>1. v.readyState \in {"CONNECTING", "OPEN", "CLOSING", "CLOSED"}
  BY DEF Typed, Connection
<1>2. QED
  BY <1>1, RanksAreNumbers DEF Onward, Sends

\* A second function applied to a connection whose state and tx are those of v.
LEMMA KeepsThrough ==
    ASSUME NEW v, NEW m, NEW u, m.readyState = v.readyState, m.tx = v.tx, Keeps(m, u)
    PROVE  Keeps(v, u)
BY DEF Keeps, Onward, Sends

LEMMA CloseKeeps ==
    ASSUME NEW v, Typed(v), Life(v), NEW code \in Nat,
           code = NoCode \/ IsValidStatusCode(code)
    PROVE  Keeps(v, Close(v, code))
<1>1. CASE v.readyState = "CONNECTING"
  <2> DEFINE u == [v EXCEPT !.readyState = "CLOSING", !.abort = "tick"]
  <2>1. Close(v, code) = u
    BY <1>1 DEF Close, AbortRequest
  <2>2. Typed(u)
    BY DEF Typed, Connection
  <2>3. Life(u)
    BY <1>1 DEF Typed, Connection, Life
  <2>4. Onward(v, u) /\ Sends(v, u) /\ u.readyState # "CLOSED"
    BY <1>1, RanksAreNumbers DEF Typed, Connection, Onward, Sends
  <2>5. QED
    BY <2>1, <2>2, <2>3, <2>4 DEF Keeps
<1>2. CASE v.readyState = "OPEN"
  <2> DEFINE f == CloseFrame(code)
             u == [v EXCEPT !.readyState = "CLOSING", !.closeTimer = TRUE,
                            !.tx = Append(@, f)]
  <2>1. Close(v, code) = u
    BY <1>2 DEF Close, CloseThrows
  <2>2. f \in FrameType
    BY DEF CloseFrame, Frame, FrameType, NoStatus
  <2> HIDE DEF f
  <2>3. Append(v.tx, f) \in Seq(FrameType)
    BY <2>2, AppendProperties DEF Typed, Connection
  <2>4. Typed(u)
    BY <2>3 DEF Typed, Connection
  <2>5. Life(u)
    BY <1>2 DEF Typed, Connection, Life
  <2>6. Onward(v, u) /\ u.readyState = "CLOSING" /\ u.tx = Append(v.tx, f)
    BY <1>2, RanksAreNumbers DEF Typed, Connection, Onward
  <2>7. Sends(v, u)
    BY <1>2, <2>2, <2>6 DEF Sends
  <2>8. QED
    BY <2>1, <2>4, <2>5, <2>6, <2>7 DEF Keeps
<1>3. CASE v.readyState = "CLOSING"
  <2> DEFINE u == Close(v, code)
  <2>1. u = [v EXCEPT !.ended = @ \/ (/\ v.closeFrameSent
                                      /\ v.closeFrameReceived \/ Errored(v))]
    BY <1>3 DEF Close
  <2>2. Typed(u)
    BY <2>1 DEF Typed, Connection, Errored
  <2>3. Life(u)
    BY <2>1 DEF Typed, Connection, Life
  <2>4. u.readyState = v.readyState /\ u.tx = v.tx
    BY <2>1 DEF Typed, Connection
  <2> HIDE DEF u
  <2>5. Onward(v, u) /\ Sends(v, u) /\ (u.readyState = "CLOSED" => v.readyState = "CLOSED")
    BY <2>4, SameState
  <2>6. QED
    BY <2>2, <2>3, <2>5 DEF Keeps, u
<1>4. CASE v.readyState = "CLOSED"
  <2>1. Close(v, code) = v
    BY <1>4 DEF Close
  <2>2. QED
    BY <2>1, SameState DEF Keeps
<1>5. QED
  BY <1>1, <1>2, <1>3, <1>4 DEF Typed, Connection

LEMMA SendFrameKeeps ==
    ASSUME NEW v, Typed(v), Life(v), NEW f \in FrameType, f.op # "close"
    PROVE  Keeps(v, SendFrame(v, f))
<1>1. CASE v.readyState = "OPEN"
  <2> DEFINE u == [v EXCEPT !.tx = Append(@, f)]
  <2>1. SendFrame(v, f) = u
    BY <1>1 DEF SendFrame
  <2>2. Append(v.tx, f) \in Seq(FrameType)
    BY AppendProperties DEF Typed, Connection
  <2>3. Typed(u)
    BY <2>2 DEF Typed, Connection
  <2>4. Life(u)
    BY DEF Typed, Connection, Life
  <2>5. u.readyState = "OPEN" /\ u.tx = Append(v.tx, f)
    BY <1>1 DEF Typed, Connection
  <2>6. Onward(v, u) /\ Sends(v, u)
    BY <1>1, <2>5, RanksAreNumbers DEF Onward, Sends
  <2>7. QED
    BY <2>1, <2>3, <2>4, <2>5, <2>6 DEF Keeps
<1>2. CASE v.readyState # "OPEN"
  <2>1. SendFrame(v, f) = v
    BY <1>2 DEF SendFrame
  <2>2. QED
    BY <2>1, SameState DEF Keeps
<1>3. QED
  BY <1>1, <1>2

LEMMA TerminateKeeps ==
    ASSUME NEW v, Typed(v), Life(v)
    PROVE  Keeps(v, Terminate(v))
<1>1. CASE v.readyState = "CONNECTING"
  <2> DEFINE u == [v EXCEPT !.readyState = "CLOSING", !.abort = "tick"]
  <2>1. Terminate(v) = u
    BY <1>1 DEF Terminate, AbortRequest, Life
  <2>2. Typed(u) /\ Life(u)
    BY <1>1 DEF Typed, Connection, Life
  <2>3. Onward(v, u) /\ Sends(v, u) /\ u.readyState # "CLOSED"
    BY <1>1, RanksAreNumbers DEF Typed, Connection, Onward, Sends
  <2>4. QED
    BY <2>1, <2>2, <2>3 DEF Keeps
<1>2. CASE v.readyState # "CONNECTING" /\ v.socket = "up"
  <2> DEFINE u == [v EXCEPT !.readyState = "CLOSING", !.socket = "destroyed", !.tx = <<>>]
  <2>1. Terminate(v) = u
    BY <1>2 DEF Terminate
  <2>2. Typed(u) /\ Life(u)
    BY <1>2, EmptySeq DEF Typed, Connection, Life
  <2>3. Onward(v, u) /\ Sends(v, u) /\ u.readyState # "CLOSED"
    BY <1>2, RanksAreNumbers DEF Typed, Connection, Life, Onward, Sends
  <2>4. QED
    BY <2>1, <2>2, <2>3 DEF Keeps
<1>3. CASE v.readyState # "CONNECTING" /\ v.socket # "up"
  <2>1. Terminate(v) = v
    BY <1>3 DEF Terminate
  <2>2. QED
    BY <2>1, SameState DEF Keeps
<1>4. QED
  BY <1>1, <1>2, <1>3

LEMMA PauseKeeps ==
    ASSUME NEW v, Typed(v), Life(v), NEW b \in BOOLEAN, NEW p \in BOOLEAN
    PROVE  Keeps(v, [v EXCEPT !.userPaused = b, !.paused = p])
<1> DEFINE u == [v EXCEPT !.userPaused = b, !.paused = p]
<1>1. Typed(u) /\ Life(u) /\ u.readyState = v.readyState /\ u.tx = v.tx
  BY ZenonT(40) DEF Typed, Connection, Life
<1>2. QED
  BY <1>1, SameState DEF Keeps

LEMMA PauseResumeKeep ==
    ASSUME NEW v, Typed(v), Life(v)
    PROVE  Keeps(v, Pause(v)) /\ Keeps(v, Resume(v))
<1>1. Keeps(v, v)
  BY SameState DEF Keeps
<1>2. Keeps(v, Pause(v))
  BY <1>1, PauseKeeps DEF Pause
<1>3. Keeps(v, Resume(v))
  <2> DEFINE p == IF v.needDrain THEN v.paused ELSE FALSE
  <2>1. p \in BOOLEAN
    BY DEF Typed, Connection
  <2>2. Resume(v) = v \/ Resume(v) = [v EXCEPT !.userPaused = FALSE, !.paused = p]
    BY DEF Resume
  <2>3. QED
    BY <1>1, <2>1, <2>2, PauseKeeps
<1>4. QED
  BY <1>2, <1>3

LEMMA UpgradedKeeps ==
    ASSUME NEW v, Typed(v), Life(v)
    PROVE  Keeps(v, Upgraded(v)) /\ Keeps(v, UpgradeRefused(v))
<1>1. CASE v.readyState = "CONNECTING"
  <2> DEFINE u == [v EXCEPT !.readyState = "OPEN", !.socket = "up"]
             r == [v EXCEPT !.readyState = "CLOSING", !.abort = "error"]
  <2>1. Upgraded(v) = u /\ UpgradeRefused(v) = r
    BY <1>1 DEF Upgraded, UpgradeRefused, SetSocket
  <2>2. Typed(u) /\ Life(u) /\ Typed(r) /\ Life(r)
    BY <1>1 DEF Typed, Connection, Life
  <2>3. /\ Onward(v, u) /\ Sends(v, u) /\ u.readyState # "CLOSED"
        /\ Onward(v, r) /\ Sends(v, r) /\ r.readyState # "CLOSED"
    BY <1>1, RanksAreNumbers DEF Typed, Connection, Onward, Sends
  <2>4. QED
    BY <2>1, <2>2, <2>3 DEF Keeps
<1>2. CASE v.readyState # "CONNECTING"
  <2>1. Upgraded(v) = v /\ UpgradeRefused(v) = v
    BY <1>2 DEF Upgraded, UpgradeRefused
  <2>2. QED
    BY <2>1, SameState DEF Keeps
<1>3. QED
  BY <1>1, <1>2

-----------------------------------------------------------------------------

\* The socket's and the receiver's buffers change, the life does not.
LEMMA BuffersKeep ==
    ASSUME NEW v, Typed(v), Life(v), v.socket # "none",
           NEW rx \in Seq(PeerFrame), NEW inbuf \in Seq(PeerFrame),
           NEW drain \in BOOLEAN, NEW p \in BOOLEAN,
           NEW u, u = [v EXCEPT !.rx = rx, !.inbuf = inbuf, !.needDrain = drain, !.paused = p]
    PROVE  Keeps(v, u)
<1>1. Seq(PeerFrame) \subseteq Seq(FrameType)
  BY DEF PeerFrame
<1>2. Typed(u) /\ Life(u) /\ u.readyState = v.readyState /\ u.tx = v.tx
  BY ZenonT(40), <1>1 DEF Typed, Connection, Life
<1>3. QED
  BY <1>2, SameState DEF Keeps

LEMMA SocketOnDataKeeps ==
    ASSUME NEW v, Typed(v), Life(v), v.socket # "none", NEW f \in PeerFrame
    PROVE  Keeps(v, SocketOnData(v, f))
<1> DEFINE full == Len(v.rx) + 1 >= HighWater
<1>1. full \in BOOLEAN
  OBVIOUS
<1> HIDE DEF full
<1>2. SocketOnData(v, f) = [v EXCEPT !.rx = Append(@, f), !.needDrain = @ \/ full,
                                     !.paused = @ \/ full]
  BY DEF SocketOnData, full
<1> DEFINE rx == Append(v.rx, f)
           drain == v.needDrain \/ full
           p == v.paused \/ full
<1>3. rx \in Seq(PeerFrame) /\ v.inbuf \in Seq(PeerFrame)
  BY AppendProperties DEF Typed
<1>4. drain \in BOOLEAN /\ p \in BOOLEAN
  BY <1>1
<1>5. SocketOnData(v, f) = [v EXCEPT !.rx = rx, !.inbuf = v.inbuf,
                                     !.needDrain = drain, !.paused = p]
  BY ZenonT(40), <1>2 DEF Typed, Connection
<1> HIDE DEF rx, drain, p
<1>6. QED
  BY <1>3, <1>4, <1>5, BuffersKeep

LEMMA ArriveKeeps ==
    ASSUME NEW v, Typed(v), Life(v), NEW f \in PeerFrame
    PROVE  Keeps(v, Arrive(v, f))
<1>1. CASE ~Listening(v)
  <2>1. Arrive(v, f) = v
    BY <1>1 DEF Arrive
  <2>2. QED
    BY <2>1, SameState DEF Keeps
<1>2. CASE Listening(v) /\ (v.paused \/ v.inbuf # <<>>)
  <2> DEFINE inbuf == Append(v.inbuf, f)
  <2>1. inbuf \in Seq(PeerFrame) /\ v.rx \in Seq(PeerFrame)
    BY AppendProperties DEF Typed
  <2>2. Arrive(v, f) = [v EXCEPT !.rx = v.rx, !.inbuf = inbuf,
                                 !.needDrain = v.needDrain, !.paused = v.paused]
    BY <1>2 DEF Arrive, Typed, Connection
  <2>3. v.socket # "none" /\ v.needDrain \in BOOLEAN /\ v.paused \in BOOLEAN
    BY <1>2 DEF Listening, Typed, Connection
  <2> HIDE DEF inbuf
  <2>4. QED
    BY <2>1, <2>2, <2>3, BuffersKeep
<1>3. CASE Listening(v) /\ ~(v.paused \/ v.inbuf # <<>>)
  <2>1. Arrive(v, f) = SocketOnData(v, f) /\ v.socket # "none"
    BY <1>3 DEF Arrive, Listening
  <2>2. QED
    BY <2>1, SocketOnDataKeeps
<1>4. QED
  BY <1>1, <1>2, <1>3

LEMMA FlowOneKeeps ==
    ASSUME NEW v, Typed(v), Life(v), CanFlow(v)
    PROVE  Keeps(v, FlowOne(v))
<1> DEFINE m == [v EXCEPT !.inbuf = Tail(@)]
           f == Head(v.inbuf)
<1>1. v.socket = "up" /\ v.inbuf # <<>> /\ v.inbuf \in Seq(PeerFrame)
  BY DEF CanFlow, Listening, Typed
<1>2. f \in PeerFrame /\ Tail(v.inbuf) \in Seq(PeerFrame) /\ Tail(v.inbuf) \in Seq(FrameType)
  <2>1. f \in PeerFrame /\ Tail(v.inbuf) \in Seq(PeerFrame)
    BY <1>1, HeadTailProperties
  <2>2. Seq(PeerFrame) \subseteq Seq(FrameType)
    BY DEF PeerFrame
  <2>3. QED
    BY <2>1, <2>2
<1>3. Typed(m) /\ Life(m) /\ m.socket # "none" /\ m.readyState = v.readyState /\ m.tx = v.tx
  BY <1>1, <1>2 DEF Typed, Connection, Life
<1>4. FlowOne(v) = SocketOnData(m, f)
  BY DEF FlowOne
<1> HIDE DEF m, f
<1>5. Keeps(m, SocketOnData(m, f))
  BY <1>2, <1>3, SocketOnDataKeeps
<1>6. QED
  BY <1>3, <1>4, <1>5, KeepsThrough

LEMMA EndReceiverKeeps ==
    ASSUME NEW v, Typed(v), Life(v)
    PROVE  Keeps(v, EndReceiver(v))
<1> DEFINE r == IF v.receiver # "open" THEN v.receiver
                ELSE IF v.rx = <<>> THEN "finished" ELSE "ended"
           u == [v EXCEPT !.receiver = r]
<1>1. r \in {"open", "ended", "finished", "errored"}
  BY DEF Typed, Connection
<1>2. EndReceiver(v) = u
  BY DEF EndReceiver
<1> HIDE DEF r
<1>3. Typed(u) /\ Life(u) /\ u.readyState = v.readyState /\ u.tx = v.tx
  BY ZenonT(40), <1>1 DEF Typed, Connection, Life
<1>4. QED
  BY <1>2, <1>3, SameState DEF Keeps

LEMMA SocketOnEndKeeps ==
    ASSUME NEW v, Typed(v), Life(v), v.socket = "up"
    PROVE  Keeps(v, SocketOnEnd(v))
<1> DEFINE m == [v EXCEPT !.readyState = "CLOSING", !.ended = TRUE, !.endEmitted = TRUE]
<1>1. v.readyState \in {"OPEN", "CLOSING"}
  BY DEF Typed, Connection, Life
<1>2. Typed(m) /\ Life(m) /\ m.readyState = "CLOSING" /\ m.tx = v.tx
  BY DEF Typed, Connection, Life
<1>3. SocketOnEnd(v) = EndReceiver(m)
  BY DEF SocketOnEnd
<1> HIDE DEF m
<1>4. Keeps(m, EndReceiver(m))
  BY <1>2, EndReceiverKeeps
<1>5. EndReceiver(m).readyState = "CLOSING" /\ EndReceiver(m).tx = v.tx
  BY <1>2 DEF EndReceiver, Typed, Connection
<1>6. QED
  BY <1>1, <1>3, <1>4, <1>5, RanksAreNumbers DEF Keeps, Onward, Sends

LEMMA DestroyKeeps ==
    ASSUME NEW v, Typed(v), Life(v), v.socket = "up"
    PROVE  /\ Keeps(v, SocketOnError(v))
           /\ v.closeTimer => Keeps(v, CloseTimeout(v))
<1>1. v.readyState \in {"OPEN", "CLOSING"}
  BY DEF Typed, Connection, Life
<1>2. Keeps(v, SocketOnError(v))
  <2> DEFINE u == [v EXCEPT !.readyState = "CLOSING", !.socket = "destroyed", !.tx = <<>>]
  <2>1. SocketOnError(v) = u
    BY DEF SocketOnError
  <2>2. Typed(u) /\ Life(u) /\ u.readyState = "CLOSING" /\ u.tx = <<>>
    BY <1>1, EmptySeq DEF Typed, Connection, Life
  <2>3. QED
    BY <1>1, <2>1, <2>2, RanksAreNumbers DEF Keeps, Onward, Sends
<1>3. ASSUME v.closeTimer PROVE Keeps(v, CloseTimeout(v))
  <2> DEFINE u == [v EXCEPT !.closeTimer = FALSE, !.socket = "destroyed", !.tx = <<>>]
  <2>1. CloseTimeout(v) = u
    BY DEF CloseTimeout
  <2>2. Typed(u) /\ Life(u) /\ u.readyState = v.readyState /\ u.tx = <<>>
    BY <1>1, <1>3, EmptySeq DEF Typed, Connection, Life
  <2>3. QED
    BY <1>1, <2>1, <2>2, RanksAreNumbers DEF Keeps, Onward, Sends
<1>4. QED
  BY <1>2, <1>3

LEMMA SocketOnCloseKeeps ==
    ASSUME NEW v, Typed(v), Life(v), MayEmitClose(v), v.readyState # "CLOSED"
    PROVE  Keeps(v, SocketOnClose(v))
<1> DEFINE rest == IF v.endEmitted \/ v.closeFrameReceived \/ Errored(v) THEN <<>> ELSE v.inbuf
           m == [v EXCEPT !.readyState = "CLOSING", !.socket = "closed",
                          !.closeTimer = FALSE, !.tx = <<>>,
                          !.rx = @ \o rest, !.inbuf = <<>>]
<1>1. v.readyState \in {"OPEN", "CLOSING"} /\ v.abort = "no"
  BY DEF Typed, Connection, Life, MayEmitClose
<1>2. rest \in Seq(PeerFrame)
  BY EmptySeq DEF Typed
<1>3. v.rx \o rest \in Seq(PeerFrame) /\ v.rx \o rest \in Seq(FrameType)
  <2>1. v.rx \o rest \in Seq(PeerFrame)
    BY <1>2, ConcatProperties DEF Typed
  <2>2. Seq(PeerFrame) \subseteq Seq(FrameType)
    BY DEF PeerFrame
  <2>3. QED
    BY <2>1, <2>2
<1>4. SocketOnClose(v) = EndReceiver(m)
  BY DEF SocketOnClose
<1> HIDE DEF rest
<1>5. Typed(m) /\ Life(m) /\ m.readyState = "CLOSING" /\ m.tx = <<>>
  BY ZenonT(40), <1>1, <1>3, EmptySeq DEF Typed, Connection, Life
<1> HIDE DEF m
<1>6. Keeps(m, EndReceiver(m))
  BY <1>5, EndReceiverKeeps
<1>7. EndReceiver(m).readyState = "CLOSING" /\ EndReceiver(m).tx = <<>>
  BY <1>5 DEF EndReceiver, Typed, Connection
<1>8. QED
  BY <1>1, <1>4, <1>6, <1>7, RanksAreNumbers DEF Keeps, Onward, Sends

-----------------------------------------------------------------------------

LEMMA FirstFrame ==
    ASSUME NEW v, Typed(v), Life(v), v.rx # <<>>
    PROVE  /\ Head(v.rx) \in PeerFrame
           /\ Tail(v.rx) \in Seq(PeerFrame) /\ Tail(v.rx) \in Seq(FrameType)
           /\ v.socket # "none"
<1>1. Head(v.rx) \in PeerFrame /\ Tail(v.rx) \in Seq(PeerFrame)
  BY HeadTailProperties DEF Typed
<1>2. Seq(PeerFrame) \subseteq Seq(FrameType)
  BY DEF PeerFrame
<1>3. QED
  BY <1>1, <1>2 DEF Life

LEMMA ParsedKeeps ==
    ASSUME NEW v, Typed(v), Life(v), v.rx # <<>>
    PROVE  /\ Keeps(v, Parsed(v))
           /\ Parsed(v).readyState = v.readyState /\ Parsed(v).tx = v.tx
<1> DEFINE m == [v EXCEPT !.rx = Tail(@)]
<1>1. Typed(m) /\ Life(m) /\ m.readyState = v.readyState /\ m.tx = v.tx /\ m.socket # "none"
  BY FirstFrame DEF Typed, Connection, Life
<1>2. \/ Parsed(v) = m
      \/ Parsed(v) = [m EXCEPT !.receiver = "finished"]
      \/ Parsed(v) = [m EXCEPT !.needDrain = FALSE,
                               !.paused = IF v.userPaused THEN @ ELSE FALSE]
  BY DEF Parsed
<1> HIDE DEF m
<1>3. CASE Parsed(v) = m
  BY <1>1, <1>3, SameState DEF Keeps
<1>4. CASE Parsed(v) = [m EXCEPT !.receiver = "finished"]
  <2>1. /\ Typed(Parsed(v)) /\ Life(Parsed(v))
        /\ Parsed(v).readyState = v.readyState /\ Parsed(v).tx = v.tx
    BY ZenonT(40), <1>1, <1>4 DEF Typed, Connection, Life
  <2>2. QED
    BY <2>1, SameState DEF Keeps
<1>5. CASE Parsed(v) = [m EXCEPT !.needDrain = FALSE,
                                 !.paused = IF v.userPaused THEN @ ELSE FALSE]
  <2> DEFINE p == IF v.userPaused THEN m.paused ELSE FALSE
  <2>1. p \in BOOLEAN
    BY <1>1 DEF Typed, Connection
  <2>2. Parsed(v) = [m EXCEPT !.rx = m.rx, !.inbuf = m.inbuf,
                              !.needDrain = FALSE, !.paused = p]
    BY ZenonT(40), <1>1, <1>5 DEF Typed, Connection
  <2> HIDE DEF p
  <2>3. Parsed(v).readyState = m.readyState /\ Parsed(v).tx = m.tx
    BY <1>1, <2>2 DEF Typed, Connection
  <2>4. m.rx \in Seq(PeerFrame) /\ m.inbuf \in Seq(PeerFrame)
    BY <1>1 DEF Typed
  <2>5. Keeps(m, Parsed(v))
    BY <1>1, <2>1, <2>2, <2>4, BuffersKeep
  <2>6. QED
    BY <1>1, <2>3, <2>5, KeepsThrough
<1>6. QED
  BY <1>2, <1>3, <1>4, <1>5

LEMMA ReceiverOnPingKeeps ==
    ASSUME NEW v, Typed(v), Life(v), v.rx # <<>>
    PROVE  Keeps(v, ReceiverOnPing(v))
<1> DEFINE f == Frame("pong", Head(v.rx).val, FALSE)
<1>1. f \in FrameType /\ f.op = "pong"
  BY FirstFrame DEF Frame, FrameType, PeerFrame
<1>2. ReceiverOnPing(v) = SendFrame(Parsed(v), f)
  BY DEF ReceiverOnPing
<1>3. /\ Typed(Parsed(v)) /\ Life(Parsed(v))
      /\ Parsed(v).readyState = v.readyState /\ Parsed(v).tx = v.tx
  BY ParsedKeeps DEF Keeps
<1> HIDE DEF f
<1>4. Keeps(Parsed(v), SendFrame(Parsed(v), f))
  BY <1>1, <1>3, SendFrameKeeps
<1>5. QED
  BY <1>2, <1>3, <1>4, KeepsThrough

\* receiverOnConclude and receiverOnError share their shape: the receiver stops,
\* and unless the socket is gone the connection closes.
LEMMA StopKeeps ==
    ASSUME NEW v, NEW m, Typed(m), Life(m), m.readyState = v.readyState, m.tx = v.tx,
           NEW code \in Nat, code = NoCode \/ IsValidStatusCode(code)
    PROVE  Keeps(v, Close(StopListening(m), code))
<1> DEFINE n == [m EXCEPT !.inbuf = <<>>, !.paused = FALSE]
<1>1. StopListening(m) = n
  BY DEF StopListening
<1>2. Typed(n) /\ Life(n) /\ n.readyState = v.readyState /\ n.tx = v.tx
  BY ZenonT(40), EmptySeq DEF Typed, Connection, Life
<1> HIDE DEF n
<1>3. Keeps(n, Close(n, code))
  BY <1>2, CloseKeeps
<1>4. QED
  BY <1>1, <1>2, <1>3, KeepsThrough

LEMMA ReceiverOnConcludeKeeps ==
    ASSUME NEW v, Typed(v), Life(v), v.rx # <<>>, Head(v.rx).op = "close"
    PROVE  Keeps(v, ReceiverOnConclude(v))
<1> DEFINE code == Head(v.rx).val
           m == [v EXCEPT !.closeFrameReceived = TRUE, !.closeCode = code,
                          !.receiver = "finished", !.rx = <<>>]
           c == IF code = NoStatus THEN NoCode ELSE code
<1>1. code \in Nat /\ (code = NoStatus \/ IsValidStatusCode(code))
  BY FirstFrame DEF PeerFrame, FrameType
<1>2. c \in Nat /\ (c = NoCode \/ IsValidStatusCode(c))
  BY <1>1 DEF NoCode
<1>3. ReceiverOnConclude(v) = IF v.socket = "closed" THEN m ELSE Close(StopListening(m), c)
  BY DEF ReceiverOnConclude
<1> HIDE DEF code, c
<1>4. Typed(m) /\ Life(m) /\ m.readyState = v.readyState /\ m.tx = v.tx
  BY ZenonT(40), <1>1, EmptySeq DEF Typed, Connection, Life
<1> HIDE DEF m
<1>5. Keeps(v, m)
  BY <1>4, SameState DEF Keeps
<1>6. Keeps(v, Close(StopListening(m), c))
  BY <1>2, <1>4, StopKeeps
<1>7. QED
  BY <1>3, <1>5, <1>6

LEMMA ReceiverOnErrorKeeps ==
    ASSUME NEW v, Typed(v), Life(v), v.rx # <<>>
    PROVE  Keeps(v, ReceiverOnError(v))
<1> DEFINE m == [v EXCEPT !.receiver = "errored", !.rx = <<>>]
<1>1. ProtocolCode \in Nat /\ IsValidStatusCode(ProtocolCode)
  BY DEF ProtocolCode, IsValidStatusCode, NoStatus, Abnormal
<1>2. ReceiverOnError(v) = IF v.socket = "closed" THEN m
                           ELSE Close(StopListening(m), ProtocolCode)
  BY DEF ReceiverOnError
<1>3. Typed(m) /\ Life(m) /\ m.readyState = v.readyState /\ m.tx = v.tx
  BY EmptySeq DEF Typed, Connection, Life
<1> HIDE DEF m
<1>4. Keeps(v, m)
  BY <1>3, SameState DEF Keeps
<1>5. Keeps(v, Close(StopListening(m), ProtocolCode))
  BY <1>1, <1>3, StopKeeps
<1>6. QED
  BY <1>2, <1>4, <1>5

-----------------------------------------------------------------------------

\* The three functions that are not covered by Keeps: two end the life of the
\* connection, one takes a frame off the sender's hands.
LEMMA HandshakeClosedEnds ==
    ASSUME NEW v, Typed(v), Life(v), v.readyState = "CONNECTING" \/ v.abort # "no",
           NEW u, u = HandshakeClosed(v)
    PROVE  /\ Typed(u) /\ Life(u) /\ Onward(v, u) /\ u.tx = v.tx
           /\ u.readyState = "CLOSED" /\ v.readyState # "CLOSED"
<1>1. u = [v EXCEPT !.readyState = "CLOSED", !.abort = "no"]
  BY DEF HandshakeClosed
<1>2. v.readyState \in {"CONNECTING", "CLOSING"} /\ v.socket = "none"
  BY DEF Typed, Connection, Life
<1>3. Typed(u) /\ u.tx = v.tx /\ u.readyState = "CLOSED"
  BY <1>1 DEF Typed, Connection
<1>4. Life(u)
  BY <1>1, <1>2 DEF Typed, Connection, Life
<1>5. QED
  BY <1>2, <1>3, <1>4, RanksAreNumbers DEF Onward

LEMMA EmitCloseEnds ==
    ASSUME NEW v, Typed(v), Life(v), MayFinish(v), NEW u, u = EmitClose(v)
    PROVE  /\ Typed(u) /\ Life(u) /\ Onward(v, u) /\ u.tx = v.tx
           /\ u.readyState = "CLOSED" /\ v.readyState # "CLOSED"
<1>1. u = [v EXCEPT !.readyState = "CLOSED"]
  BY DEF EmitClose
<1>2. v.readyState \in {"CONNECTING", "OPEN", "CLOSING"} /\ v.socket = "closed"
  BY DEF Typed, Connection, MayFinish
<1>3. Typed(u) /\ u.tx = v.tx /\ u.readyState = "CLOSED"
  BY <1>1 DEF Typed, Connection
<1>4. Life(u)
  BY <1>1, <1>2 DEF Typed, Connection, Life
<1>5. QED
  BY <1>2, <1>3, <1>4, RanksAreNumbers DEF Onward

LEMMA WrittenKeeps ==
    ASSUME NEW v, Typed(v), Life(v), v.tx # <<>>, NEW u, u = Written(v)
    PROVE  Typed(u) /\ Life(u) /\ u.readyState = v.readyState /\ u.tx = Tail(v.tx)
<1>1. Tail(v.tx) \in Seq(FrameType)
  BY HeadTailProperties DEF Typed, Connection
<1> DEFINE m == [v EXCEPT !.tx = Tail(@)]
<1>2. Typed(m) /\ Life(m) /\ m.readyState = v.readyState /\ m.tx = Tail(v.tx)
  BY ZenonT(40), <1>1 DEF Typed, Connection, Life
<1> DEFINE e == m.ended \/ v.closeFrameReceived \/ Errored(v)
<1>3. e \in BOOLEAN
  BY <1>2 DEF Typed, Connection, Errored
<1>4. u = m \/ u = [m EXCEPT !.closeFrameSent = TRUE, !.ended = e]
  BY DEF Written
<1> HIDE DEF m, e
<1>5. CASE u = m
  BY <1>2, <1>5
<1>6. CASE u = [m EXCEPT !.closeFrameSent = TRUE, !.ended = e]
  <2>1. Typed(u) /\ u.readyState = v.readyState /\ u.tx = Tail(v.tx)
    BY ZenonT(40), <1>2, <1>3, <1>6 DEF Typed, Connection
  <2>2. Life(u)
    BY <1>2, <1>6 DEF Typed, Connection, Life
  <2>3. QED
    BY <2>1, <2>2
<1>7. QED
  BY <1>4, <1>5, <1>6

LEMMA AbortErrorKeeps ==
    ASSUME NEW v, Typed(v), Life(v), v.abort = "error",
           NEW u, u = [v EXCEPT !.abort = "close"]
    PROVE  Keeps(v, u)
<1>1. Typed(u) /\ Life(u) /\ u.readyState = v.readyState /\ u.tx = v.tx
  BY DEF Typed, Connection, Life
<1>2. QED
  BY <1>1, SameState DEF Keeps

LEMMA AbortRequestKeeps ==
    ASSUME NEW v, Typed(v), Life(v), v.readyState = "CONNECTING"
    PROVE  Keeps(v, AbortRequest(v)) /\ Upgraded(AbortRequest(v)) = AbortRequest(v)
<1>1. Close(v, NoCode) = AbortRequest(v)
  BY DEF Close
<1>2. Keeps(v, Close(v, NoCode))
  BY CloseKeeps DEF NoCode
<1>3. AbortRequest(v).readyState = "CLOSING"
  BY DEF AbortRequest, Typed, Connection
<1>4. Upgraded(AbortRequest(v)) = AbortRequest(v)
  BY <1>3 DEF Upgraded
<1>5. QED
  BY <1>1, <1>2, <1>4

-----------------------------------------------------------------------------
(***************************************************************************)
(* The frames written out and to be written out, as one sequence           *)
(***************************************************************************)

Unclosed(out) == \A i \in 1..Len(out) : out[i].op # "close"

CloseIsLast(out) == \A i \in 1..Len(out) : out[i].op = "close" => i = Len(out)

LEMMA UnclosedCloseIsLast ==
    ASSUME NEW out, Unclosed(out) PROVE CloseIsLast(out)
BY DEF Unclosed, CloseIsLast

\* The sender's frames are dropped when the socket is destroyed.
LEMMA PrefixOfOut ==
    ASSUME NEW S, NEW s \in Seq(S), NEW t \in Seq(S)
    PROVE  /\ Unclosed(s \o t) => Unclosed(s \o <<>>)
           /\ CloseIsLast(s \o t) => CloseIsLast(s \o <<>>)
<1>1. s \o <<>> = s
  BY ConcatEmptySeq
<1>2. /\ Len(s) \in Nat /\ Len(t) \in Nat /\ Len(s \o t) = Len(s) + Len(t)
      /\ \A i \in 1..Len(s) : (s \o t)[i] = s[i]
  BY ConcatProperties, LenProperties
<1>3. QED
  BY <1>1, <1>2 DEF Unclosed, CloseIsLast

\* A frame is handed to the sender.
LEMMA FrameAfterOut ==
    ASSUME NEW S, NEW s \in Seq(S), NEW t \in Seq(S), NEW f \in S, Unclosed(s \o t)
    PROVE  /\ CloseIsLast(s \o Append(t, f))
           /\ f.op # "close" => Unclosed(s \o Append(t, f))
<1> DEFINE out == s \o t
<1>1. out \in Seq(S)
  BY ConcatProperties
<1>2. s \o Append(t, f) = Append(out, f)
  OBVIOUS
<1>3. /\ Len(Append(out, f)) = Len(out) + 1 /\ Len(out) \in Nat
      /\ Append(out, f)[Len(out) + 1] = f
      /\ \A i \in 1..Len(out) : Append(out, f)[i] = out[i]
  BY <1>1, AppendProperties, LenProperties
<1>4. \A i \in 1..(Len(out) + 1) : i = Len(out) + 1 \/ i \in 1..Len(out)
  BY <1>3
<1>5. QED
  BY <1>2, <1>3, <1>4 DEF Unclosed, CloseIsLast

\* A frame is written out: the sequence is the same.
LEMMA FrameWritten ==
    ASSUME NEW S, NEW s \in Seq(S), NEW t \in Seq(S), t # <<>>
    PROVE  Append(s, Head(t)) \o Tail(t) = s \o t
<1>1. Head(t) \in S /\ Tail(t) \in Seq(S) /\ Append(s, Head(t)) \in Seq(S)
  BY HeadTailProperties, AppendProperties
<1>2. Append(s, Head(t)) \o Tail(t) \in Seq(S) /\ s \o t \in Seq(S)
  BY <1>1, ConcatProperties
<1>3. Len(Append(s, Head(t)) \o Tail(t)) = Len(s \o t)
  BY <1>1
<1>4. \A i \in 1..Len(s \o t) : (Append(s, Head(t)) \o Tail(t))[i] = (s \o t)[i]
  BY <1>1
<1>5. QED
  BY <1>2, <1>3, <1>4, SeqEqual

-----------------------------------------------------------------------------
(***************************************************************************)
(* The invariant                                                           *)
(***************************************************************************)

\* While the connection may still send, it has sent no close frame: the reason
\* why the one it sends is the last.
Unsaid == w.readyState \in {"CONNECTING", "OPEN"} => Unclosed(wire \o w.tx)

IInv ==
    /\ TypeOK
    /\ Typed(w)
    /\ Life(w)
    /\ OneCloseEvent
    /\ Unsaid
    /\ CloseIsLast(wire \o w.tx)

LEMMA NewConnectionTyped ==
    ASSUME NEW state \in {"CONNECTING", "OPEN"}, NEW socket \in {"none", "up"}
    PROVE  Typed(NewConnection(state, socket))
<1> DEFINE v == NewConnection(state, socket)
<1>1. /\ <<>> \in Seq(FrameType) /\ <<>> \in Seq(PeerFrame)
      /\ Abnormal \in Nat
  BY EmptySeq DEF Abnormal
<1>2. v \in Connection
  BY <1>1 DEF NewConnection, Connection
<1>3. v.rx = <<>> /\ v.inbuf = <<>>
  BY DEF NewConnection
<1>4. QED
  BY <1>1, <1>2, <1>3 DEF Typed

LEMMA InitIInv == Init => IInv
<1> SUFFICES ASSUME Init PROVE IInv
  OBVIOUS
<1>1. /\ <<>> \in Seq(FrameType) /\ <<>> \in Seq(PeerFrame) /\ <<>> \in Seq(Nat)
  BY EmptySeq
<1>2. \/ w = NewConnection("CONNECTING", "none")
      \/ w = NewConnection("OPEN", "up")
  BY ZenonT(40) DEF Init, Connecting, Accepted, SetSocket, NewConnection
<1>3. Typed(w)
  BY <1>2, NewConnectionTyped
<1>4. Life(w) /\ w.tx = <<>> /\ w.readyState # "CLOSED"
  BY <1>2 DEF Life, NewConnection
<1>5. TypeOK
  BY <1>1, <1>3 DEF Init, TypeOK, Typed
<1>6. OneCloseEvent
  BY <1>4 DEF Init, OneCloseEvent
<1>7. Len(wire \o w.tx) = 0
  BY <1>4 DEF Init
<1>8. Unclosed(wire \o w.tx)
  BY <1>7 DEF Unclosed
<1>9. QED
  BY <1>3, <1>4, <1>5, <1>6, <1>8, UnclosedCloseIsLast DEF IInv, Unsaid

\* There are three kinds of steps: one keeps the connection's life, one ends it
\* with a 'close' event, one writes a frame out.
Kept == Keeps(w, w') /\ UNCHANGED <<wire, closes>>

Ended ==
    /\ Typed(w') /\ Life(w') /\ Onward(w, w') /\ w'.tx = w.tx
    /\ w'.readyState = "CLOSED" /\ w.readyState # "CLOSED"
    /\ closes' = closes + 1
    /\ UNCHANGED wire

Wrote ==
    /\ Typed(w') /\ Life(w') /\ w'.readyState = w.readyState
    /\ w.tx # <<>> /\ w'.tx = Tail(w.tx)
    /\ wire' = Append(wire, Head(w.tx))
    /\ UNCHANGED closes

\* The histories and counters keep their types.
Counted ==
    /\ peerFin' \in BOOLEAN
    /\ pauses' \in Nat
    /\ sent' \in Nat
    /\ arrived' \in Seq(FrameType)
    /\ emitted' \in Seq(Nat)

LEMMA ParseFrameStep ==
    ASSUME IInv, w.rx # <<>>, ParseFrame
    PROVE  Kept /\ Counted
<1> DEFINE f == Head(w.rx)
<1>1. Typed(w) /\ Life(w)
  BY DEF IInv
<1>2. f.val \in Nat
  BY <1>1, FirstFrame DEF PeerFrame, FrameType
<1>3. Keeps(w, w')
  BY <1>1, ParsedKeeps, ReceiverOnPingKeeps, ReceiverOnConcludeKeeps, ReceiverOnErrorKeeps
  DEF ParseFrame
<1>4. Append(emitted, f.val) \in Seq(Nat)
  BY <1>2, AppendProperties DEF IInv, TypeOK
<1>5. emitted' \in Seq(Nat)
  BY <1>4 DEF ParseFrame, IInv, TypeOK
<1>6. QED
  BY <1>3, <1>5 DEF ParseFrame, Kept, Counted, Environment, IInv, TypeOK

LEMMA TurnStep == ASSUME IInv, Turn PROVE (Kept \/ Ended) /\ Counted
<1>1. Typed(w) /\ Life(w)
  BY DEF IInv
<1>2. CASE Parse
  BY <1>2, ParseFrameStep DEF Parse, CanParse
<1>3. CASE Flow
  BY <1>1, <1>3, FlowOneKeeps DEF Flow, Kept, Counted, Environment, History, IInv, TypeOK
<1>4. CASE Finish
  BY <1>1, <1>4, EmitCloseEnds DEF Finish, Ended, Counted, Environment, IInv, TypeOK
<1>5. CASE AbortTick
  <2>1. CASE w.abort = "tick" /\ w' = HandshakeClosed(w) /\ closes' = closes + 1
    BY <1>1, <1>5, <2>1, HandshakeClosedEnds
    DEF AbortTick, Ended, Counted, Environment, IInv, TypeOK
  <2>2. CASE w.abort = "error" /\ w' = [w EXCEPT !.abort = "close"] /\ UNCHANGED closes
    BY <1>1, <1>5, <2>2, AbortErrorKeeps
    DEF AbortTick, Kept, Counted, Environment, IInv, TypeOK
  <2>3. QED
    BY <1>5, <2>1, <2>2 DEF AbortTick
<1>6. QED
  BY <1>2, <1>3, <1>4, <1>5 DEF Turn

LEMMA HandshakeStep == ASSUME IInv, Handshake PROVE (Kept \/ Ended) /\ Counted
<1>1. Typed(w) /\ Life(w)
  BY DEF IInv
<1>2. CASE Upgrade
  <2>1. Keeps(w, w')
    BY <1>1, <1>2, UpgradedKeeps, AbortRequestKeeps DEF Upgrade
  <2>2. QED
    BY <1>2, <2>1 DEF Upgrade, Kept, Counted, Environment, History, IInv, TypeOK
<1>3. CASE RequestFails
  BY <1>1, <1>3, HandshakeClosedEnds
  DEF RequestFails, Ended, Counted, Environment, IInv, TypeOK
<1>4. CASE UnexpectedResponse
  BY <1>1, <1>4, AbortRequestKeeps
  DEF UnexpectedResponse, Kept, Counted, Environment, History, IInv, TypeOK
<1>5. CASE StreamClosed
  BY <1>1, <1>5, HandshakeClosedEnds
  DEF StreamClosed, Ended, Counted, Environment, IInv, TypeOK
<1>6. QED
  BY <1>2, <1>3, <1>4, <1>5 DEF Handshake

LEMMA UserCodesAreGood ==
    \A c \in UserCodes : c \in Nat /\ (c = NoCode \/ IsValidStatusCode(c))
BY SMTT(40), WebSocketAssumption DEF NoCode, IsValidStatusCode

LEMMA ProgramStep == ASSUME IInv, Program PROVE Kept /\ Counted
<1>1. Typed(w) /\ Life(w)
  BY DEF IInv
<1>2. ASSUME NEW c \in UserCodes, UserClose(c) PROVE Kept /\ Counted
  <2>1. Keeps(w, w')
    BY <1>1, <1>2, UserCodesAreGood, CloseKeeps DEF UserClose
  <2>2. QED
    BY <1>2, <2>1 DEF UserClose, Kept, Counted, Environment, History, IInv, TypeOK
<1>3. CASE UserSend
  <2> DEFINE f == Frame("data", sent, FALSE)
  <2>1. f \in FrameType /\ f.op # "close"
    BY DEF Frame, FrameType, IInv, TypeOK
  <2>2. Keeps(w, w')
    BY <1>1, <1>3, <2>1, SendFrameKeeps DEF UserSend
  <2>3. sent' \in Nat
    BY <1>3 DEF UserSend, IInv, TypeOK
  <2>4. QED
    BY <1>3, <2>2, <2>3 DEF UserSend, Kept, Counted, History, IInv, TypeOK
<1>4. CASE UserTerminate
  BY <1>1, <1>4, TerminateKeeps
  DEF UserTerminate, Kept, Counted, Environment, History, IInv, TypeOK
<1>5. CASE UserPause
  BY <1>1, <1>5, PauseResumeKeep DEF UserPause, Kept, Counted, History, IInv, TypeOK
<1>6. CASE UserResume
  BY <1>1, <1>6, PauseResumeKeep
  DEF UserResume, Kept, Counted, Environment, History, IInv, TypeOK
<1>7. QED
  BY <1>2, <1>3, <1>4, <1>5, <1>6 DEF Program

LEMMA ArrivingAreGood ==
    ASSUME NEW n \in Nat PROVE ArrivingFrames(n) \subseteq PeerFrame
<1> SUFFICES ASSUME NEW f \in ArrivingFrames(n) PROVE f \in PeerFrame
  OBVIOUS
<1>1. \A c \in PeerCodes : c \in Nat /\ (c = NoStatus \/ IsValidStatusCode(c))
  BY SMTT(40), WebSocketAssumption DEF NoStatus, IsValidStatusCode
<1>2. \/ \E comp \in BOOLEAN : f = Frame("data", n, comp)
      \/ \E c \in PeerCodes : f = Frame("close", c, FALSE)
      \/ \E comp \in BOOLEAN : f = Frame("bad", 0, comp)
      \/ f = Frame("ping", 0, FALSE)
  BY WebSocketAssumption DEF ArrivingFrames
<1>3. ASSUME NEW op \in {"data", "bad", "ping"}, NEW val \in Nat, NEW comp \in BOOLEAN
      PROVE  Frame(op, val, comp) \in PeerFrame
  BY DEF Frame, PeerFrame, FrameType
<1>4. ASSUME NEW c \in PeerCodes PROVE Frame("close", c, FALSE) \in PeerFrame
  BY <1>1, <1>4 DEF Frame, PeerFrame, FrameType
<1>5. QED
  BY <1>2, <1>3, <1>4

LEMMA NetworkStep == ASSUME IInv, Network PROVE (Kept \/ Wrote) /\ Counted
<1>1. Typed(w) /\ Life(w)
  BY DEF IInv
<1>2. ASSUME NEW f \in ArrivingFrames(Len(arrived) + 1), NetData(f) PROVE Kept /\ Counted
  <2>1. arrived \in Seq(FrameType) /\ Len(arrived) + 1 \in Nat
    BY LenProperties DEF IInv, TypeOK
  <2>2. f \in PeerFrame /\ f \in FrameType
    BY <2>1, ArrivingAreGood DEF PeerFrame
  <2>3. Keeps(w, w')
    BY <1>1, <1>2, <2>2, ArriveKeeps DEF NetData
  <2>4. arrived' \in Seq(FrameType)
    BY <1>2, <2>1, <2>2, AppendProperties DEF NetData
  <2>5. QED
    BY <1>2, <2>3, <2>4 DEF NetData, Kept, Counted, History, IInv, TypeOK
<1>3. CASE NetFin
  <2>1. Keeps(w, w')
    BY <1>1, <1>3, SameState DEF NetFin, Keeps
  <2>2. QED
    BY <1>3, <2>1 DEF NetFin, Kept, Counted, History, IInv, TypeOK
<1>4. CASE NetEnd
  BY <1>1, <1>4, SocketOnEndKeeps
  DEF NetEnd, Kept, Counted, Environment, History, IInv, TypeOK
<1>5. CASE NetError
  BY <1>1, <1>5, DestroyKeeps
  DEF NetError, Kept, Counted, Environment, History, IInv, TypeOK
<1>6. CASE NetClose
  <2>1. w.readyState # "CLOSED"
    BY <1>1, <1>6 DEF NetClose, MayEmitClose, Life
  <2>2. Keeps(w, w')
    BY <1>1, <1>6, <2>1, SocketOnCloseKeeps DEF NetClose
  <2>3. QED
    BY <1>6, <2>2 DEF NetClose, Kept, Counted, Environment, History, IInv, TypeOK
<1>7. CASE NetWrite
  BY <1>1, <1>7, WrittenKeeps DEF NetWrite, Wrote, Counted, Environment, IInv, TypeOK
<1>8. CASE Inflated
  BY <1>8, ParseFrameStep DEF Inflated, Inflating
<1>9. CASE Timeout
  BY <1>1, <1>9, DestroyKeeps
  DEF Timeout, Kept, Counted, Environment, History, IInv, TypeOK
<1>10. QED
  BY <1>2, <1>3, <1>4, <1>5, <1>6, <1>7, <1>8, <1>9 DEF Network

LEMMA NextStep ==
    ASSUME IInv, [Next]_vars
    PROVE  (Kept \/ Ended \/ Wrote) /\ Counted
<1>1. CASE UNCHANGED vars
  <2>1. Keeps(w, w') /\ UNCHANGED <<wire, closes>>
    BY <1>1, SameState DEF vars, IInv, Keeps
  <2>2. QED
    BY <1>1, <2>1 DEF vars, Kept, Counted, IInv, TypeOK
<1>2. QED
  BY <1>1, TurnStep, HandshakeStep, ProgramStep, NetworkStep DEF Next

LEMMA SameRank ==
    ASSUME NEW v, NEW u, Typed(v), u.readyState = v.readyState
    PROVE  Onward(v, u)
<1>1. v.readyState \in {"CONNECTING", "OPEN", "CLOSING", "CLOSED"}
  BY DEF Typed, Connection
<1>2. QED
  BY <1>1, RanksAreNumbers DEF Onward

LEMMA KeptStep ==
    ASSUME IInv, Kept
    PROVE  Unsaid' /\ CloseIsLast(wire \o w.tx)'
<1>1. /\ wire \in Seq(FrameType) /\ w.tx \in Seq(FrameType)
      /\ w.readyState \in {"CONNECTING", "OPEN", "CLOSING", "CLOSED"}
      /\ wire' = wire
  BY DEF IInv, TypeOK, Connection, Kept
<1>2. w'.readyState \in {"CONNECTING", "OPEN"} => w.readyState \in {"CONNECTING", "OPEN"}
  BY <1>1, RanksAreNumbers DEF Kept, Keeps, Onward
<1>3. Unsaid /\ CloseIsLast(wire \o w.tx)
  BY DEF IInv
<1>4. CASE w'.tx = w.tx
  BY <1>1, <1>2, <1>3, <1>4 DEF Unsaid
<1>5. CASE w'.tx = <<>>
  BY <1>1, <1>2, <1>3, <1>5, PrefixOfOut DEF Unsaid
<1>6. ASSUME NEW f \in FrameType, w.readyState = "OPEN", w'.tx = Append(w.tx, f),
             f.op = "close" => w'.readyState # "OPEN"
      PROVE  Unsaid' /\ CloseIsLast(wire \o w.tx)'
  <2>1. Unclosed(wire \o w.tx)
    BY <1>3, <1>6 DEF Unsaid
  <2>2. /\ CloseIsLast(wire \o Append(w.tx, f))
        /\ f.op # "close" => Unclosed(wire \o Append(w.tx, f))
    BY <1>1, <2>1, FrameAfterOut
  <2>3. w'.readyState # "CONNECTING"
    BY <1>6, RanksAreNumbers DEF Kept, Keeps, Onward
  <2>4. QED
    BY <1>1, <1>6, <2>2, <2>3 DEF Unsaid
<1>7. QED
  BY <1>4, <1>5, <1>6 DEF Kept, Keeps, Sends

LEMMA StepIInv ==
    ASSUME IInv, [Next]_vars
    PROVE  IInv' /\ Onward(w, w')
<1>1. CASE Kept /\ Counted
  <2>1. Typed(w') /\ Life(w') /\ Onward(w, w')
    BY <1>1 DEF Kept, Keeps
  <2>2. TypeOK'
    BY <1>1, <2>1 DEF Kept, Counted, Typed, TypeOK, IInv
  <2>3. w'.readyState = "CLOSED" <=> w.readyState = "CLOSED"
    <3>1. Rank[w'.readyState] >= Rank[w.readyState]
      BY <2>1 DEF Onward
    <3>2. w'.readyState \in {"CONNECTING", "OPEN", "CLOSING", "CLOSED"}
      BY <2>1 DEF Typed, Connection
    <3>3. QED
      BY <1>1, <3>1, <3>2, RanksAreNumbers DEF Kept, Keeps
  <2>4. OneCloseEvent'
    BY <1>1, <2>3 DEF OneCloseEvent, Kept, IInv
  <2>5. QED
    BY <1>1, <2>1, <2>2, <2>4, KeptStep DEF IInv
<1>2. CASE Ended /\ Counted
  <2>1. Typed(w') /\ Life(w') /\ Onward(w, w')
    BY <1>2 DEF Ended
  <2>2. closes = 0 /\ closes' = 1
    BY <1>2 DEF Ended, OneCloseEvent, IInv
  <2>3. TypeOK'
    BY <1>2, <2>1, <2>2 DEF Ended, Counted, Typed, TypeOK, IInv
  <2>4. OneCloseEvent' /\ Unsaid'
    BY <1>2, <2>2 DEF Ended, OneCloseEvent, Unsaid
  <2>5. CloseIsLast(wire \o w.tx)'
    BY <1>2 DEF Ended, IInv
  <2>6. QED
    BY <2>1, <2>3, <2>4, <2>5 DEF IInv
<1>3. CASE Wrote /\ Counted
  <2>1. wire \in Seq(FrameType) /\ w.tx \in Seq(FrameType)
    BY DEF IInv, TypeOK, Connection
  <2>2. Typed(w') /\ Life(w') /\ w'.readyState = w.readyState
    BY <1>3 DEF Wrote
  <2>3. Onward(w, w')
    BY <2>2, SameRank DEF IInv
  <2>4. wire' \in Seq(FrameType)
    BY <1>3, <2>1, HeadTailProperties, AppendProperties DEF Wrote
  <2>5. TypeOK'
    BY <1>3, <2>2, <2>4 DEF Wrote, Counted, Typed, TypeOK, IInv
  <2>6. wire' \o w'.tx = wire \o w.tx
    BY <1>3, <2>1, FrameWritten DEF Wrote
  <2>7. OneCloseEvent' /\ Unsaid' /\ CloseIsLast(wire \o w.tx)'
    BY <1>3, <2>2, <2>6 DEF Wrote, OneCloseEvent, Unsaid, IInv
  <2>8. QED
    BY <2>2, <2>3, <2>5, <2>7 DEF IInv
<1>4. QED
  BY <1>1, <1>2, <1>3, NextStep

-----------------------------------------------------------------------------
(***************************************************************************)
(* The theorems                                                            *)
(***************************************************************************)

LEMMA Inductive == Spec => []IInv
<1>1. Init => IInv
  BY InitIInv
<1>2. IInv /\ [Next]_vars => IInv'
  BY StepIInv
<1>3. QED
  BY <1>1, <1>2, PTL DEF Spec

\* The connection and its environment keep their types, for every number of
\* frames, set of codes and high water mark of receiver.write().
THEOREM TypeCorrect == Spec => []TypeOK
<1>1. Spec => []IInv
  BY Inductive
<1>2. IInv => TypeOK
  BY DEF IInv
<1>3. QED
  BY <1>1, <1>2, PTL

\* readyState goes CONNECTING, OPEN, CLOSING, CLOSED and never back, whichever
\* listener of the request, the socket or the receiver comes late.
THEOREM ReadyStateOnward == Spec => StateNeverGoesBack
<1>1. Spec => []IInv
  BY Inductive
<1>2. IInv /\ [Next]_vars => [Rank[w'.readyState] >= Rank[w.readyState]]_vars
  BY StepIInv DEF Onward
<1>3. QED
  BY <1>1, <1>2, PTL DEF Spec, StateNeverGoesBack

\* emitClose() and emitErrorAndClose() run once between them, on every path.
THEOREM OneClose == Spec => []OneCloseEvent
<1>1. Spec => []IInv
  BY Inductive
<1>2. IInv => OneCloseEvent
  BY DEF IInv
<1>3. QED
  BY <1>1, <1>2, PTL

\* The sender of an open connection has a socket that was not destroyed.
THEOREM SocketOfOpen == Spec => []DestroyedNotOpen
<1>1. Spec => []IInv
  BY Inductive
<1>2. IInv => DestroyedNotOpen
  BY DEF IInv, Life, DestroyedNotOpen
<1>3. QED
  BY <1>1, <1>2, PTL

\* close() and the listeners leave no closing connection without its timer.
THEOREM CloseTimerSet == Spec => []ClosingIsTimed
<1>1. Spec => []IInv
  BY Inductive
<1>2. IInv => ClosingIsTimed
  BY DEF IInv, Life, ClosingIsTimed
<1>3. QED
  BY <1>1, <1>2, PTL

\* Nothing follows a close frame: send(), ping(), pong(), the answer to a ping
\* and a second close() all test readyState before they reach the sender.
THEOREM CloseFrameLast == Spec => []NothingAfterCloseFrame
<1>1. Spec => []IInv
  BY Inductive
<1>2. IInv => NothingAfterCloseFrame
  BY DEF IInv, CloseIsLast, NothingAfterCloseFrame
<1>3. QED
  BY <1>1, <1>2, PTL
-----------------------------------------------------------------------------
(***************************************************************************)
(* The input of a connection: pausing, and what is read and not parsed yet *)
(***************************************************************************)

In(v) == v.rx \o v.inbuf

\* The receiver has finished or failed: nothing is parsed any more.
Concluded(v) == v.receiver \in {"finished", "errored"}

\* The receiver has refused the rest of the stream.
Stopped(v) == v.closeFrameReceived \/ Errored(v)

\* Nothing reaches the receiver any more.
Shut(v) == v.endEmitted \/ Stopped(v) \/ v.socket = "closed"

Orderly(v) ==
    /\ Listening(v) => (v.paused <=> v.userPaused \/ v.needDrain)
    /\ v.readyState = "CONNECTING" => ~v.paused /\ ~v.userPaused /\ ~v.needDrain
    /\ v.closeFrameReceived => v.readyState \in {"CLOSING", "CLOSED"}
    /\ Concluded(v) \/ v.readyState = "CLOSED" => v.rx = <<>>
    /\ v.receiver # "open" => Shut(v)
    /\ Shut(v) => v.inbuf = <<>>

\* The connection is closing by itself: it owes the peer a close frame.
Owes(v) == v.readyState = "CLOSING" /\ v.socket = "up" /\ ~v.endEmitted

\* v becomes u: in order, and if it owes a close frame, one was handed to the
\* sender before or is now.
Upholds(v, u) ==
    /\ Orderly(u)
    /\ Owes(u) => \/ Owes(v) /\ u.tx = v.tx
                  \/ \E f \in FrameType : f.op = "close" /\ u.tx = Append(v.tx, f)
    /\ u.socket = "none" => v.socket = "none"
    /\ Stopped(v) => Stopped(u)

SameInput(v, u) == In(u) = In(v) /\ u.endEmitted = v.endEmitted

LEMMA SameUpholds == ASSUME NEW v, Orderly(v) PROVE Upholds(v, v) /\ SameInput(v, v)
BY DEF Upholds, SameInput

LEMMA CloseUpholds ==
    ASSUME NEW v, Typed(v), Life(v), Orderly(v), NEW code \in Nat,
           code = NoCode \/ IsValidStatusCode(code)
    PROVE  Upholds(v, Close(v, code)) /\ SameInput(v, Close(v, code))
<1>1. CASE v.readyState = "CONNECTING"
  <2> DEFINE u == [v EXCEPT !.readyState = "CLOSING", !.abort = "tick"]
  <2>1. Close(v, code) = u
    BY <1>1 DEF Close, AbortRequest
  <2>2. Orderly(u) /\ SameInput(v, u)
    BY <1>1 DEF Typed, Connection, Life, Orderly, Listening, Shut, Stopped, Errored,
                Concluded, SameInput, In
  <2>3. ~Owes(u) /\ v.socket = "none" /\ (Stopped(v) => Stopped(u))
    BY <1>1 DEF Typed, Connection, Life, Owes, Stopped, Errored
  <2>4. QED
    BY <2>1, <2>2, <2>3 DEF Upholds
<1>2. CASE v.readyState = "OPEN"
  <2> DEFINE f == CloseFrame(code)
             u == [v EXCEPT !.readyState = "CLOSING", !.closeTimer = TRUE,
                            !.tx = Append(@, f)]
  <2>1. Close(v, code) = u
    BY <1>2 DEF Close, CloseThrows
  <2>2. f \in FrameType /\ f.op = "close"
    BY DEF CloseFrame, Frame, FrameType, NoStatus
  <2> HIDE DEF f
  <2>3. Orderly(u) /\ SameInput(v, u)
    BY <1>2 DEF Typed, Connection, Life, Orderly, Listening, Shut, Stopped, Errored,
                Concluded, SameInput, In
  <2>4. u.tx = Append(v.tx, f) /\ u.socket = v.socket /\ (Stopped(v) => Stopped(u))
    BY DEF Typed, Connection, Stopped, Errored
  <2>5. QED
    BY <2>1, <2>2, <2>3, <2>4 DEF Upholds
<1>3. CASE v.readyState = "CLOSING"
  <2> DEFINE e == v.ended \/ (/\ v.closeFrameSent
                              /\ v.closeFrameReceived \/ Errored(v))
             u == [v EXCEPT !.ended = e]
  <2>1. Close(v, code) = u
    BY <1>3 DEF Close
  <2> HIDE DEF e
  <2>2. Orderly(u) /\ SameInput(v, u)
    BY <1>3 DEF Typed, Connection, Orderly, Listening, Shut, Stopped, Errored,
                Concluded, SameInput, In
  <2>3. u.tx = v.tx /\ u.socket = v.socket /\ (Stopped(v) => Stopped(u)) /\ Owes(v) = Owes(u)
    BY DEF Typed, Connection, Stopped, Errored, Owes
  <2>4. QED
    BY <2>1, <2>2, <2>3 DEF Upholds
<1>4. CASE v.readyState = "CLOSED"
  <2>1. Close(v, code) = v
    BY <1>4 DEF Close
  <2>2. QED
    BY <2>1, SameUpholds
<1>5. QED
  BY <1>1, <1>2, <1>3, <1>4 DEF Typed, Connection

LEMMA SendFrameUpholds ==
    ASSUME NEW v, Typed(v), Life(v), Orderly(v), NEW f \in FrameType
    PROVE  Upholds(v, SendFrame(v, f)) /\ SameInput(v, SendFrame(v, f))
<1>1. CASE v.readyState = "OPEN"
  <2> DEFINE u == [v EXCEPT !.tx = Append(@, f)]
  <2>1. SendFrame(v, f) = u
    BY <1>1 DEF SendFrame
  <2>2. Orderly(u) /\ SameInput(v, u)
    BY DEF Typed, Connection, Orderly, Listening, Shut, Stopped, Errored, Concluded,
           SameInput, In
  <2>3. ~Owes(u) /\ u.socket = v.socket /\ (Stopped(v) => Stopped(u))
    BY <1>1 DEF Typed, Connection, Stopped, Errored, Owes
  <2>4. QED
    BY <2>1, <2>2, <2>3 DEF Upholds
<1>2. CASE v.readyState # "OPEN"
  BY <1>2, SameUpholds DEF SendFrame
<1>3. QED
  BY <1>1, <1>2

LEMMA TerminateUpholds ==
    ASSUME NEW v, Typed(v), Life(v), Orderly(v)
    PROVE  Upholds(v, Terminate(v)) /\ SameInput(v, Terminate(v))
<1>1. CASE v.readyState = "CONNECTING"
  <2>1. Terminate(v) = Close(v, NoCode) /\ NoCode \in Nat
    BY <1>1 DEF Terminate, Close, NoCode, Life
  <2>2. QED
    BY <2>1, CloseUpholds
<1>2. CASE v.readyState # "CONNECTING" /\ v.socket = "up"
  <2> DEFINE u == [v EXCEPT !.readyState = "CLOSING", !.socket = "destroyed", !.tx = <<>>]
  <2>1. Terminate(v) = u
    BY <1>2 DEF Terminate
  <2>2. Orderly(u) /\ SameInput(v, u)
    BY <1>2 DEF Typed, Connection, Orderly, Listening, Shut, Stopped, Errored, Concluded,
                SameInput, In
  <2>3. ~Owes(u) /\ u.socket # "none" /\ (Stopped(v) => Stopped(u))
    BY DEF Typed, Connection, Stopped, Errored, Owes
  <2>4. QED
    BY <2>1, <2>2, <2>3 DEF Upholds
<1>3. CASE v.readyState # "CONNECTING" /\ v.socket # "up"
  BY <1>3, SameUpholds DEF Terminate
<1>4. QED
  BY <1>1, <1>2, <1>3

LEMMA PauseResumeUpholds ==
    ASSUME NEW v, Typed(v), Life(v), Orderly(v)
    PROVE  /\ Upholds(v, Pause(v)) /\ SameInput(v, Pause(v))
           /\ Upholds(v, Resume(v)) /\ SameInput(v, Resume(v))
<1>1. CASE v.readyState \in {"CONNECTING", "CLOSED"}
  BY <1>1, SameUpholds DEF Pause, Resume
<1>2. CASE v.readyState \notin {"CONNECTING", "CLOSED"}
  <2> DEFINE u == [v EXCEPT !.userPaused = TRUE, !.paused = TRUE]
             p == IF v.needDrain THEN v.paused ELSE FALSE
             r == [v EXCEPT !.userPaused = FALSE, !.paused = p]
  <2>1. Pause(v) = u /\ Resume(v) = r
    BY <1>2 DEF Pause, Resume
  <2>2. Orderly(u) /\ SameInput(v, u)
    BY <1>2 DEF Typed, Connection, Orderly, Listening, Shut, Stopped, Errored, Concluded,
                SameInput, In
  <2>3. Orderly(r) /\ SameInput(v, r)
    BY <1>2 DEF Typed, Connection, Orderly, Listening, Shut, Stopped, Errored, Concluded,
                SameInput, In
  <2>4. /\ u.tx = v.tx /\ u.socket = v.socket /\ (Stopped(v) => Stopped(u)) /\ Owes(v) = Owes(u)
        /\ r.tx = v.tx /\ r.socket = v.socket /\ (Stopped(v) => Stopped(r)) /\ Owes(v) = Owes(r)
    BY DEF Typed, Connection, Stopped, Errored, Owes
  <2>5. QED
    BY <2>1, <2>2, <2>3, <2>4 DEF Upholds
<1>3. QED
  BY <1>1, <1>2

LEMMA UpgradedUpholds ==
    ASSUME NEW v, Typed(v), Life(v), Orderly(v)
    PROVE  /\ Upholds(v, Upgraded(v)) /\ SameInput(v, Upgraded(v))
           /\ Upholds(v, UpgradeRefused(v)) /\ SameInput(v, UpgradeRefused(v))
<1>1. CASE v.readyState = "CONNECTING"
  <2> DEFINE u == [v EXCEPT !.readyState = "OPEN", !.socket = "up"]
             r == [v EXCEPT !.readyState = "CLOSING", !.abort = "error"]
  <2>1. Upgraded(v) = u /\ UpgradeRefused(v) = r
    BY <1>1 DEF Upgraded, UpgradeRefused, SetSocket
  <2>2. Orderly(u) /\ SameInput(v, u)
    BY <1>1 DEF Typed, Connection, Life, Orderly, Listening, Shut, Stopped, Errored,
                Concluded, SameInput, In
  <2>3. Orderly(r) /\ SameInput(v, r)
    BY <1>1 DEF Typed, Connection, Life, Orderly, Listening, Shut, Stopped, Errored,
                Concluded, SameInput, In
  <2>4. /\ ~Owes(u) /\ u.socket # "none" /\ (Stopped(v) => Stopped(u))
        /\ ~Owes(r) /\ v.socket = "none" /\ (Stopped(v) => Stopped(r))
    BY <1>1 DEF Typed, Connection, Life, Stopped, Errored, Owes
  <2>5. QED
    BY <2>1, <2>2, <2>3, <2>4 DEF Upholds
<1>2. CASE v.readyState # "CONNECTING"
  BY <1>2, SameUpholds DEF Upgraded, UpgradeRefused
<1>3. QED
  BY <1>1, <1>2

\* What is read goes to the receiver: the end of the input, or its front.
LEMMA SocketOnDataUpholds ==
    ASSUME NEW v, Typed(v), Orderly(v), Listening(v), ~Shut(v),
           v.readyState \notin {"CONNECTING", "CLOSED"}, NEW f \in PeerFrame
    PROVE  /\ Upholds(v, SocketOnData(v, f))
           /\ SocketOnData(v, f).rx = Append(v.rx, f)
           /\ SocketOnData(v, f).inbuf = v.inbuf
           /\ SocketOnData(v, f).endEmitted = v.endEmitted
           /\ SocketOnData(v, f).readyState = v.readyState
<1> DEFINE full == Len(v.rx) + 1 >= HighWater
           d == v.needDrain \/ full
           p == v.paused \/ full
           x == Append(v.rx, f)
           u == [v EXCEPT !.rx = x, !.needDrain = d, !.paused = p]
<1>1. SocketOnData(v, f) = u
  BY DEF SocketOnData, Typed, Connection
<1>2. p <=> v.userPaused \/ d
  BY DEF Orderly
<1>3. d \in BOOLEAN /\ p \in BOOLEAN
  BY DEF Typed, Connection
<1>4. v.receiver = "open"
  BY DEF Orderly
<1> HIDE DEF full, d, p, x
<1>5. Orderly(u)
  BY <1>2, <1>3, <1>4 DEF Typed, Connection, Orderly, Listening, Shut, Stopped, Errored,
                          Concluded
<1>6. /\ u.tx = v.tx /\ u.socket = v.socket /\ (Stopped(v) => Stopped(u)) /\ Owes(v) = Owes(u)
      /\ u.rx = x /\ u.inbuf = v.inbuf /\ u.endEmitted = v.endEmitted
      /\ u.readyState = v.readyState
  BY DEF Typed, Connection, Stopped, Errored, Owes
<1>7. QED
  BY <1>1, <1>5, <1>6 DEF Upholds, x

LEMMA AppendInput ==
    ASSUME NEW s \in Seq(FrameType), NEW t \in Seq(FrameType), NEW f \in FrameType
    PROVE  s \o Append(t, f) = Append(s \o t, f)
<1>1. <<f>> \in Seq(FrameType) /\ Append(t, f) = t \o <<f>> /\ s \o t \in Seq(FrameType)
  BY AppendIsConcat, ConcatProperties
<1>2. Append(s \o t, f) = (s \o t) \o <<f>>
  BY <1>1, AppendIsConcat
<1>3. (s \o t) \o <<f>> = s \o (t \o <<f>>)
  BY <1>1, ConcatAssociative
<1>4. QED
  BY <1>1, <1>2, <1>3

LEMMA AppendFront ==
    ASSUME NEW s \in Seq(FrameType), NEW f \in FrameType
    PROVE  Append(s, f) \o <<>> = Append(s \o <<>>, f)
<1>1. Append(s, f) \in Seq(FrameType)
  BY AppendProperties
<1>2. s \o <<>> = s /\ Append(s, f) \o <<>> = Append(s, f)
  BY <1>1, ConcatEmptySeq
<1>3. QED
  BY <1>2

LEMMA ArriveUpholds ==
    ASSUME NEW v, Typed(v), Life(v), Orderly(v), Listening(v), ~v.endEmitted,
           NEW f \in PeerFrame
    PROVE  /\ Upholds(v, Arrive(v, f))
           /\ In(Arrive(v, f)) = Append(In(v), f)
           /\ Arrive(v, f).endEmitted = v.endEmitted
           /\ Arrive(v, f).readyState = v.readyState
<1> DEFINE r == v.rx
           b == v.inbuf
<1>1. r \in Seq(FrameType) /\ b \in Seq(FrameType) /\ f \in FrameType
  BY DEF Typed, Connection, PeerFrame
<1>2. ~Shut(v) /\ v.readyState \notin {"CONNECTING", "CLOSED"}
  BY DEF Shut, Stopped, Listening, Life
<1>3. CASE v.paused \/ v.inbuf # <<>>
  <2> DEFINE x == Append(b, f)
             u == [v EXCEPT !.inbuf = x]
  <2>1. Arrive(v, f) = u
    BY <1>3 DEF Arrive, Typed, Connection
  <2> HIDE DEF x, r, b
  <2>2. Orderly(u)
    BY <1>2 DEF Typed, Connection, Orderly, Listening, Shut, Stopped, Errored, Concluded
  <2>3. /\ u.tx = v.tx /\ u.socket = v.socket /\ (Stopped(v) => Stopped(u)) /\ Owes(v) = Owes(u)
        /\ u.rx = r /\ u.inbuf = x /\ u.endEmitted = v.endEmitted
        /\ u.readyState = v.readyState
    BY DEF Typed, Connection, Stopped, Errored, Owes, r
  <2>4. r \o x = Append(r \o b, f)
    BY <1>1, AppendInput DEF x
  <2>5. In(u) = r \o x /\ In(v) = r \o b
    BY <2>3 DEF In, r, b
  <2>6. QED
    BY <2>1, <2>2, <2>3, <2>4, <2>5 DEF Upholds
<1>4. CASE ~(v.paused \/ v.inbuf # <<>>)
  <2>1. Arrive(v, f) = SocketOnData(v, f)
    BY <1>4 DEF Arrive
  <2> DEFINE u == SocketOnData(v, f)
  <2>2. /\ Upholds(v, u) /\ u.rx = Append(r, f) /\ u.inbuf = b
        /\ u.endEmitted = v.endEmitted /\ u.readyState = v.readyState
    BY <1>2, SocketOnDataUpholds
  <2>3. In(u) = Append(r, f) \o <<>> /\ In(v) = r \o <<>>
    BY <1>4, <2>2 DEF In
  <2> HIDE DEF u, r, b
  <2>4. In(u) = Append(In(v), f)
    BY <1>1, <2>3, AppendFront
  <2>5. QED
    BY <2>1, <2>2, <2>4 DEF u
<1>5. QED
  BY <1>3, <1>4

LEMMA InputWritten ==
    ASSUME NEW s \in Seq(FrameType), NEW t \in Seq(FrameType), t # <<>>
    PROVE  Append(s, Head(t)) \o Tail(t) = s \o t
BY FrameWritten

LEMMA FlowOneUpholds ==
    ASSUME NEW v, Typed(v), Life(v), Orderly(v), CanFlow(v)
    PROVE  Upholds(v, FlowOne(v)) /\ SameInput(v, FlowOne(v))
<1> DEFINE r == v.rx
           b == v.inbuf
           h == Head(b)
           t == Tail(b)
           m == [v EXCEPT !.inbuf = t]
           u == SocketOnData(m, h)
<1>1. /\ v.socket = "up" /\ b # <<>> /\ b \in Seq(PeerFrame)
      /\ b \in Seq(FrameType) /\ r \in Seq(FrameType) /\ r \in Seq(PeerFrame)
  BY DEF CanFlow, Listening, Typed, Connection
<1>2. h \in PeerFrame /\ t \in Seq(PeerFrame) /\ t \in Seq(FrameType)
  <2>1. h \in PeerFrame /\ t \in Seq(PeerFrame)
    BY <1>1, HeadTailProperties
  <2>2. Seq(PeerFrame) \subseteq Seq(FrameType)
    BY DEF PeerFrame
  <2>3. QED
    BY <2>1, <2>2
<1>3. FlowOne(v) = u
  BY DEF FlowOne, Typed, Connection
<1>4. Append(r, h) \o t = r \o b
  <2> HIDE DEF r, b
  <2>1. QED
    BY <1>1, InputWritten
<1>5. ~Shut(v) /\ v.readyState # "CLOSED" /\ v.readyState # "CONNECTING"
  BY <1>1 DEF Orderly, Life
<1> HIDE DEF h, t
<1>6. Typed(m) /\ Orderly(m) /\ Listening(m) /\ ~Shut(m)
      /\ m.readyState \notin {"CONNECTING", "CLOSED"}
  <2>1. Typed(m)
    BY <1>2 DEF Typed, Connection
  <2>2. Listening(m) /\ ~Shut(m) /\ m.readyState \notin {"CONNECTING", "CLOSED"}
    BY <1>5 DEF CanFlow, Listening, Shut, Stopped, Errored, Typed, Connection
  <2>3. Orderly(m)
    BY <1>5 DEF Typed, Connection, Orderly, Listening, Shut, Stopped, Errored, Concluded
  <2>4. QED
    BY <2>1, <2>2, <2>3
<1>7. /\ m.rx = r /\ m.inbuf = t /\ m.tx = v.tx /\ m.socket = v.socket
      /\ m.endEmitted = v.endEmitted /\ Owes(m) = Owes(v) /\ (Stopped(v) => Stopped(m))
  BY DEF Typed, Connection, Owes, Stopped, Errored
<1> HIDE DEF m
<1>8. Upholds(m, u) /\ u.rx = Append(m.rx, h) /\ u.inbuf = m.inbuf /\ u.endEmitted = m.endEmitted
  BY <1>2, <1>6, SocketOnDataUpholds
<1> HIDE DEF u
<1>9. Upholds(v, u)
  BY <1>7, <1>8 DEF Upholds
<1>10. In(u) = In(v)
  BY <1>4, <1>7, <1>8 DEF In, r, b
<1>11. QED
  BY <1>3, <1>7, <1>8, <1>9, <1>10 DEF SameInput

LEMMA EndReceiverUpholds ==
    ASSUME NEW v, Typed(v), Orderly(v), Shut(v)
    PROVE  /\ Upholds(v, EndReceiver(v)) /\ SameInput(v, EndReceiver(v))
           /\ Owes(EndReceiver(v)) = Owes(v)
<1> DEFINE s == IF v.receiver # "open" THEN v.receiver
                ELSE IF v.rx = <<>> THEN "finished" ELSE "ended"
           u == [v EXCEPT !.receiver = s]
<1>1. /\ v.receiver # "open" => s = v.receiver
      /\ s \in {"finished", "errored"} => v.rx = <<>>
      /\ s = "errored" <=> v.receiver = "errored"
  BY DEF Orderly, Concluded
<1>2. EndReceiver(v) = u
  BY DEF EndReceiver
<1> HIDE DEF s
<1>3. Orderly(u) /\ SameInput(v, u)
  BY <1>1 DEF Typed, Connection, Orderly, Listening, Shut, Stopped, Errored, Concluded,
              SameInput, In
<1>4. u.tx = v.tx /\ u.socket = v.socket /\ (Stopped(v) => Stopped(u)) /\ Owes(v) = Owes(u)
  BY <1>1 DEF Typed, Connection, Stopped, Errored, Owes
<1>5. QED
  BY <1>2, <1>3, <1>4 DEF Upholds

LEMMA SocketOnEndUpholds ==
    ASSUME NEW v, Typed(v), Life(v), Orderly(v), v.socket = "up", v.inbuf = <<>>
    PROVE  Upholds(v, SocketOnEnd(v)) /\ In(SocketOnEnd(v)) = In(v)
<1> DEFINE m == [v EXCEPT !.readyState = "CLOSING", !.ended = TRUE, !.endEmitted = TRUE]
           u == EndReceiver(m)
<1>1. SocketOnEnd(v) = u
  BY DEF SocketOnEnd
<1>2. Typed(m) /\ Shut(m) /\ In(m) = In(v) /\ m.socket = v.socket
      /\ (Stopped(v) => Stopped(m)) /\ ~Owes(m)
  BY DEF Typed, Connection, Shut, Stopped, Errored, In, Owes
<1>3. Orderly(m)
  BY DEF Typed, Connection, Orderly, Listening, Shut, Stopped, Errored, Concluded
<1> HIDE DEF m
<1>4. Upholds(m, u) /\ SameInput(m, u) /\ ~Owes(u)
  BY <1>2, <1>3, EndReceiverUpholds
<1> HIDE DEF u
<1>5. QED
  BY <1>1, <1>2, <1>4 DEF Upholds, SameInput

LEMMA DestroyUpholds ==
    ASSUME NEW v, Typed(v), Life(v), Orderly(v), v.socket = "up"
    PROVE  /\ Upholds(v, SocketOnError(v)) /\ SameInput(v, SocketOnError(v))
           /\ Upholds(v, CloseTimeout(v)) /\ SameInput(v, CloseTimeout(v))
<1> DEFINE u == [v EXCEPT !.readyState = "CLOSING", !.socket = "destroyed", !.tx = <<>>]
           t == [v EXCEPT !.closeTimer = FALSE, !.socket = "destroyed", !.tx = <<>>]
<1>1. SocketOnError(v) = u /\ CloseTimeout(v) = t
  BY DEF SocketOnError, CloseTimeout
<1>2. Orderly(u) /\ SameInput(v, u)
  BY DEF Typed, Connection, Orderly, Listening, Shut, Stopped, Errored, Concluded,
         SameInput, In
<1>3. Orderly(t) /\ SameInput(v, t)
  BY DEF Typed, Connection, Life, Orderly, Listening, Shut, Stopped, Errored, Concluded,
         SameInput, In
<1>4. /\ ~Owes(u) /\ u.socket # "none" /\ (Stopped(v) => Stopped(u))
      /\ ~Owes(t) /\ t.socket # "none" /\ (Stopped(v) => Stopped(t))
  BY DEF Typed, Connection, Stopped, Errored, Owes
<1>5. QED
  BY <1>1, <1>2, <1>3, <1>4 DEF Upholds

\* The socket's read buffer is read before it goes.
LEMMA SocketOnCloseUpholds ==
    ASSUME NEW v, Typed(v), Life(v), Orderly(v), MayEmitClose(v), v.readyState # "CLOSED"
    PROVE  Upholds(v, SocketOnClose(v)) /\ SameInput(v, SocketOnClose(v))
<1> DEFINE r == v.rx
           b == v.inbuf
           rest == IF v.endEmitted \/ v.closeFrameReceived \/ Errored(v) THEN <<>> ELSE b
           x == r \o rest
           m == [v EXCEPT !.readyState = "CLOSING", !.socket = "closed",
                          !.closeTimer = FALSE, !.tx = <<>>, !.rx = x, !.inbuf = <<>>]
           u == EndReceiver(m)
<1>1. SocketOnClose(v) = u
  BY DEF SocketOnClose, Typed, Connection
<1>2. rest = b
  BY DEF Orderly, Shut, Stopped
<1>3. r \in Seq(PeerFrame) /\ b \in Seq(PeerFrame)
  BY DEF Typed
<1>4. x \in Seq(PeerFrame) /\ x \in Seq(FrameType) /\ x \o <<>> = x
  <2> HIDE DEF r, b, rest
  <2>1. x \in Seq(PeerFrame)
    BY <1>2, <1>3, ConcatProperties
  <2>2. Seq(PeerFrame) \subseteq Seq(FrameType)
    BY DEF PeerFrame
  <2>3. QED
    BY <2>1, <2>2, ConcatEmptySeq
<1>5. v.receiver # "open" => b = <<>>
  BY DEF Orderly
<1>6. Concluded(v) => x = <<>>
  <2>1. SUFFICES ASSUME Concluded(v) PROVE x = <<>>
    OBVIOUS
  <2>2. r = <<>> /\ b = <<>>
    BY <2>1, <1>5 DEF Orderly, Concluded
  <2>3. QED
    BY <1>2, <2>2, <1>4, <1>3
<1>7. v.readyState \in {"OPEN", "CLOSING"}
  BY DEF Typed, Connection, Life, MayEmitClose
<1>8. In(v) = x
  BY <1>2 DEF In
<1> HIDE DEF x, r, b, rest
<1>9. /\ Typed(m) /\ Shut(m) /\ m.endEmitted = v.endEmitted /\ m.rx = x /\ m.inbuf = <<>>
      /\ (Stopped(v) => Stopped(m)) /\ ~Owes(m) /\ m.socket = "closed"
  BY ZenonT(40), <1>4, EmptySeq DEF Typed, Connection, Shut, Stopped, Errored, Owes
<1>10. Orderly(m)
  BY <1>6, <1>7 DEF Typed, Connection, Orderly, Listening, Shut, Stopped, Errored, Concluded
<1> HIDE DEF m
<1>11. Upholds(m, u) /\ SameInput(m, u) /\ ~Owes(u)
  BY <1>9, <1>10, EndReceiverUpholds
<1>12. In(m) = In(v)
  BY <1>4, <1>8, <1>9 DEF In
<1> HIDE DEF u
<1>13. u.socket # "none"
  BY <1>9, <1>11 DEF Upholds
<1>14. QED
  BY <1>1, <1>9, <1>11, <1>12, <1>13 DEF Upholds, SameInput

-----------------------------------------------------------------------------
\* Taking a frame off rx changes the input by its first frame.
Shorter(v, u) == In(u) = Tail(v.rx) \o v.inbuf /\ u.endEmitted = v.endEmitted

LEMMA ParsedUpholds ==
    ASSUME NEW v, Typed(v), Life(v), Orderly(v), v.rx # <<>>
    PROVE  /\ Upholds(v, Parsed(v)) /\ Shorter(v, Parsed(v))
           /\ Owes(Parsed(v)) = Owes(v)
<1> DEFINE t == Tail(v.rx)
           m == [v EXCEPT !.rx = t]
           p == IF v.userPaused THEN v.paused ELSE FALSE
           e == [m EXCEPT !.receiver = "finished"]
           d == [m EXCEPT !.needDrain = FALSE, !.paused = p]
<1>1. /\ Parsed(v) \in {m, e, d}
      /\ Parsed(v) = e => t = <<>> /\ v.receiver = "ended"
      /\ Parsed(v) = d => TRUE
  <2>1. m.rx = t /\ m.paused = v.paused /\ m.receiver = v.receiver
    BY DEF Typed, Connection
  <2>2. CASE t # <<>>
    <3>1. Parsed(v) = m
      BY <2>1, <2>2 DEF Parsed
    <3>2. m # e
      BY DEF Typed, Connection, Orderly, Concluded
    <3>3. QED
      BY <3>1, <3>2
  <2>3. CASE t = <<>> /\ v.receiver = "ended"
    BY <2>1, <2>3 DEF Parsed
  <2>4. CASE t = <<>> /\ v.receiver # "ended"
    <3>1. Parsed(v) = m \/ Parsed(v) = d
      BY <2>1, <2>4 DEF Parsed
    <3>2. m # e /\ d # e
      BY DEF Typed, Connection, Orderly, Concluded
    <3>3. QED
      BY <3>1, <3>2
  <2>5. QED
    BY <2>2, <2>3, <2>4
<1>2. p \in BOOLEAN
  BY DEF Typed, Connection
<1>3. Listening(v) => p = v.userPaused
  BY DEF Orderly, Typed, Connection
<1>4. ~Concluded(v) /\ v.readyState # "CLOSED" /\ v.readyState # "CONNECTING"
  BY DEF Orderly, Life
<1> HIDE DEF t, p
<1>5. Orderly(m)
  BY <1>4 DEF Typed, Connection, Orderly, Listening, Shut, Stopped, Errored, Concluded
<1>6. t = <<>> /\ v.receiver = "ended" => Orderly(e)
  BY <1>4 DEF Typed, Connection, Orderly, Listening, Shut, Stopped, Errored, Concluded
<1>7. Orderly(d)
  BY <1>2, <1>3, <1>4 DEF Typed, Connection, Orderly, Listening, Shut, Stopped, Errored,
                          Concluded
<1>8. ASSUME NEW u \in {m, e, d}
      PROVE  /\ u.tx = v.tx /\ u.socket = v.socket /\ Owes(v) = Owes(u)
             /\ In(u) = t \o v.inbuf /\ u.endEmitted = v.endEmitted
  BY DEF Typed, Connection, Owes, In
<1>9. /\ Stopped(v) => Stopped(m)
      /\ Stopped(v) => Stopped(d)
      /\ v.receiver = "ended" => (Stopped(v) => Stopped(e))
  BY DEF Typed, Connection, Stopped, Errored
<1> HIDE DEF m, e, d
<1>10. Orderly(Parsed(v)) /\ (Stopped(v) => Stopped(Parsed(v)))
  BY <1>1, <1>5, <1>6, <1>7, <1>9
<1>11. QED
  BY <1>1, <1>8, <1>10 DEF Upholds, Shorter, t

LEMMA ReceiverOnPingUpholds ==
    ASSUME NEW v, Typed(v), Life(v), Orderly(v), v.rx # <<>>
    PROVE  Upholds(v, ReceiverOnPing(v)) /\ Shorter(v, ReceiverOnPing(v))
<1> DEFINE f == Frame("pong", Head(v.rx).val, FALSE)
           m == Parsed(v)
           u == SendFrame(m, f)
<1>1. f \in FrameType
  BY FirstFrame DEF Frame, FrameType, PeerFrame
<1>2. ReceiverOnPing(v) = u
  BY DEF ReceiverOnPing
<1>3. Typed(m) /\ Life(m) /\ m.readyState = v.readyState /\ m.tx = v.tx
  BY ParsedKeeps DEF Keeps
<1>4. Upholds(v, m) /\ Shorter(v, m) /\ Owes(m) = Owes(v)
  BY ParsedUpholds
<1> HIDE DEF f, m
<1>5. Orderly(m)
  BY <1>4 DEF Upholds
<1>6. Upholds(m, u) /\ SameInput(m, u)
  BY <1>1, <1>3, <1>5, SendFrameUpholds
<1> HIDE DEF u
<1>7. Upholds(v, u)
  BY <1>3, <1>4, <1>6 DEF Upholds
<1>8. Shorter(v, u)
  BY <1>4, <1>6 DEF Shorter, SameInput
<1>9. QED
  BY <1>2, <1>7, <1>8

\* The receiver stops: nothing is left of the input, and the answer is under way.
LEMMA StopUpholds ==
    ASSUME NEW v, Orderly(v), Life(v), NEW m, Typed(m), Life(m), v.rx # <<>>,
           m.readyState = v.readyState, m.tx = v.tx, m.socket = v.socket,
           m.endEmitted = v.endEmitted, m.rx = <<>>, m.inbuf = v.inbuf,
           Stopped(m), Concluded(m),
           NEW code \in Nat, code = NoCode \/ IsValidStatusCode(code),
           NEW u, u = IF v.socket = "closed" THEN m ELSE Close(StopListening(m), code)
    PROVE  /\ Upholds(v, u) /\ In(u) = <<>> /\ Stopped(u) /\ u.endEmitted = v.endEmitted
<1>1. v.readyState # "CLOSED"
  BY DEF Orderly
<1>2. <<>> \o <<>> = <<>>
  BY EmptySeq, ConcatEmptySeq
<1>3. CASE v.socket = "closed"
  <2>1. u = m /\ v.inbuf = <<>> /\ ~Owes(m) /\ m.readyState = "CLOSING"
    BY <1>1, <1>3 DEF Orderly, Shut, Owes, Life, Typed, Connection
  <2>2. Orderly(m)
    BY <2>1, <1>3 DEF Orderly, Listening, Concluded, Shut
  <2>3. QED
    BY <1>2, <2>1, <2>2, <1>3 DEF Upholds, In
<1>4. CASE v.socket # "closed"
  <2> DEFINE n == [m EXCEPT !.inbuf = <<>>, !.paused = FALSE]
             c == Close(n, code)
  <2>1. u = c
    BY <1>4 DEF StopListening
  <2>2. Typed(n) /\ Life(n)
    BY EmptySeq DEF Typed, Connection, Life
  <2>3. /\ n.readyState = v.readyState /\ n.tx = v.tx /\ n.socket = v.socket
        /\ n.endEmitted = v.endEmitted /\ n.rx = <<>> /\ n.inbuf = <<>> /\ n.paused = FALSE
        /\ n.closeFrameReceived = m.closeFrameReceived /\ n.receiver = m.receiver
        /\ n.userPaused = m.userPaused /\ n.needDrain = m.needDrain
    BY DEF Typed, Connection
  <2> HIDE DEF n
  <2>4. n.readyState \in {"OPEN", "CLOSING"} /\ v.socket # "none"
    BY <1>1, <2>2, <2>3 DEF Typed, Connection, Life
  <2>5. Stopped(n)
    BY <2>3 DEF Stopped, Errored
  <2>6. CASE n.readyState = "OPEN"
    <3> DEFINE f == CloseFrame(code)
               d == [n EXCEPT !.readyState = "CLOSING", !.closeTimer = TRUE,
                              !.tx = Append(@, f)]
    <3>1. c = d
      BY <2>6 DEF Close, CloseThrows
    <3>2. f \in FrameType /\ f.op = "close"
      BY DEF CloseFrame, Frame, FrameType, NoStatus
    <3> HIDE DEF f, c
    <3>3. /\ d.readyState = "CLOSING" /\ d.tx = Append(v.tx, f) /\ d.socket = v.socket
          /\ d.endEmitted = v.endEmitted /\ d.rx = <<>> /\ d.inbuf = <<>>
          /\ Stopped(d)
      BY <2>2, <2>3, <2>5 DEF Typed, Connection, Stopped, Errored
    <3> HIDE DEF d
    <3>4. Orderly(d)
      BY <3>3 DEF Orderly, Listening, Shut, Stopped
    <3>5. QED
      BY <1>2, <2>1, <2>4, <3>1, <3>2, <3>3, <3>4 DEF Upholds, In
  <2>7. CASE n.readyState = "CLOSING"
    <3> DEFINE e == n.ended \/ (/\ n.closeFrameSent
                                /\ n.closeFrameReceived \/ Errored(n))
               d == [n EXCEPT !.ended = e]
    <3>1. c = d
      BY <2>7 DEF Close
    <3> HIDE DEF e, c
    <3>2. /\ d.readyState = "CLOSING" /\ d.tx = v.tx /\ d.socket = v.socket
          /\ d.endEmitted = v.endEmitted /\ d.rx = <<>> /\ d.inbuf = <<>>
          /\ Stopped(d)
      BY <2>2, <2>3, <2>5, <2>7 DEF Typed, Connection, Stopped, Errored
    <3> HIDE DEF d
    <3>3. Orderly(d) /\ (Owes(d) => Owes(v))
      BY <2>3, <2>7, <3>2 DEF Orderly, Listening, Shut, Stopped, Owes
    <3>4. QED
      BY <1>2, <2>1, <2>4, <3>1, <3>2, <3>3 DEF Upholds, In
  <2>8. QED
    BY <2>4, <2>6, <2>7
<1>5. QED
  BY <1>3, <1>4

LEMMA ReceiverOnConcludeUpholds ==
    ASSUME NEW v, Typed(v), Life(v), Orderly(v), v.rx # <<>>, Head(v.rx).op = "close",
           NEW u, u = ReceiverOnConclude(v)
    PROVE  Upholds(v, u) /\ In(u) = <<>> /\ Stopped(u) /\ u.endEmitted = v.endEmitted
<1> DEFINE code == Head(v.rx).val
           m == [v EXCEPT !.closeFrameReceived = TRUE, !.closeCode = code,
                          !.receiver = "finished", !.rx = <<>>]
           c == IF code = NoStatus THEN NoCode ELSE code
<1>1. code \in Nat /\ (code = NoStatus \/ IsValidStatusCode(code))
  BY FirstFrame DEF PeerFrame, FrameType
<1>2. c \in Nat /\ (c = NoCode \/ IsValidStatusCode(c))
  BY <1>1 DEF NoCode
<1>3. u = IF v.socket = "closed" THEN m ELSE Close(StopListening(m), c)
  BY DEF ReceiverOnConclude
<1> HIDE DEF code, c
<1>4. Typed(m) /\ Life(m)
  BY <1>1, EmptySeq DEF Typed, Connection, Life
<1>5. /\ m.readyState = v.readyState /\ m.tx = v.tx /\ m.socket = v.socket
      /\ m.endEmitted = v.endEmitted /\ m.rx = <<>> /\ m.inbuf = v.inbuf
      /\ Stopped(m) /\ Concluded(m)
  BY DEF Typed, Connection, Stopped, Concluded
<1> HIDE DEF m
<1>6. QED
  BY <1>2, <1>3, <1>4, <1>5, StopUpholds

LEMMA ReceiverOnErrorUpholds ==
    ASSUME NEW v, Typed(v), Life(v), Orderly(v), v.rx # <<>>,
           NEW u, u = ReceiverOnError(v)
    PROVE  Upholds(v, u) /\ In(u) = <<>> /\ Stopped(u) /\ u.endEmitted = v.endEmitted
<1> DEFINE m == [v EXCEPT !.receiver = "errored", !.rx = <<>>]
<1>1. ProtocolCode \in Nat /\ IsValidStatusCode(ProtocolCode)
  BY DEF ProtocolCode, IsValidStatusCode, NoStatus, Abnormal
<1>2. u = IF v.socket = "closed" THEN m ELSE Close(StopListening(m), ProtocolCode)
  BY DEF ReceiverOnError
<1>3. Typed(m) /\ Life(m)
  BY EmptySeq DEF Typed, Connection, Life
<1>4. /\ m.readyState = v.readyState /\ m.tx = v.tx /\ m.socket = v.socket
      /\ m.endEmitted = v.endEmitted /\ m.rx = <<>> /\ m.inbuf = v.inbuf
      /\ Stopped(m) /\ Concluded(m)
  BY DEF Typed, Connection, Stopped, Concluded, Errored
<1> HIDE DEF m
<1>5. QED
  BY <1>1, <1>2, <1>3, <1>4, StopUpholds

-----------------------------------------------------------------------------
\* The functions that Keeps does not cover.
LEMMA HandshakeClosedUpholds ==
    ASSUME NEW v, Typed(v), Life(v), Orderly(v), v.readyState = "CONNECTING" \/ v.abort # "no",
           NEW u, u = HandshakeClosed(v)
    PROVE  Upholds(v, u) /\ SameInput(v, u)
<1>1. u = [v EXCEPT !.readyState = "CLOSED", !.abort = "no"]
  BY DEF HandshakeClosed
<1>2. v.socket = "none" /\ v.rx = <<>>
  BY DEF Life
<1>3. Orderly(u) /\ SameInput(v, u)
  BY <1>1, <1>2 DEF Typed, Connection, Orderly, Listening, Shut, Stopped, Errored, Concluded,
                    SameInput, In
<1>4. ~Owes(u) /\ u.socket = v.socket /\ (Stopped(v) => Stopped(u))
  BY <1>1 DEF Typed, Connection, Stopped, Errored, Owes
<1>5. QED
  BY <1>3, <1>4 DEF Upholds

LEMMA EmitCloseUpholds ==
    ASSUME NEW v, Typed(v), Life(v), Orderly(v), MayFinish(v), NEW u, u = EmitClose(v)
    PROVE  /\ Upholds(v, u) /\ SameInput(v, u)
           /\ In(v) = <<>> /\ v.readyState = "CLOSING"
<1>1. u = [v EXCEPT !.readyState = "CLOSED"]
  BY DEF EmitClose
<1>2. v.rx = <<>> /\ v.inbuf = <<>> /\ v.readyState = "CLOSING"
  BY DEF Orderly, Concluded, MayFinish, Shut, Typed, Connection, Life
<1>3. Orderly(u) /\ SameInput(v, u)
  BY <1>1, <1>2 DEF Typed, Connection, Orderly, Listening, Shut, Stopped, Errored, Concluded,
                    SameInput, In
<1>4. ~Owes(u) /\ u.socket = v.socket /\ (Stopped(v) => Stopped(u))
  BY <1>1 DEF Typed, Connection, Stopped, Errored, Owes
<1>5. In(v) = <<>>
  BY <1>2, EmptySeq, ConcatEmptySeq DEF In
<1>6. QED
  BY <1>2, <1>3, <1>4, <1>5 DEF Upholds

LEMMA WrittenUpholds ==
    ASSUME NEW v, Typed(v), Life(v), Orderly(v), v.tx # <<>>, NEW u, u = Written(v)
    PROVE  /\ Orderly(u) /\ SameInput(v, u) /\ Owes(u) = Owes(v)
           /\ u.socket = v.socket /\ (Stopped(v) => Stopped(u))
<1> DEFINE t == Tail(v.tx)
           m == [v EXCEPT !.tx = t]
           e == m.ended \/ v.closeFrameReceived \/ Errored(v)
           d == [m EXCEPT !.closeFrameSent = TRUE, !.ended = e]
<1>1. u = m \/ u = d
  BY DEF Written
<1> HIDE DEF t, e
<1>2. Orderly(m) /\ SameInput(v, m) /\ Owes(m) = Owes(v) /\ m.socket = v.socket
      /\ (Stopped(v) => Stopped(m))
  BY DEF Typed, Connection, Orderly, Listening, Shut, Stopped, Errored, Concluded,
         SameInput, In, Owes
<1>3. Orderly(d) /\ SameInput(v, d) /\ Owes(d) = Owes(v) /\ d.socket = v.socket
      /\ (Stopped(v) => Stopped(d))
  BY DEF Typed, Connection, Orderly, Listening, Shut, Stopped, Errored, Concluded,
         SameInput, In, Owes
<1>4. QED
  BY <1>1, <1>2, <1>3

LEMMA AbortUpholds ==
    ASSUME NEW v, Typed(v), Life(v), Orderly(v)
    PROVE  /\ v.abort = "error" => LET u == [v EXCEPT !.abort = "close"]
                                   IN  Upholds(v, u) /\ SameInput(v, u)
           /\ v.readyState = "CONNECTING" =>
                 Upholds(v, AbortRequest(v)) /\ SameInput(v, AbortRequest(v))
<1>1. ASSUME v.abort = "error", NEW u, u = [v EXCEPT !.abort = "close"]
      PROVE  Upholds(v, u) /\ SameInput(v, u)
  <2>1. Orderly(u) /\ SameInput(v, u)
    BY <1>1 DEF Typed, Connection, Orderly, Listening, Shut, Stopped, Errored, Concluded,
                SameInput, In
  <2>2. u.tx = v.tx /\ u.socket = v.socket /\ (Stopped(v) => Stopped(u)) /\ Owes(v) = Owes(u)
    BY <1>1 DEF Typed, Connection, Stopped, Errored, Owes
  <2>3. QED
    BY <2>1, <2>2 DEF Upholds
<1>2. ASSUME v.readyState = "CONNECTING"
      PROVE  Upholds(v, AbortRequest(v)) /\ SameInput(v, AbortRequest(v))
  <2>1. Close(v, NoCode) = AbortRequest(v) /\ NoCode \in Nat
    BY <1>2 DEF Close, NoCode
  <2>2. QED
    BY <2>1, CloseUpholds
<1>3. QED
  BY <1>1, <1>2

-----------------------------------------------------------------------------
(***************************************************************************)
(* What has arrived (a), what is still to be parsed (s), and the messages  *)
(* emitted (e)                                                             *)
(***************************************************************************)

DataTo(a, k) == {i \in 1..k : a[i].op = "data"}

\* k frames of a were parsed, none of them refused; s is the rest.
Balance(s, a, e, k) ==
    /\ k \in 0..Len(a)
    /\ k + Len(s) = Len(a)
    /\ \A i \in 1..Len(s) : s[i] = a[k + i]
    /\ \A j \in 1..k : ~Refused(a[j])
    /\ e = DataTo(a, k)

Deliv(a) ==
    {i \in 1..Len(a) : a[i].op = "data" /\ \A j \in 1..(i - 1) : ~Refused(a[j])}

LEMMA BalanceTaken ==
    ASSUME NEW s \in Seq(FrameType), NEW a \in Seq(FrameType), NEW e, NEW k,
           Balance(s, a, e, k), NEW f \in FrameType
    PROVE  Balance(Append(s, f), Append(a, f), e, k)
<1> DEFINE t == Append(s, f)
           b == Append(a, f)
<1>1. /\ Len(t) = Len(s) + 1 /\ t[Len(s) + 1] = f /\ \A i \in 1..Len(s) : t[i] = s[i]
      /\ Len(b) = Len(a) + 1 /\ b[Len(a) + 1] = f /\ \A i \in 1..Len(a) : b[i] = a[i]
      /\ Len(s) \in Nat /\ Len(a) \in Nat
  BY AppendProperties, LenProperties
<1>2. k \in 0..Len(a) /\ k + Len(s) = Len(a)
  BY DEF Balance
<1> HIDE DEF t, b
<1> DEFINE n == Len(s)
           m == Len(a)
<1>0. n \in Nat /\ m \in Nat /\ k \in 0..m /\ k + n = m /\ Len(t) = n + 1 /\ Len(b) = m + 1
  BY <1>1, <1>2
<1> HIDE DEF n, m
<1>3. k \in 0..Len(b) /\ k + Len(t) = Len(b)
  BY <1>0
<1>4. ASSUME NEW i \in 1..Len(t) PROVE t[i] = b[k + i]
  <2>1. CASE i \in 1..Len(s)
    <3>1. k + i \in 1..Len(a)
      BY <1>1, <1>2, <2>1
    <3>2. s[i] = a[k + i]
      BY <2>1 DEF Balance
    <3>3. QED
      BY <1>1, <2>1, <3>1, <3>2
  <2>2. CASE i = Len(s) + 1
    <3>1. k + i = m + 1
      BY <1>0, <2>2 DEF n
    <3>2. QED
      BY <1>1, <2>2, <3>1 DEF m
  <2>3. QED
    BY <1>1, <2>1, <2>2
<1>5. \A j \in 1..k : b[j] = a[j]
  BY <1>1, <1>2
<1>6. \A j \in 1..k : ~Refused(b[j])
  BY <1>5 DEF Balance
<1>7. e = DataTo(b, k)
  BY <1>5 DEF Balance, DataTo
<1>8. QED
  BY <1>3, <1>4, <1>6, <1>7 DEF Balance, t, b

\* The front of what is to be parsed.
LEMMA FrontTaken ==
    ASSUME NEW r \in Seq(FrameType), NEW b \in Seq(FrameType), r # <<>>
    PROVE  /\ r \o b \in Seq(FrameType) /\ Tail(r) \o b \in Seq(FrameType)
           /\ Len(r \o b) \in Nat \ {0} /\ (r \o b)[1] = Head(r)
           /\ Len(Tail(r) \o b) = Len(r \o b) - 1
           /\ \A i \in 1..Len(Tail(r) \o b) : (Tail(r) \o b)[i] = (r \o b)[i + 1]
<1> DEFINE h == Head(r)
           t == Tail(r)
           c == t \o b
<1>1. h \in FrameType /\ t \in Seq(FrameType) /\ r = <<h>> \o t /\ <<h>> \in Seq(FrameType)
  BY HeadTailProperties
<1> HIDE DEF h, t
<1>2. c \in Seq(FrameType) /\ r \o b = <<h>> \o c /\ r \o b \in Seq(FrameType)
  BY <1>1, ConcatProperties, ConcatAssociative
<1> HIDE DEF c
<1>3. /\ Len(<<h>> \o c) = 1 + Len(c) /\ Len(c) \in Nat
      /\ (<<h>> \o c)[1] = h
      /\ \A i \in 1..Len(c) : (<<h>> \o c)[i + 1] = c[i]
  BY <1>1, <1>2, ConcatProperties, LenProperties
<1>4. QED
  BY <1>2, <1>3 DEF c, t, h

LEMMA BalanceHead ==
    ASSUME NEW r \in Seq(FrameType), NEW b \in Seq(FrameType), r # <<>>,
           NEW a \in Seq(FrameType), NEW e, NEW k, Balance(r \o b, a, e, k)
    PROVE  k + 1 \in 1..Len(a) /\ a[k + 1] = Head(r) /\ k \in Nat /\ Len(a) \in Nat
<1> DEFINE s == r \o b
<1>1. Len(s) \in Nat \ {0} /\ s[1] = Head(r) /\ Len(a) \in Nat
  BY FrontTaken, LenProperties
<1> HIDE DEF s
<1>2. k \in 0..Len(a) /\ k + Len(s) = Len(a) /\ \A i \in 1..Len(s) : s[i] = a[k + i]
  BY DEF Balance, s
<1>3. QED
  BY <1>1, <1>2

LEMMA BalanceParsed ==
    ASSUME NEW r \in Seq(FrameType), NEW b \in Seq(FrameType), r # <<>>,
           NEW a \in Seq(FrameType), NEW e, NEW k, Balance(r \o b, a, e, k),
           ~Refused(Head(r)),
           NEW d, d = IF Head(r).op = "data" THEN e \cup {k + 1} ELSE e
    PROVE  Balance(Tail(r) \o b, a, d, k + 1)
<1> DEFINE s == r \o b
           t == Tail(r) \o b
<1>1. /\ Len(s) \in Nat \ {0} /\ Len(t) = Len(s) - 1
      /\ \A i \in 1..Len(t) : t[i] = s[i + 1]
  BY FrontTaken
<1>2. k + 1 \in 1..Len(a) /\ a[k + 1] = Head(r) /\ k \in Nat /\ Len(a) \in Nat
  BY BalanceHead
<1> HIDE DEF s, t
<1>3. /\ k + Len(s) = Len(a) /\ \A i \in 1..Len(s) : s[i] = a[k + i]
      /\ \A j \in 1..k : ~Refused(a[j])
      /\ e = DataTo(a, k)
  BY DEF Balance, s
<1>4. k + 1 \in 0..Len(a) /\ (k + 1) + Len(t) = Len(a)
  BY <1>1, <1>2, <1>3
<1>5. ASSUME NEW i \in 1..Len(t) PROVE t[i] = a[(k + 1) + i]
  <2>1. i + 1 \in 1..Len(s) /\ k + (i + 1) = (k + 1) + i
    BY <1>1, <1>2
  <2>2. t[i] = s[i + 1] /\ s[i + 1] = a[k + (i + 1)]
    BY <1>1, <1>3, <2>1
  <2>3. QED
    BY <2>1, <2>2
<1>6. \A j \in 1..(k + 1) : j \in 1..k \/ j = k + 1
  BY <1>2
<1>7. \A j \in 1..(k + 1) : ~Refused(a[j])
  BY <1>2, <1>3, <1>6
<1>8. d = DataTo(a, k + 1)
  BY <1>2, <1>3, <1>6 DEF DataTo
<1>9. QED
  BY <1>4, <1>5, <1>7, <1>8 DEF Balance, t

\* The message at the front is due, and the first one that is.
LEMMA BalanceFirst ==
    ASSUME NEW r \in Seq(FrameType), NEW b \in Seq(FrameType), r # <<>>,
           NEW a \in Seq(FrameType), NEW e, NEW k, Balance(r \o b, a, e, k),
           Head(r).op = "data"
    PROVE  k + 1 \in Deliv(a) \ e /\ \A n \in Deliv(a) \ e : k + 1 <= n
<1>1. k + 1 \in 1..Len(a) /\ a[k + 1] = Head(r) /\ k \in Nat /\ Len(a) \in Nat
  BY BalanceHead
<1>2. e = {i \in 1..k : a[i].op = "data"} /\ \A j \in 1..k : ~Refused(a[j])
  BY DEF Balance, DataTo
<1>3. k + 1 \in Deliv(a)
  BY <1>1, <1>2 DEF Deliv
<1>4. k + 1 \notin e
  BY <1>1, <1>2
<1>5. ASSUME NEW n \in Deliv(a), n \notin e PROVE k + 1 <= n
  <2>1. n \in 1..Len(a) /\ a[n].op = "data"
    BY DEF Deliv
  <2>2. n \notin 1..k
    BY <1>2, <1>5, <2>1
  <2>3. QED
    BY <1>1, <2>1, <2>2
<1>6. QED
  BY <1>3, <1>4, <1>5

\* Everything before the refused frame was emitted.
LEMMA BalanceRefused ==
    ASSUME NEW r \in Seq(FrameType), NEW b \in Seq(FrameType), r # <<>>,
           NEW a \in Seq(FrameType), NEW e, NEW k, Balance(r \o b, a, e, k),
           Refused(Head(r))
    PROVE  e = Deliv(a)
<1>1. k + 1 \in 1..Len(a) /\ a[k + 1] = Head(r) /\ k \in Nat /\ Len(a) \in Nat
  BY BalanceHead
<1>2. e = {i \in 1..k : a[i].op = "data"} /\ \A j \in 1..k : ~Refused(a[j])
  BY DEF Balance, DataTo
<1>3. ASSUME NEW i \in Deliv(a) PROVE i \in e
  <2>1. i \in 1..Len(a) /\ a[i].op = "data" /\ \A j \in 1..(i - 1) : ~Refused(a[j])
    BY DEF Deliv
  <2>2. k + 1 \notin 1..(i - 1)
    BY <1>1, <2>1
  <2>3. i # k + 1
    BY <1>1, <2>1 DEF Refused
  <2>4. i \in 1..k
    BY <1>1, <2>1, <2>2, <2>3
  <2>5. QED
    BY <1>2, <2>1, <2>4
<1>4. ASSUME NEW i \in e PROVE i \in Deliv(a)
  <2>1. i \in 1..k /\ a[i].op = "data" /\ i \in 1..Len(a)
    BY <1>1, <1>2
  <2>2. \A j \in 1..(i - 1) : ~Refused(a[j])
    BY <1>1, <1>2, <2>1
  <2>3. QED
    BY <2>1, <2>2 DEF Deliv
<1>5. QED
  BY <1>3, <1>4

LEMMA BalanceDone ==
    ASSUME NEW a \in Seq(FrameType), NEW e, NEW k, Balance(<<>>, a, e, k)
    PROVE  e = Deliv(a)
<1>1. k = Len(a) /\ Len(a) \in Nat
  BY LenProperties DEF Balance
<1>2. e = {i \in 1..Len(a) : a[i].op = "data"} /\ \A j \in 1..Len(a) : ~Refused(a[j])
  BY <1>1 DEF Balance, DataTo
<1>3. ASSUME NEW i \in e PROVE i \in Deliv(a)
  <2>1. i \in 1..Len(a) /\ a[i].op = "data"
    BY <1>2
  <2>2. \A j \in 1..(i - 1) : ~Refused(a[j])
    BY <1>1, <1>2, <2>1
  <2>3. QED
    BY <2>1, <2>2 DEF Deliv
<1>4. Deliv(a) \subseteq e
  BY <1>2 DEF Deliv
<1>5. QED
  BY <1>3, <1>4

\* A frame arrives: it is due when it is a message and nothing before it was
\* refused.
LEMMA DelivTaken ==
    ASSUME NEW a \in Seq(FrameType), NEW f \in FrameType
    PROVE  /\ Len(a) \in Nat
           /\ Deliv(Append(a, f)) = Deliv(a) \/ Deliv(Append(a, f)) = Deliv(a) \cup {Len(a) + 1}
<1> DEFINE b == Append(a, f)
<1>1. /\ Len(b) = Len(a) + 1 /\ \A i \in 1..Len(a) : b[i] = a[i]
      /\ Len(a) \in Nat
  BY AppendProperties, LenProperties
<1> HIDE DEF b
<1>2. ASSUME NEW i \in 1..Len(a) PROVE i \in Deliv(b) <=> i \in Deliv(a)
  <2>1. b[i] = a[i] /\ i \in 1..Len(b)
    BY <1>1
  <2>2. \A j \in 1..(i - 1) : b[j] = a[j]
    BY <1>1
  <2>3. QED
    BY <2>1, <2>2 DEF Deliv
<1>3. \A i \in Deliv(b) : i \in 1..Len(a) \/ i = Len(a) + 1
  BY <1>1 DEF Deliv
<1>4. Deliv(a) \subseteq 1..Len(a)
  BY DEF Deliv
<1>5. CASE Len(a) + 1 \in Deliv(b)
  BY <1>1, <1>2, <1>3, <1>4, <1>5 DEF b
<1>6. CASE Len(a) + 1 \notin Deliv(b)
  <2>1. Deliv(b) \subseteq Deliv(a)
    BY <1>2, <1>3, <1>6
  <2>2. Deliv(a) \subseteq Deliv(b)
    BY <1>2, <1>4
  <2>3. QED
    BY <1>1, <2>1, <2>2 DEF b
<1>7. QED
  BY <1>5, <1>6

-----------------------------------------------------------------------------
(***************************************************************************)
(* The second invariant: the account of the messages, and the close frame  *)
(* that is owed                                                            *)
(***************************************************************************)

HasClose(out) == \E i \in 1..Len(out) : out[i].op = "close"

Answered == Owes(w) => HasClose(wire \o w.tx)

EndsAfterFin == w.endEmitted => peerFin

NothingYet == w.socket = "none" => arrived = <<>>

Numbered == \A i \in 1..Len(arrived) : arrived[i].op = "data" => arrived[i].val = i

\* What was not parsed is what arrived last; or the rest of the stream was
\* refused, and everything before was emitted.
Account ==
    \/ \E k \in Nat : Balance(In(w), arrived, Emitted, k)
    \/ Stopped(w) /\ In(w) = <<>> /\ Emitted = Deliverable

StreamInv ==
    /\ IInv
    /\ Orderly(w)
    /\ Answered
    /\ EndsAfterFin
    /\ NothingYet
    /\ Numbered
    /\ Account

\* The kinds of steps, by what they do to the input.
Quiet ==
    /\ Kept /\ Upholds(w, w') /\ In(w') = In(w)
    /\ UNCHANGED <<arrived, emitted>>

Takes ==
    /\ Kept /\ Upholds(w, w')
    /\ Listening(w) /\ w'.readyState = w.readyState
    /\ Len(arrived) < MaxArrive
    /\ \E f \in ArrivingFrames(Len(arrived) + 1) :
            In(w') = Append(In(w), f) /\ arrived' = Append(arrived, f)
    /\ UNCHANGED emitted

Emits ==
    /\ Kept /\ Upholds(w, w') /\ Shorter(w, w')
    /\ w.rx # <<>> /\ Head(w.rx).op = "data" /\ w'.readyState = w.readyState
    /\ emitted' = Append(emitted, Head(w.rx).val)
    /\ UNCHANGED arrived

Skips ==
    /\ Kept /\ Upholds(w, w') /\ Shorter(w, w')
    /\ w.rx # <<>> /\ Head(w.rx).op = "ping"
    /\ UNCHANGED <<arrived, emitted>>

Refuses ==
    /\ Kept /\ Upholds(w, w') /\ In(w') = <<>> /\ Stopped(w')
    /\ w.rx # <<>> /\ Refused(Head(w.rx))
    /\ UNCHANGED <<arrived, emitted>>

Closes ==
    /\ Ended /\ Upholds(w, w') /\ In(w') = In(w)
    /\ w.readyState \in {"CONNECTING", "CLOSING"}
    /\ w.socket = "none" \/ In(w) = <<>>
    /\ UNCHANGED <<arrived, emitted>>

Writes ==
    /\ Wrote /\ Orderly(w') /\ In(w') = In(w) /\ Owes(w') = Owes(w)
    /\ w'.socket = w.socket /\ (Stopped(w) => Stopped(w'))
    /\ UNCHANGED <<arrived, emitted>>

Kind == Quiet \/ Takes \/ Emits \/ Skips \/ Refuses \/ Closes \/ Writes

LEMMA ParseFrameKind ==
    ASSUME StreamInv, w.rx # <<>>, ParseFrame
    PROVE  (Emits \/ Skips \/ Refuses) /\ EndsAfterFin'
<1>1. Typed(w) /\ Life(w) /\ Orderly(w) /\ EndsAfterFin /\ IInv
  BY DEF StreamInv, IInv
<1>2. Kept
  BY <1>1, ParseFrameStep
<1>3. UNCHANGED <<arrived, peerFin>>
  BY DEF ParseFrame, Environment
<1>4. CASE Head(w.rx).op = "data" /\ w' = Parsed(w) /\ emitted' = Append(emitted, Head(w.rx).val)
  <2>1. Upholds(w, w') /\ Shorter(w, w') /\ w'.readyState = w.readyState
    BY <1>1, <1>4, ParsedUpholds, ParsedKeeps
  <2>2. QED
    BY <1>1, <1>2, <1>3, <1>4, <2>1 DEF Emits, EndsAfterFin, Shorter
<1>5. CASE Head(w.rx).op = "ping" /\ w' = ReceiverOnPing(w) /\ UNCHANGED emitted
  <2>1. Upholds(w, w') /\ Shorter(w, w')
    BY <1>1, <1>5, ReceiverOnPingUpholds
  <2>2. QED
    BY <1>1, <1>2, <1>3, <1>5, <2>1 DEF Skips, EndsAfterFin, Shorter
<1>6. CASE Head(w.rx).op = "close" /\ w' = ReceiverOnConclude(w) /\ UNCHANGED emitted
  <2>1. Upholds(w, w') /\ In(w') = <<>> /\ Stopped(w') /\ w'.endEmitted = w.endEmitted
    BY <1>1, <1>6, ReceiverOnConcludeUpholds
  <2>2. QED
    BY <1>1, <1>2, <1>3, <1>6, <2>1 DEF Refuses, EndsAfterFin, Refused
<1>7. CASE Head(w.rx).op = "bad" /\ w' = ReceiverOnError(w) /\ UNCHANGED emitted
  <2>1. Upholds(w, w') /\ In(w') = <<>> /\ Stopped(w') /\ w'.endEmitted = w.endEmitted
    BY <1>1, <1>7, ReceiverOnErrorUpholds
  <2>2. QED
    BY <1>1, <1>2, <1>3, <1>7, <2>1 DEF Refuses, EndsAfterFin, Refused
<1>8. QED
  BY <1>4, <1>5, <1>6, <1>7 DEF ParseFrame

\* A step that changes nothing but the connection, in a way that Keeps covers.
LEMMA QuietStep ==
    ASSUME StreamInv, Keeps(w, w'), Upholds(w, w'), SameInput(w, w'),
           UNCHANGED <<arrived, emitted, wire, closes>>, peerFin => peerFin'
    PROVE  Quiet /\ EndsAfterFin'
BY DEF StreamInv, EndsAfterFin, Quiet, Kept, SameInput

LEMMA ClosedStep ==
    ASSUME StreamInv, w.readyState = "CONNECTING" \/ w.abort # "no", w' = HandshakeClosed(w),
           closes' = closes + 1, UNCHANGED <<peerFin, arrived, emitted, wire>>
    PROVE  Closes /\ EndsAfterFin'
<1>1. Typed(w) /\ Life(w) /\ Orderly(w) /\ EndsAfterFin
  BY DEF StreamInv, IInv
<1>2. Ended
  BY <1>1, HandshakeClosedEnds DEF Ended
<1>3. Upholds(w, w') /\ SameInput(w, w')
  BY <1>1, HandshakeClosedUpholds
<1>4. w.socket = "none" /\ w.readyState \in {"CONNECTING", "CLOSING"}
  BY <1>1 DEF Life
<1>5. QED
  BY <1>1, <1>2, <1>3, <1>4 DEF Closes, EndsAfterFin, SameInput

LEMMA TurnKind == ASSUME StreamInv, Turn PROVE Kind /\ EndsAfterFin'
<1>1. Typed(w) /\ Life(w) /\ Orderly(w) /\ EndsAfterFin
  BY DEF StreamInv, IInv
<1>2. CASE Parse
  BY <1>2, ParseFrameKind DEF Parse, CanParse, Kind
<1>3. CASE Flow
  <2>1. Keeps(w, w') /\ Upholds(w, w') /\ SameInput(w, w')
    BY <1>1, <1>3, FlowOneKeeps, FlowOneUpholds DEF Flow
  <2>2. QED
    BY <1>3, <2>1, QuietStep DEF Flow, Environment, History, Kind
<1>4. CASE Finish
  <2>1. Ended
    BY <1>1, <1>4, EmitCloseEnds DEF Finish, Ended
  <2>2. /\ Upholds(w, w') /\ SameInput(w, w') /\ In(w) = <<>> /\ w.readyState = "CLOSING"
    BY <1>1, <1>4, EmitCloseUpholds DEF Finish
  <2>3. QED
    BY <1>1, <1>4, <2>1, <2>2 DEF Finish, Environment, Closes, Kind, EndsAfterFin, SameInput
<1>5. CASE AbortTick
  <2>1. CASE w.abort = "tick" /\ w' = HandshakeClosed(w) /\ closes' = closes + 1
    BY <1>5, <2>1, ClosedStep DEF AbortTick, Environment, Kind
  <2>2. CASE w.abort = "error" /\ w' = [w EXCEPT !.abort = "close"] /\ UNCHANGED closes
    <3>1. Keeps(w, w') /\ Upholds(w, w') /\ SameInput(w, w')
      BY <1>1, <2>2, AbortErrorKeeps, AbortUpholds
    <3>2. QED
      BY <1>5, <2>2, <3>1, QuietStep DEF AbortTick, Environment, Kind
  <2>3. QED
    BY <1>5, <2>1, <2>2 DEF AbortTick
<1>6. QED
  BY <1>2, <1>3, <1>4, <1>5 DEF Turn

LEMMA HandshakeKind == ASSUME StreamInv, Handshake PROVE Kind /\ EndsAfterFin'
<1>1. Typed(w) /\ Life(w) /\ Orderly(w)
  BY DEF StreamInv, IInv
<1>2. CASE Upgrade
  <2>1. w.readyState = "CONNECTING"
    BY <1>2 DEF Upgrade
  <2>2. Keeps(w, w')
    BY <1>1, <1>2, UpgradedKeeps, AbortRequestKeeps DEF Upgrade
  <2>3. Upholds(w, w') /\ SameInput(w, w')
    BY <1>1, <1>2, <2>1, UpgradedUpholds, AbortUpholds, AbortRequestKeeps DEF Upgrade
  <2>4. QED
    BY <1>2, <2>2, <2>3, QuietStep DEF Upgrade, Environment, History, Kind
<1>3. CASE RequestFails
  BY <1>3, ClosedStep DEF RequestFails, Environment, Kind
<1>4. CASE UnexpectedResponse
  <2>1. Keeps(w, w') /\ Upholds(w, w') /\ SameInput(w, w')
    BY <1>1, <1>4, AbortRequestKeeps, AbortUpholds DEF UnexpectedResponse
  <2>2. QED
    BY <1>4, <2>1, QuietStep DEF UnexpectedResponse, Environment, History, Kind
<1>5. CASE StreamClosed
  BY <1>5, ClosedStep DEF StreamClosed, Environment, Kind
<1>6. QED
  BY <1>2, <1>3, <1>4, <1>5 DEF Handshake

LEMMA ProgramKind == ASSUME StreamInv, Program PROVE Kind /\ EndsAfterFin'
<1>1. Typed(w) /\ Life(w) /\ Orderly(w)
  BY DEF StreamInv, IInv
<1>2. ASSUME NEW c \in UserCodes, UserClose(c) PROVE Kind /\ EndsAfterFin'
  <2>1. Keeps(w, w') /\ Upholds(w, w') /\ SameInput(w, w')
    BY <1>1, <1>2, UserCodesAreGood, CloseKeeps, CloseUpholds DEF UserClose
  <2>2. QED
    BY <1>2, <2>1, QuietStep DEF UserClose, Environment, History, Kind
<1>3. CASE UserSend
  <2> DEFINE f == Frame("data", sent, FALSE)
  <2>1. f \in FrameType /\ f.op # "close"
    BY DEF Frame, FrameType, StreamInv, IInv, TypeOK
  <2>2. Keeps(w, w') /\ Upholds(w, w') /\ SameInput(w, w')
    BY <1>1, <1>3, <2>1, SendFrameKeeps, SendFrameUpholds DEF UserSend
  <2>3. QED
    BY <1>3, <2>2, QuietStep DEF UserSend, History, Kind
<1>4. CASE UserTerminate
  <2>1. Keeps(w, w') /\ Upholds(w, w') /\ SameInput(w, w')
    BY <1>1, <1>4, TerminateKeeps, TerminateUpholds DEF UserTerminate
  <2>2. QED
    BY <1>4, <2>1, QuietStep DEF UserTerminate, Environment, History, Kind
<1>5. CASE UserPause
  <2>1. Keeps(w, w') /\ Upholds(w, w') /\ SameInput(w, w')
    BY <1>1, <1>5, PauseResumeKeep, PauseResumeUpholds DEF UserPause
  <2>2. QED
    BY <1>5, <2>1, QuietStep DEF UserPause, History, Kind
<1>6. CASE UserResume
  <2>1. Keeps(w, w') /\ Upholds(w, w') /\ SameInput(w, w')
    BY <1>1, <1>6, PauseResumeKeep, PauseResumeUpholds DEF UserResume
  <2>2. QED
    BY <1>6, <2>1, QuietStep DEF UserResume, Environment, History, Kind
<1>7. QED
  BY <1>2, <1>3, <1>4, <1>5, <1>6 DEF Program

LEMMA NetworkKind == ASSUME StreamInv, Network PROVE Kind /\ EndsAfterFin'
<1>1. Typed(w) /\ Life(w) /\ Orderly(w) /\ EndsAfterFin
  BY DEF StreamInv, IInv
<1>2. ASSUME NEW f \in ArrivingFrames(Len(arrived) + 1), NetData(f)
      PROVE  Kind /\ EndsAfterFin'
  <2>1. arrived \in Seq(FrameType) /\ Len(arrived) + 1 \in Nat
    BY LenProperties DEF StreamInv, IInv, TypeOK
  <2>2. f \in PeerFrame
    BY <2>1, ArrivingAreGood
  <2>3. Listening(w) /\ ~w.endEmitted /\ w' = Arrive(w, f)
    BY <1>1, <1>2 DEF NetData, EndsAfterFin
  <2>4. Keeps(w, w')
    BY <1>1, <2>2, <2>3, ArriveKeeps
  <2>5. /\ Upholds(w, w') /\ In(w') = Append(In(w), f)
        /\ w'.endEmitted = w.endEmitted /\ w'.readyState = w.readyState
    BY <1>1, <2>2, <2>3, ArriveUpholds
  <2>6. QED
    BY <1>2, <2>3, <2>4, <2>5 DEF NetData, History, Takes, Kept, Kind, EndsAfterFin
<1>3. CASE NetFin
  <2>1. Keeps(w, w') /\ Upholds(w, w') /\ SameInput(w, w')
    BY <1>1, <1>3, SameState, SameUpholds DEF NetFin, Keeps
  <2>2. QED
    BY <1>3, <2>1, QuietStep DEF NetFin, History, Kind
<1>4. CASE NetEnd
  <2>1. Keeps(w, w') /\ Upholds(w, w') /\ In(w') = In(w)
    BY <1>1, <1>4, SocketOnEndKeeps, SocketOnEndUpholds DEF NetEnd
  <2>2. QED
    BY <1>4, <2>1 DEF NetEnd, Environment, History, Quiet, Kept, Kind, EndsAfterFin
<1>5. CASE NetError
  <2>1. Keeps(w, w') /\ Upholds(w, w') /\ SameInput(w, w')
    BY <1>1, <1>5, DestroyKeeps, DestroyUpholds DEF NetError
  <2>2. QED
    BY <1>5, <2>1, QuietStep DEF NetError, Environment, History, Kind
<1>6. CASE NetClose
  <2>1. w.readyState # "CLOSED"
    BY <1>1, <1>6 DEF NetClose, MayEmitClose, Life
  <2>2. Keeps(w, w') /\ Upholds(w, w') /\ SameInput(w, w')
    BY <1>1, <1>6, <2>1, SocketOnCloseKeeps, SocketOnCloseUpholds DEF NetClose
  <2>3. QED
    BY <1>6, <2>2, QuietStep DEF NetClose, Environment, History, Kind
<1>7. CASE NetWrite
  <2>1. Wrote
    BY <1>1, <1>7, WrittenKeeps DEF NetWrite, Wrote
  <2>2. /\ Orderly(w') /\ SameInput(w, w') /\ Owes(w') = Owes(w)
        /\ w'.socket = w.socket /\ (Stopped(w) => Stopped(w'))
    BY <1>1, <1>7, WrittenUpholds DEF NetWrite
  <2>3. QED
    BY <1>1, <1>7, <2>1, <2>2 DEF NetWrite, Environment, Writes, Kind, SameInput, EndsAfterFin
<1>8. CASE Inflated
  BY <1>8, ParseFrameKind DEF Inflated, Inflating, Kind
<1>9. CASE Timeout
  <2>1. Keeps(w, w') /\ Upholds(w, w') /\ SameInput(w, w')
    BY <1>1, <1>9, DestroyKeeps, DestroyUpholds DEF Timeout
  <2>2. QED
    BY <1>9, <2>1, QuietStep DEF Timeout, Environment, History, Kind
<1>10. QED
  BY <1>2, <1>3, <1>4, <1>5, <1>6, <1>7, <1>8, <1>9 DEF Network

LEMMA StepKind == ASSUME StreamInv, [Next]_vars PROVE Kind /\ EndsAfterFin'
<1>1. CASE UNCHANGED vars
  <2>1. Keeps(w, w') /\ Upholds(w, w') /\ SameInput(w, w')
    BY <1>1, SameState, SameUpholds DEF vars, StreamInv, IInv, Keeps
  <2>2. QED
    BY <1>1, <2>1, QuietStep DEF vars, Kind
<1>2. QED
  BY <1>1, TurnKind, HandshakeKind, ProgramKind, NetworkKind DEF Next

\* A 'message' event adds one message to those emitted.
LEMMA EmittedMore ==
    ASSUME NEW s \in Seq(Nat), NEW n \in Nat
    PROVE  {Append(s, n)[k] : k \in 1..Len(Append(s, n))} = {s[k] : k \in 1..Len(s)} \cup {n}
<1>1. /\ Len(Append(s, n)) = Len(s) + 1 /\ Append(s, n)[Len(s) + 1] = n
      /\ \A k \in 1..Len(s) : Append(s, n)[k] = s[k]
      /\ Len(s) \in Nat
  BY AppendProperties, LenProperties
<1>2. \A k \in 1..(Len(s) + 1) : k \in 1..Len(s) \/ k = Len(s) + 1
  BY <1>1
<1>3. 1..Len(s) \subseteq 1..(Len(s) + 1) /\ Len(s) + 1 \in 1..(Len(s) + 1)
  BY <1>1
<1>4. QED
  BY <1>1, <1>2, <1>3

LEMMA TypedInput ==
    ASSUME NEW v, Typed(v)
    PROVE  v.rx \in Seq(FrameType) /\ v.inbuf \in Seq(FrameType) /\ In(v) \in Seq(FrameType)
<1>1. v.rx \in Seq(FrameType) /\ v.inbuf \in Seq(FrameType)
  BY DEF Typed, Connection
<1>2. QED
  BY <1>1, ConcatProperties DEF In

\* The connection takes a frame only while it is listening, so that nothing was
\* refused before.
LEMMA TakesAccount ==
    ASSUME StreamInv, Takes
    PROVE  NothingYet' /\ Numbered' /\ Account'
<1>1. PICK f \in ArrivingFrames(Len(arrived) + 1) :
            In(w') = Append(In(w), f) /\ arrived' = Append(arrived, f)
  BY DEF Takes
<1>2. Typed(w) /\ arrived \in Seq(FrameType) /\ Len(arrived) \in Nat
  BY LenProperties DEF StreamInv, IInv, TypeOK
<1>3. f \in FrameType
  BY <1>2, ArrivingAreGood DEF PeerFrame
<1>4. f.op = "data" => f.val = Len(arrived) + 1
  BY DEF ArrivingFrames, Frame
<1>5. PICK k \in Nat : Balance(In(w), arrived, Emitted, k)
  BY DEF StreamInv, Account, Takes, Listening, Stopped
<1>6. In(w) \in Seq(FrameType)
  BY <1>2, TypedInput
<1> DEFINE s == In(w)
           e == Emitted
<1>7. Emitted' = e
  BY DEF Takes, Emitted
<1> HIDE DEF s, e
<1>8. Balance(Append(s, f), Append(arrived, f), e, k)
  BY <1>2, <1>3, <1>5, <1>6, BalanceTaken DEF s, e
<1>9. Account'
  BY <1>1, <1>7, <1>8 DEF Account, s
<1>10. Numbered'
  <2>1. /\ Len(arrived') = Len(arrived) + 1 /\ arrived'[Len(arrived) + 1] = f
        /\ \A i \in 1..Len(arrived) : arrived'[i] = arrived[i]
    BY <1>1, <1>2, <1>3, AppendProperties
  <2>2. ASSUME NEW i \in 1..Len(arrived'), arrived'[i].op = "data"
        PROVE  arrived'[i].val = i
    <3>1. CASE i \in 1..Len(arrived)
      BY <2>1, <2>2, <3>1 DEF StreamInv, Numbered
    <3>2. CASE i = Len(arrived) + 1
      BY <1>4, <2>1, <2>2, <3>2
    <3>3. QED
      BY <1>2, <2>1, <3>1, <3>2
  <2>3. QED
    BY <2>2 DEF Numbered
<1>11. NothingYet'
  BY DEF Takes, Upholds, Listening, NothingYet
<1>12. QED
  BY <1>9, <1>10, <1>11

\* While a frame is to be parsed, the account is a balance.
LEMMA ToParse ==
    ASSUME StreamInv, w.rx # <<>>
    PROVE  \E k \in Nat : Balance(w.rx \o w.inbuf, arrived, Emitted, k)
<1>1. w.rx \in Seq(FrameType) /\ w.inbuf \in Seq(FrameType)
  BY TypedInput DEF StreamInv, IInv
<1> DEFINE r == w.rx
           b == w.inbuf
<1>2. In(w) # <<>>
  <2> HIDE DEF r, b
  <2>1. Len(r \o b) \in Nat \ {0}
    BY <1>1, FrontTaken DEF r, b
  <2>2. r \o b # <<>>
    BY <2>1, EmptySeq
  <2>3. QED
    BY <2>2 DEF In, r, b
<1>3. QED
  BY <1>2 DEF StreamInv, Account, In

LEMMA EmitsAccount ==
    ASSUME StreamInv, Emits
    PROVE  /\ Account'
           /\ Head(w.rx).val \in Deliverable \ Emitted
           /\ \A n \in Deliverable \ Emitted : Head(w.rx).val <= n
           /\ Emitted' = Emitted \cup {Head(w.rx).val}
<1> DEFINE r == w.rx
           b == w.inbuf
           e == Emitted
           h == Head(r)
<1>1. r \in Seq(FrameType) /\ b \in Seq(FrameType) /\ arrived \in Seq(FrameType) /\ r # <<>>
  BY TypedInput DEF StreamInv, IInv, TypeOK, Emits
<1>2. PICK k \in Nat : Balance(r \o b, arrived, e, k)
  BY ToParse DEF Emits
<1>3. h.op = "data" /\ emitted' = Append(emitted, h.val) /\ arrived' = arrived
  BY DEF Emits
<1>4. In(w') = Tail(r) \o b
  BY DEF Emits, Shorter
<1> HIDE DEF r, b, e, h
<1>5. k + 1 \in 1..Len(arrived) /\ arrived[k + 1] = Head(r)
  BY <1>1, <1>2, BalanceHead
<1>6. h.val = k + 1
  BY <1>3, <1>5 DEF h, StreamInv, Numbered
<1>7. ~Refused(h)
  BY <1>3 DEF Refused
<1> DEFINE d == e \cup {k + 1}
<1>8. Balance(Tail(r) \o b, arrived, d, k + 1)
  <2>1. d = IF Head(r).op = "data" THEN e \cup {k + 1} ELSE e
    BY <1>3 DEF h
  <2> HIDE DEF d
  <2>2. QED
    BY <1>1, <1>2, <1>7, <2>1, BalanceParsed DEF h
<1>9. Emitted' = d
  BY <1>3, <1>6, EmittedMore DEF Emitted, StreamInv, IInv, TypeOK, e
<1>10. k + 1 \in Deliv(arrived) \ e /\ \A n \in Deliv(arrived) \ e : k + 1 <= n
  BY <1>1, <1>2, <1>3, BalanceFirst DEF h
<1>11. Deliverable = Deliv(arrived)
  BY DEF Deliverable, Deliv
<1>12. Account'
  BY <1>3, <1>4, <1>8, <1>9 DEF Account
<1>13. QED
  BY <1>6, <1>9, <1>10, <1>11, <1>12 DEF e, h, r

LEMMA SkipsAccount == ASSUME StreamInv, Skips PROVE Account'
<1> DEFINE r == w.rx
           b == w.inbuf
           e == Emitted
<1>1. r \in Seq(FrameType) /\ b \in Seq(FrameType) /\ arrived \in Seq(FrameType) /\ r # <<>>
  BY TypedInput DEF StreamInv, IInv, TypeOK, Skips
<1>2. PICK k \in Nat : Balance(r \o b, arrived, e, k)
  BY ToParse DEF Skips
<1>3. In(w') = Tail(r) \o b /\ Emitted' = e /\ arrived' = arrived /\ Head(r).op = "ping"
  BY DEF Skips, Shorter, Emitted
<1> HIDE DEF r, b, e
<1>4. Balance(Tail(r) \o b, arrived, e, k + 1)
  BY <1>1, <1>2, <1>3, BalanceParsed DEF Refused
<1>5. QED
  BY <1>3, <1>4 DEF Account

LEMMA RefusesAccount == ASSUME StreamInv, Refuses PROVE Account'
<1> DEFINE r == w.rx
           b == w.inbuf
           e == Emitted
<1>1. r \in Seq(FrameType) /\ b \in Seq(FrameType) /\ arrived \in Seq(FrameType) /\ r # <<>>
  BY TypedInput DEF StreamInv, IInv, TypeOK, Refuses
<1>2. PICK k \in Nat : Balance(r \o b, arrived, e, k)
  BY ToParse DEF Refuses
<1>3. /\ In(w') = <<>> /\ Stopped(w') /\ Emitted' = e /\ Deliverable' = Deliv(arrived)
      /\ Refused(Head(r))
  BY DEF Refuses, Emitted, Deliverable, Deliv
<1> HIDE DEF r, b, e
<1>4. e = Deliv(arrived)
  BY <1>1, <1>2, <1>3, BalanceRefused
<1>5. QED
  BY <1>3, <1>4 DEF Account

LEMMA KindAccount ==
    ASSUME StreamInv, Kind
    PROVE  Orderly(w') /\ NothingYet' /\ Numbered' /\ Account'
<1>1. CASE Takes
  BY <1>1, TakesAccount DEF Takes, Upholds
<1>2. CASE Emits
  BY <1>2, EmitsAccount DEF Emits, Upholds, StreamInv, NothingYet, Numbered
<1>3. CASE Skips
  BY <1>3, SkipsAccount DEF Skips, Upholds, StreamInv, NothingYet, Numbered
<1>4. CASE Refuses
  BY <1>4, RefusesAccount DEF Refuses, Upholds, StreamInv, NothingYet, Numbered
<1>5. CASE Quiet \/ Closes \/ Writes
  <2>1. /\ Orderly(w') /\ In(w') = In(w) /\ (Stopped(w) => Stopped(w'))
        /\ w'.socket = "none" => w.socket = "none"
        /\ arrived' = arrived /\ emitted' = emitted
    BY <1>5 DEF Quiet, Closes, Writes, Upholds
  <2>2. NothingYet' /\ Numbered'
    BY <2>1 DEF StreamInv, NothingYet, Numbered
  <2>3. Emitted' = Emitted /\ Deliverable' = Deliverable
    BY <2>1 DEF Emitted, Deliverable
  <2>4. Account'
    BY <2>1, <2>3 DEF StreamInv, Account
  <2>5. QED
    BY <2>1, <2>2, <2>4
<1>6. QED
  BY <1>1, <1>2, <1>3, <1>4, <1>5 DEF Kind

\* A close frame that is handed over is among the frames of the connection.
LEMMA CloseHanded ==
    ASSUME NEW s \in Seq(FrameType), NEW t \in Seq(FrameType), NEW f \in FrameType,
           f.op = "close"
    PROVE  HasClose(s \o Append(t, f))
<1> DEFINE o == s \o t
<1>1. o \in Seq(FrameType) /\ s \o Append(t, f) = Append(o, f)
  BY ConcatProperties, AppendInput
<1> HIDE DEF o
<1>2. /\ Len(Append(o, f)) = Len(o) + 1 /\ Append(o, f)[Len(o) + 1] = f
      /\ Len(o) \in Nat
  BY <1>1, AppendProperties, LenProperties
<1>3. QED
  BY <1>1, <1>2 DEF HasClose

LEMMA KindAnswered == ASSUME StreamInv, Kind PROVE Answered'
<1>1. wire \in Seq(FrameType) /\ w.tx \in Seq(FrameType) /\ Answered
  BY DEF StreamInv, IInv, TypeOK, Connection
<1>2. CASE Closes
  BY <1>2 DEF Closes, Ended, Answered, Owes
<1>3. CASE Writes
  <2>1. wire' \o w'.tx = wire \o w.tx
    BY <1>1, <1>3, FrameWritten DEF Writes, Wrote
  <2>2. QED
    BY <1>1, <1>3, <2>1 DEF Writes, Answered
<1>4. CASE Kept /\ Upholds(w, w')
  <2>1. wire' = wire
    BY <1>4 DEF Kept
  <2>2. CASE Owes(w) /\ w'.tx = w.tx
    BY <1>1, <2>1, <2>2 DEF Answered
  <2>3. CASE \E f \in FrameType : f.op = "close" /\ w'.tx = Append(w.tx, f)
    <3>1. PICK f \in FrameType : f.op = "close" /\ w'.tx = Append(w.tx, f)
      BY <2>3
    <3> DEFINE t == w.tx
    <3> HIDE DEF t
    <3>2. HasClose(wire \o Append(t, f))
      BY <1>1, <3>1, CloseHanded DEF t
    <3>3. QED
      BY <2>1, <3>1, <3>2 DEF Answered, t
  <2>4. QED
    BY <1>4, <2>2, <2>3 DEF Upholds, Answered
<1>5. QED
  BY <1>2, <1>3, <1>4 DEF Kind, Quiet, Takes, Emits, Skips, Refuses

LEMMA InitStreamInv == Init => StreamInv
<1> SUFFICES ASSUME Init PROVE StreamInv
  OBVIOUS
<1>1. IInv
  BY InitIInv
<1>2. \/ w = NewConnection("CONNECTING", "none")
      \/ w = NewConnection("OPEN", "up")
  BY DEF Init, Connecting, Accepted, SetSocket, NewConnection
<1>3. Orderly(w) /\ ~Owes(w) /\ ~w.endEmitted /\ w.rx = <<>> /\ w.inbuf = <<>>
  BY <1>2 DEF Orderly, NewConnection, Listening, Shut, Stopped, Errored, Concluded, Owes
<1>4. In(w) = <<>>
  BY <1>3, EmptySeq, ConcatEmptySeq DEF In
<1>5. Emitted = {} /\ arrived = <<>>
  BY DEF Init, Emitted
<1>6. Balance(<<>>, <<>>, {}, 0)
  BY DEF Balance, DataTo
<1>7. Account
  BY <1>4, <1>5, <1>6 DEF Account
<1>8. Numbered
  BY <1>5 DEF Numbered
<1>9. QED
  BY <1>1, <1>3, <1>5, <1>7, <1>8 DEF StreamInv, Answered, EndsAfterFin, NothingYet

LEMMA StepStreamInv == ASSUME StreamInv, [Next]_vars PROVE StreamInv'
<1>1. Kind /\ EndsAfterFin'
  BY StepKind
<1>2. IInv'
  BY StepIInv DEF StreamInv
<1>3. QED
  BY <1>1, <1>2, KindAccount, KindAnswered DEF StreamInv

LEMMA StreamInductive == Spec => []StreamInv
<1>1. Init => StreamInv
  BY InitStreamInv
<1>2. StreamInv /\ [Next]_vars => StreamInv'
  BY StepStreamInv
<1>3. QED
  BY <1>1, <1>2, PTL DEF Spec

\* Neither pause() and resume() nor the receiver's 'drain' undoes the other: while
\* the socket is read, it is paused exactly when one of them wants it.
THEOREM PausedOnlyForAReason == Spec => []PausedForAReason
<1>1. StreamInv => PausedForAReason
  BY DEF StreamInv, Orderly, PausedForAReason
<1>2. QED
  BY <1>1, StreamInductive, PTL

\* receiverOnConclude answers the peer's close frame, unless the connection was
\* being shut down already.
THEOREM CloseIsAnswered == Spec => []CloseFrameAnswered
<1>1. ASSUME StreamInv PROVE CloseFrameAnswered
  <2>1. SUFFICES ASSUME w.closeFrameReceived, w.socket = "up", ~w.endEmitted
                 PROVE  \E i \in 1..Len(wire \o w.tx) : (wire \o w.tx)[i].op = "close"
    BY DEF CloseFrameAnswered
  <2>2. w.readyState = "CLOSING"
    BY <1>1, <2>1 DEF StreamInv, IInv, Orderly, Life
  <2>3. QED
    BY <1>1, <2>1, <2>2 DEF StreamInv, Answered, Owes, HasClose
<1>2. StreamInv => CloseFrameAnswered
  BY <1>1
<1>3. QED
  BY <1>2, StreamInductive, PTL

-----------------------------------------------------------------------------
(***************************************************************************)
(* WebSocket implements WebSocketLife                                      *)
(***************************************************************************)

LEMMA Delivered == Deliverable = Deliv(arrived)
BY DEF Deliverable, Deliv

\* A step with no message in it opens the connection, starts to close it or is
\* not seen by the program.
LEMMA SilentStep ==
    ASSUME StreamInv, Kept, UNCHANGED <<arrived, emitted>>
    PROVE  [Promise!Next]_(Promise!vars)
<1>1. Due' = Due /\ closes' = closes /\ emitted' = emitted
  BY DEF Due, Deliverable, Emitted, Kept
<1>2. /\ w.readyState \in {"CONNECTING", "OPEN", "CLOSING", "CLOSED"}
      /\ w'.readyState \in {"CONNECTING", "OPEN", "CLOSING", "CLOSED"}
      /\ Rank[w'.readyState] >= Rank[w.readyState]
      /\ w'.readyState = "CLOSED" => w.readyState = "CLOSED"
  BY DEF StreamInv, IInv, Kept, Keeps, Onward, Typed, Connection
<1>3. \/ w'.readyState = w.readyState
      \/ w.readyState = "CONNECTING" /\ w'.readyState = "OPEN"
      \/ w.readyState \in {"CONNECTING", "OPEN"} /\ w'.readyState = "CLOSING"
  BY <1>2, RanksAreNumbers
<1>4. CASE w'.readyState = w.readyState
  BY <1>1, <1>4 DEF Promise!vars
<1>5. CASE w.readyState = "CONNECTING" /\ w'.readyState = "OPEN"
  <2>1. Promise!Open
    BY <1>1, <1>5 DEF Promise!Open
  <2>2. QED
    BY <2>1 DEF Promise!Next
<1>6. CASE w.readyState \in {"CONNECTING", "OPEN"} /\ w'.readyState = "CLOSING"
  <2>1. Promise!StartClosing
    BY <1>1, <1>6 DEF Promise!StartClosing
  <2>2. QED
    BY <2>1 DEF Promise!Next
<1>7. QED
  BY <1>3, <1>4, <1>5, <1>6

\* A message that arrives after one that was refused is never due; any other is,
\* after all that came before.
LEMMA TakeStep == ASSUME StreamInv, Takes PROVE [Promise!Next]_(Promise!vars)
<1>1. PICK f \in ArrivingFrames(Len(arrived) + 1) : arrived' = Append(arrived, f)
  BY DEF Takes
<1>2. arrived \in Seq(FrameType) /\ Len(arrived) \in Nat
  BY LenProperties DEF StreamInv, IInv, TypeOK
<1>3. f \in FrameType
  BY <1>2, ArrivingAreGood DEF PeerFrame
<1> DEFINE m == Len(arrived) + 1
<1>4. Deliverable' = Deliverable \/ Deliverable' = Deliverable \cup {m}
  <2>1. Deliverable' = Deliv(arrived')
    BY DEF Deliverable, Deliv
  <2>2. QED
    BY <1>1, <1>2, <1>3, <2>1, Delivered, DelivTaken
<1>5. /\ emitted' = emitted /\ Emitted' = Emitted /\ closes' = closes
      /\ w'.readyState = w.readyState
  BY DEF Takes, Kept, Emitted
<1>6. CASE Deliverable' = Deliverable
  BY <1>5, <1>6 DEF Due, Promise!vars
<1>7. CASE Deliverable' = Deliverable \cup {m}
  <2>1. Deliverable \subseteq 1..Len(arrived)
    BY DEF Deliverable
  <2>2. Emitted \subseteq 1..Len(arrived)
    <3>1. PICK k \in Nat : Balance(In(w), arrived, Emitted, k)
      BY DEF StreamInv, Account, Takes, Listening, Stopped
    <3>2. QED
      BY <1>2, <3>1 DEF Balance, DataTo
  <2>3. Due' = Due \cup {m}
    BY <1>2, <1>5, <1>7, <2>2 DEF Due
  <2>4. \A n \in Due : n < m
    BY <1>2, <2>1 DEF Due
  <2>5. \A i \in 1..Len(emitted) : emitted[i] < m
    <3>1. \A i \in 1..Len(emitted) : emitted[i] \in Emitted
      BY DEF Emitted
    <3>2. \A n \in 1..Len(arrived) : n < m
      BY <1>2
    <3>3. QED
      BY <2>2, <3>1, <3>2
  <2>6. m \in 1..MaxArrive
    BY <1>2, WebSocketAssumption DEF Takes
  <2>7. w.readyState \in {"OPEN", "CLOSING"}
    BY DEF StreamInv, IInv, Typed, Connection, Life, Takes, Listening
  <2> HIDE DEF m
  <2>8. Promise!Take(m)
    BY <1>5, <2>3, <2>4, <2>5, <2>7 DEF Promise!Take
  <2>9. QED
    BY <2>6, <2>8 DEF Promise!Next
<1>8. QED
  BY <1>4, <1>6, <1>7

LEMMA DeliverStep == ASSUME StreamInv, Emits PROVE [Promise!Next]_(Promise!vars)
<1> DEFINE m == Head(w.rx).val
<1>1. /\ m \in Due /\ \A n \in Due : m <= n
      /\ Emitted' = Emitted \cup {m}
  BY EmitsAccount DEF Due
<1>2. /\ emitted' = Append(emitted, m) /\ arrived' = arrived /\ closes' = closes
      /\ w'.readyState = w.readyState /\ w.rx # <<>>
  BY DEF Emits, Kept
<1>3. w.readyState \in {"OPEN", "CLOSING"}
  BY <1>2 DEF StreamInv, IInv, Typed, Connection, Life, Orderly
<1> HIDE DEF m
<1>4. Due' = Due \ {m}
  BY <1>1, <1>2 DEF Due, Deliverable
<1>5. Promise!Deliver(m)
  BY <1>1, <1>2, <1>3, <1>4 DEF Promise!Deliver
<1>6. QED
  BY <1>1, <1>5 DEF Promise!Next

\* 'close' is emitted when nothing is due any more.
LEMMA FinishStep == ASSUME StreamInv, Closes PROVE [Promise!Next]_(Promise!vars)
<1>1. arrived \in Seq(FrameType)
  BY DEF StreamInv, IInv, TypeOK
<1>2. Due = {}
  <2>1. CASE w.socket = "none"
    BY <2>1 DEF Due, Deliverable, StreamInv, NothingYet
  <2>2. CASE In(w) = <<>>
    <3>1. CASE Emitted = Deliverable
      BY <3>1 DEF Due
    <3>2. ASSUME NEW k \in Nat, Balance(In(w), arrived, Emitted, k) PROVE Due = {}
      <4> DEFINE e == Emitted
      <4> HIDE DEF e
      <4>1. e = Deliv(arrived)
        BY <1>1, <2>2, <3>2, BalanceDone DEF e
      <4>2. QED
        BY <4>1, Delivered DEF Due, e
    <3>3. QED
      BY <3>1, <3>2 DEF StreamInv, Account
  <2>3. QED
    BY <2>1, <2>2 DEF Closes
<1>3. Due' = Due /\ emitted' = emitted
  BY DEF Due, Deliverable, Emitted, Closes
<1>4. Promise!Finish
  BY <1>2, <1>3 DEF Closes, Ended, Promise!Finish
<1>5. QED
  BY <1>4 DEF Promise!Next

LEMMA WriteStep == ASSUME StreamInv, Writes PROVE [Promise!Next]_(Promise!vars)
<1>1. /\ Due' = Due /\ emitted' = emitted /\ closes' = closes
      /\ w'.readyState = w.readyState
  BY DEF Due, Deliverable, Emitted, Writes, Wrote
<1>2. QED
  BY <1>1 DEF Promise!vars

LEMMA ImplementingStep ==
    ASSUME StreamInv, [Next]_vars
    PROVE  [Promise!Next]_(Promise!vars)
<1>1. Kind
  BY StepKind
<1>2. CASE Quiet \/ Skips \/ Refuses
  BY <1>2, SilentStep DEF Quiet, Skips, Refuses
<1>3. QED
  BY <1>1, <1>2, TakeStep, DeliverStep, FinishStep, WriteStep DEF Kind

\* Every message the socket took from the network before the stream was refused is
\* emitted, once and in order, and 'close' comes after all of them: each step of
\* the connection is one of WebSocketLife or invisible to the program.
THEOREM KeepsItsPromise == Spec => ImplementsLife
<1>1. Init => Promise!Init
  <2>1. SUFFICES ASSUME Init PROVE Promise!Init
    OBVIOUS
  <2>2. w.readyState \in {"CONNECTING", "OPEN"}
    <3>1. \/ w = NewConnection("CONNECTING", "none")
          \/ w = NewConnection("OPEN", "up")
      BY ZenonT(40), <2>1 DEF Init, Connecting, Accepted, SetSocket, NewConnection
    <3>2. QED
      BY <3>1 DEF NewConnection
  <2>3. Due = {}
    BY <2>1 DEF Init, Due, Deliverable
  <2>4. QED
    BY <2>1, <2>2, <2>3 DEF Init, Promise!Init
<1>2. StreamInv /\ [Next]_vars => [Promise!Next]_(Promise!vars)
  BY ImplementingStep
<1>3. QED
  BY <1>1, <1>2, StreamInductive, PTL DEF Spec, ImplementsLife, Promise!Spec
=============================================================================
