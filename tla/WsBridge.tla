------------------------------- MODULE WsBridge -------------------------------
(***************************************************************************)
(* PPPassThroughWsHandler.handle (src/src/handler/ws-handler.ts): the      *)
(* listeners that join the connection of the proxy's client, "client" (ws),*)
(* with the connection the proxy opens to the destination, "remote"        *)
(* (wsRemote).  Each is a connection of WebSocketOps; an event that one    *)
(* emits runs the handler's listener at once, inside the same step.        *)
(***************************************************************************)
EXTENDS WebSocketOps, FiniteSets

CONSTANTS
    Codes,        \* codes of the close frames the two peers may send
    Abrupt,       \* ends whose peer may leave without the closing handshake
    Deflate,      \* the destination negotiated permessage-deflate
    Kinds,        \* what the peers send: a subset of the ops of a frame
    MaxClient,    \* bound: frames the client's side sends
    MaxRemote     \* bound: frames the destination sends

End == {"client", "remote"}

ASSUME WsBridgeAssumption ==
    /\ \A c \in Codes : c = NoStatus \/ IsValidStatusCode(c)
    /\ Abrupt \subseteq End
    /\ Deflate \in BOOLEAN
    /\ Kinds \subseteq {"data", "ping", "pong", "close", "bad"}
    /\ {HighWater, MaxClient, MaxRemote} \subseteq Nat

MaxArrive(e) == IF e = "client" THEN MaxClient ELSE MaxRemote

Other(e) == IF e = "client" THEN "remote" ELSE "client"

VARIABLES
    ep,           \* the two connections: ws and wsRemote
    queueData,    \* client messages that wait for wsRemote to be OPEN
    flushTimer,   \* "none", "armed" by 'open', or "fired"
    peerFin,      \* ends whose peer has sent its FIN
    arrived,      \* counts the frames taken from each peer
    wire,         \* history: frames written to each peer
    emitted,      \* history: messages each connection emitted
    queued        \* history: messages that went through queueData

vars == <<ep, queueData, flushTimer, peerFin, arrived, wire, emitted, queued>>

Bookkeeping == <<peerFin, arrived, wire, emitted, queued>>

ArrivingFrames(e) ==
    {f \in {Frame("data", arrived[e] + 1, comp) : comp \in {FALSE, Deflate /\ e = "remote"}}
              \cup {Frame("close", c, FALSE) : c \in Codes}
              \cup {Frame(op, 0, FALSE) : op \in {"bad", "ping", "pong"}} :
       f.op \in Kinds}

TypeOK ==
    /\ ep \in [End -> Connection]
    /\ queueData \in Seq(Nat)
    /\ flushTimer \in {"none", "armed", "fired"}
    /\ peerFin \subseteq End
    /\ arrived \in [End -> Nat]
    /\ wire \in [End -> Seq(FrameType)]
    /\ emitted \in [End -> Seq(Nat)]
    /\ queued \subseteq Nat

\* The constructor of wsRemote returned and the listeners are attached: ws was
\* accepted by the WebSocket server before the rules were consulted.
Init ==
    /\ ep = [e \in End |-> IF e = "client" THEN Accepted ELSE Connecting]
    /\ queueData = <<>>
    /\ flushTimer = "none"
    /\ peerFin = {}
    /\ arrived = [e \in End |-> 0]
    /\ wire = [e \in End |-> <<>>]
    /\ emitted = [e \in End |-> <<>>]
    /\ queued = {}

-----------------------------------------------------------------------------
(***************************************************************************)
(* The handler's listeners, as functions on the other connection o         *)
(***************************************************************************)

\* Mutants of OnClose: a code that may not be sent is not passed on at all, or
\* replaced by 1000.
OnCloseSkips(o, code) == IF CloseThrows(o, code) THEN o ELSE Close(o, code)

OnCloseNormally(o, code) ==
    IF CloseThrows(o, code) THEN Close(o, 1000) ELSE Close(o, code)

\* 'close': try { o.close(code, reason) } catch { o.close() }
OnClose(o, code) ==
    IF CloseThrows(o, code) THEN Close(Close(o, code), NoCode) ELSE Close(o, code)

\* 'error': o.close()
OnError(o) == Close(o, NoCode)

\* 'ping' and 'pong': forwarded if o is OPEN, which SendFrame tests again.
OnControl(o, op, val) == SendFrame(o, Frame(op, val, FALSE))

\* Mutant of OnClientMessage: unshift() in place of push().
OnClientMessageFirst(parsed, m) ==
    /\ emitted' = [emitted EXCEPT !.client = Append(@, m)]
    /\ IF ep.remote.readyState = "OPEN"
       THEN /\ ep' = [client |-> parsed,
                      remote |-> SendFrame(ep.remote, Frame("data", m, FALSE))]
            /\ UNCHANGED <<queueData, queued>>
       ELSE /\ ep' = [ep EXCEPT !.client = parsed]
            /\ queueData' = <<m>> \o queueData
            /\ queued' = queued \cup {m}

\* 'message' of the client: sent if wsRemote is OPEN, or queued.
OnClientMessage(parsed, m) ==
    /\ emitted' = [emitted EXCEPT !.client = Append(@, m)]
    /\ IF ep.remote.readyState = "OPEN"
       THEN /\ ep' = [client |-> parsed,
                      remote |-> SendFrame(ep.remote, Frame("data", m, FALSE))]
            /\ UNCHANGED <<queueData, queued>>
       ELSE /\ ep' = [ep EXCEPT !.client = parsed]
            /\ queueData' = Append(queueData, m)
            /\ queued' = queued \cup {m}

\* Mutant of OnRemoteMessage: dropped while the client is slow.
OnRemoteMessageDrops(parsed, m) ==
    /\ emitted' = [emitted EXCEPT !.remote = Append(@, m)]
    /\ ep' = [remote |-> parsed,
              client |-> IF ep.client.tx # <<>> THEN ep.client
                         ELSE SendFrame(ep.client, Frame("data", m, FALSE))]
    /\ UNCHANGED <<queueData, queued>>

\* 'message' of wsRemote: ws.send().
OnRemoteMessage(parsed, m) ==
    /\ emitted' = [emitted EXCEPT !.remote = Append(@, m)]
    /\ ep' = [remote |-> parsed,
              client |-> SendFrame(ep.client, Frame("data", m, FALSE))]
    /\ UNCHANGED <<queueData, queued>>

-----------------------------------------------------------------------------
(***************************************************************************)
(* One turn of the event loop goes on until neither connection is busy     *)
(***************************************************************************)

Idle == \A e \in End : ~Busy(ep[e])

NoParsing == \A e \in End : ~CanParse(ep[e])

\* Both connections change: e to v, the other one to o.
Both(e, v, o) == ep' = [x \in End |-> IF x = e THEN v ELSE o]

ParseFrame(e) ==
    LET w == ep[e]
        o == ep[Other(e)]
        f == Head(w.rx)
    IN  /\ \/ /\ f.op = "data"
              /\ IF e = "client" THEN OnClientMessage(Parsed(w), f.val)
                                 ELSE OnRemoteMessage(Parsed(w), f.val)
           \/ /\ f.op = "ping"
              /\ Both(e, ReceiverOnPing(w), OnControl(o, "ping", f.val))
              /\ UNCHANGED <<queueData, emitted, queued>>
           \/ /\ f.op = "pong"
              /\ Both(e, Parsed(w), OnControl(o, "pong", f.val))
              /\ UNCHANGED <<queueData, emitted, queued>>
           \/ /\ f.op = "close"
              /\ Both(e, ReceiverOnConclude(w), o)
              /\ UNCHANGED <<queueData, emitted, queued>>
           \/ /\ f.op = "bad"
              /\ Both(e, ReceiverOnError(w), OnError(o))
              /\ UNCHANGED <<queueData, emitted, queued>>
        /\ UNCHANGED <<flushTimer, peerFin, arrived, wire>>

Parse(e) == CanParse(ep[e]) /\ ParseFrame(e)

Flow(e) ==
    /\ NoParsing
    /\ CanFlow(ep[e])
    /\ ep' = [ep EXCEPT ![e] = FlowOne(@)]
    /\ UNCHANGED <<queueData, flushTimer, Bookkeeping>>

\* emitClose(): the 'close' event closes the other connection.
Finish(e) ==
    /\ NoParsing
    /\ MayFinish(ep[e])
    /\ Both(e, EmitClose(ep[e]), OnClose(ep[Other(e)], ep[e].closeCode))
    /\ UNCHANGED <<queueData, flushTimer, Bookkeeping>>

\* emitErrorAndClose(): 'error', then 'close' with code 1006.
ErrorAndClose ==
    Both("remote", HandshakeClosed(ep.remote), OnClose(OnError(ep.client), Abnormal))

\* The nextTick queue of an aborted handshake.
AbortTick ==
    /\ NoParsing
    /\ \/ ep.remote.abort = "tick" /\ ErrorAndClose
       \/ /\ ep.remote.abort = "error"
          /\ Both("remote", [ep.remote EXCEPT !.abort = "close"], OnError(ep.client))
    /\ UNCHANGED <<queueData, flushTimer, Bookkeeping>>

Turn == AbortTick \/ \E e \in End : Parse(e) \/ Flow(e) \/ Finish(e)

-----------------------------------------------------------------------------
(***************************************************************************)
(* wsRemote's opening handshake                                            *)
(***************************************************************************)

\* Mutant of RemoteOpens: no timer.
RemoteOpensUntimed ==
    /\ Idle
    /\ ep.remote.readyState = "CONNECTING"
    /\ ep' = [ep EXCEPT !.remote = Upgraded(@)]
    /\ UNCHANGED <<queueData, flushTimer, Bookkeeping>>

\* 'open' arms the timer that will flush the queue one second later.
RemoteOpens ==
    /\ Idle
    /\ ep.remote.readyState = "CONNECTING"
    /\ ep' = [ep EXCEPT !.remote = Upgraded(@)]
    /\ flushTimer' = "armed"
    /\ UNCHANGED <<queueData, Bookkeeping>>

\* The destination answers the upgrade badly, or does not upgrade at all.
RemoteRefuses ==
    /\ Idle
    /\ ep.remote.readyState = "CONNECTING"
    /\ ep' = [ep EXCEPT !.remote = UpgradeRefused(@)] \/ ep' = [ep EXCEPT !.remote = AbortRequest(@)]
    /\ UNCHANGED <<queueData, flushTimer, Bookkeeping>>

\* The destination cannot be reached: the request's 'error'.
RemoteFails ==
    /\ Idle
    /\ ep.remote.readyState = "CONNECTING"
    /\ ErrorAndClose
    /\ UNCHANGED <<queueData, flushTimer, Bookkeeping>>

\* The 'close' event of the stream of a refused upgrade.
RefusedClosed ==
    /\ Idle
    /\ ep.remote.abort = "close"
    /\ Both("remote", HandshakeClosed(ep.remote), OnClose(ep.client, Abnormal))
    /\ UNCHANGED <<queueData, flushTimer, Bookkeeping>>

\* wsRemote.send() of every queued message, which drops it unless wsRemote is OPEN.
Flushed(w) ==
    IF w.readyState # "OPEN" THEN w
    ELSE [w EXCEPT !.tx = @ \o [i \in DOMAIN queueData |->
                                   Frame("data", queueData[i], FALSE)]]

\* Mutant of FlushQueue: the queue is not emptied.
FlushQueueKeeps ==
    /\ Idle
    /\ flushTimer = "armed"
    /\ flushTimer' = "fired"
    /\ ep' = [ep EXCEPT !.remote = Flushed(@)]
    /\ UNCHANGED <<queueData, Bookkeeping>>

\* The timer armed by 'open'.
FlushQueue ==
    /\ Idle
    /\ flushTimer = "armed"
    /\ flushTimer' = "fired"
    /\ ep' = [ep EXCEPT !.remote = Flushed(@)]
    /\ queueData' = <<>>
    /\ UNCHANGED Bookkeeping

-----------------------------------------------------------------------------
(***************************************************************************)
(* The two networks, zlib and the close timers                             *)
(***************************************************************************)

NetData(e) ==
    /\ Idle
    /\ Listening(ep[e])
    /\ e \notin peerFin
    /\ arrived[e] < MaxArrive(e)
    /\ \E f \in ArrivingFrames(e) : ep' = [ep EXCEPT ![e] = Arrive(@, f)]
    /\ arrived' = [arrived EXCEPT ![e] = @ + 1]
    /\ UNCHANGED <<queueData, flushTimer, peerFin, wire, emitted, queued>>

\* A peer that keeps to the protocol ends the stream after both close frames.
MayEnd(e) ==
    \/ e \in Abrupt
    \/ ep[e].closeFrameReceived /\ ep[e].closeFrameSent

NetFin(e) ==
    /\ Idle
    /\ ep[e].socket = "up"
    /\ e \notin peerFin
    /\ MayEnd(e)
    /\ peerFin' = peerFin \cup {e}
    /\ UNCHANGED <<ep, queueData, flushTimer, arrived, wire, emitted, queued>>

NetEnd(e) ==
    /\ Idle
    /\ ep[e].socket = "up"
    /\ e \in peerFin
    /\ ~ep[e].endEmitted
    /\ ~ep[e].paused
    /\ ep[e].inbuf = <<>>
    /\ ep' = [ep EXCEPT ![e] = SocketOnEnd(@)]
    /\ UNCHANGED <<queueData, flushTimer, Bookkeeping>>

NetError(e) ==
    /\ Idle
    /\ e \in Abrupt
    /\ ep[e].socket = "up"
    /\ ep' = [ep EXCEPT ![e] = SocketOnError(@)]
    /\ UNCHANGED <<queueData, flushTimer, Bookkeeping>>

NetClose(e) ==
    /\ Idle
    /\ MayEmitClose(ep[e])
    /\ ep' = [ep EXCEPT ![e] = SocketOnClose(@)]
    /\ UNCHANGED <<queueData, flushTimer, Bookkeeping>>

NetWrite(e) ==
    /\ Idle
    /\ ep[e].socket = "up"
    /\ ep[e].tx # <<>>
    /\ ep' = [ep EXCEPT ![e] = Written(@)]
    /\ wire' = [wire EXCEPT ![e] = Append(@, Head(ep[e].tx))]
    /\ UNCHANGED <<queueData, flushTimer, peerFin, arrived, emitted, queued>>

Inflated(e) ==
    /\ Idle
    /\ Inflating(ep[e])
    /\ ParseFrame(e)

Timeout(e) ==
    /\ Idle
    /\ ep[e].closeTimer
    /\ ep[e].socket = "up"
    /\ ep' = [ep EXCEPT ![e] = CloseTimeout(@)]
    /\ UNCHANGED <<queueData, flushTimer, Bookkeeping>>

Handler == RemoteOpens \/ RemoteRefuses \/ RemoteFails \/ RefusedClosed \/ FlushQueue

Network(e) ==
    NetData(e) \/ NetFin(e) \/ NetEnd(e) \/ NetError(e) \/ NetClose(e)
        \/ NetWrite(e) \/ Inflated(e) \/ Timeout(e)

Next == Turn \/ Handler \/ \E e \in End : Network(e)

(***************************************************************************)
(* As in WebSocket: the proxy's own turns, timers and streams go on.  The  *)
(* peers never have to do anything: not even the opening handshake has to  *)
(* be answered.                                                            *)
(***************************************************************************)
Fairness ==
    /\ WF_vars(Turn)
    /\ WF_vars(RefusedClosed)
    /\ WF_vars(FlushQueue)
    /\ \A e \in End : /\ WF_vars(Inflated(e))
                      /\ WF_vars(Timeout(e))
                      /\ WF_vars(NetClose(e))

Spec == Init /\ [][Next]_vars /\ Fairness

-----------------------------------------------------------------------------
(***************************************************************************)
(* Properties                                                              *)
(***************************************************************************)

\* What was given to the sender of e, in that order.
Out(e) == wire[e] \o ep[e].tx

\* The places of the messages in it, and the messages.
Places(e) == {i \in 1..Len(Out(e)) : Out(e)[i].op = "data"}

Sent(e) == {Out(e)[i].val : i \in Places(e)}

Values(s) == {s[i] : i \in 1..Len(s)}

Closing(e) == ep[e].readyState \in {"CLOSING", "CLOSED"}

\* Messages from the destination reach the client's connection in order, none
\* twice, and none is dropped while that connection is OPEN.  (The messages of a
\* peer are numbered in the order it sent them.)
DownstreamFaithful ==
    /\ \A i, j \in Places("client") :
          i < j => Out("client")[i].val < Out("client")[j].val
    /\ ep.client.readyState = "OPEN" => Sent("client") = Values(emitted.remote)

\* Messages from the client are sent or queued exactly once each, and none is
\* lost before wsRemote starts to close: neither the queue nor the timer that
\* empties it drops or repeats one.
UpstreamOnce ==
    /\ \A i, j \in Places("remote") : Out("remote")[i].val = Out("remote")[j].val => i = j
    /\ \A i, j \in 1..Len(queueData) : queueData[i] = queueData[j] => i = j
    /\ Sent("remote") \cap Values(queueData) = {}
    /\ ~Closing("remote") => Sent("remote") \cup Values(queueData) = Values(emitted.client)

\* The order in which the destination gets the client's messages: one message
\* overtakes another only if the slower one waited in queueData while the other
\* was sent directly, between 'open' and the flush one second later.
OvertakesOnlyQueued ==
    \A i, j \in Places("remote") :
        i < j /\ Out("remote")[i].val > Out("remote")[j].val
            => Out("remote")[j].val \in queued /\ Out("remote")[i].val \notin queued

\* A queued message has a future: wsRemote is still connecting or the timer is
\* armed.  Only messages that came when wsRemote was closing stay for ever.
QueueHasAFlush ==
    queueData # <<>> =>
        \/ ep.remote.readyState = "CONNECTING"
        \/ flushTimer = "armed"
        \/ Closing("remote")

\* The peer of e knows that e is closing, or is about to know it: a close frame is
\* on its way, it sent its FIN itself, or the socket to it is gone.
Told(e) ==
    \/ ep[e].socket # "up"
    \/ ep[e].endEmitted
    \/ \E i \in 1..Len(Out(e)) : Out(e)[i].op = "close"

\* When one side is closed the other one is closing at least, whichever of six
\* paths led there, and its peer is told; but for the two codes that close() refuses
\* to pass on, 1005 and 1006, after which the other side may hang.
CloseIsForwarded ==
    \A e \in End : ep[e].readyState = "CLOSED" =>
        /\ Closing(Other(e))
        /\ Told(Other(e)) \/ ep[e].closeCode \in {NoStatus, Abnormal}

\* The close code the other peer sees is the one its counterpart gave, or none,
\* or the answer to its own close frame or protocol error.
CloseCodeIsHonest ==
    \A e \in End : \A i \in 1..Len(Out(e)) :
        Out(e)[i].op = "close" =>
            Out(e)[i].val \in {NoStatus, ProtocolCode, ep[e].closeCode, ep[Other(e)].closeCode}

\* A connection the bridge closes has something that bounds its closing
\* handshake, as the comment of WebSocket#close says.
ClosingIsTimed ==
    \A e \in End :
        ep[e].readyState = "CLOSING" /\ ep[e].socket = "up"
            => ep[e].closeTimer \/ ep[e].endEmitted

\* When one connection is closed and the other one has sent its close frame, or has
\* no socket any more, the other one is closed in the end, although neither peer may
\* do anything ever again.
Leaving(e) ==
    \/ ep[e].socket # "up"
    \/ \E i \in 1..Len(Out(e)) : Out(e)[i].op = "close"

EndTogether ==
    \A e \in End : (ep[e].readyState = "CLOSED" /\ Leaving(Other(e)))
                     ~> (ep[Other(e)].readyState = "CLOSED")
=============================================================================
