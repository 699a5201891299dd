---------------------------- MODULE ConnectTunnel ----------------------------
(***************************************************************************)
(* A client connection of the proxy from the first byte (ComboServer) to   *)
(* the server it ends at.  A CONNECT request is either answered and the    *)
(* socket sniffed again (handleH1Connect), or joined to a second socket by *)
(* listeners (handlePassThroughTLS of src/src/server/server.ts).  The two  *)
(* sockets end, fail and deliver in any order.                             *)
(***************************************************************************)
EXTENDS ComboServer

CONSTANTS
    Connect,      \* the byte that stands for a whole CONNECT request
    MaxReply      \* bound: chunks the destination sends

\* A CONNECT request is the first request of a client, and its only one.
ASSUME ConnectAssumption ==
    /\ Connect \notin {Preface[1], TlsByte}
    /\ \A s \in Streams : \A i \in 2..Len(s) : s[i] # Connect
    /\ MaxReply \in Nat

VARIABLES
    ignore,       \* options.ignoreUnencryptedTslPacket
    waits,        \* the client waits for the answer to CONNECT before it goes on
    base,         \* history: the first byte of the layer that is sniffed
    dropped,      \* history: bytes of an upgradeHead nobody read
    head,         \* upgradeHead of a tunnel that is not connected yet
    early,        \* history: bytes written before the tunnel was connected
    c,            \* the client's socket
    p,            \* proxySocket
    replies       \* counts chunks of the destination

tunnelVars == <<ignore, waits, base, dropped, head, early, c, p, replies>>
socketVars == <<comboVars, tunnelVars>>

(***************************************************************************)
(* A net.Socket that does not allow half-open connections.                 *)
(*   up      connected                                                     *)
(*   ended   its writable side was ended, by end() or by the peer's FIN    *)
(*   dead    destroyed                                                     *)
(*   failing an 'error' event is on the nextTick queue                     *)
(*   out     what was written                                              *)
(***************************************************************************)
Socket(up) == [up |-> up, ended |-> FALSE, dead |-> FALSE, failing |-> FALSE, out |-> <<>>]

Over(s) == s.ended \/ s.dead

\* write(): an 'error' event after end(), nothing on a destroyed socket.
Write(s, data) ==
    IF s.dead THEN s
    ELSE IF s.ended THEN [s EXCEPT !.failing = TRUE]
    ELSE [s EXCEPT !.out = @ \o data]

EndSocket(s) == IF s.dead THEN s ELSE [s EXCEPT !.ended = TRUE]

Destroy(s) == [s EXCEPT !.dead = TRUE, !.failing = FALSE]

TunnelInit ==
    /\ ComboInit
    /\ ignore \in BOOLEAN
    /\ waits \in BOOLEAN
    /\ base = 1
    /\ dropped = <<>>
    /\ head = <<>>
    /\ early = {}
    /\ c = Socket(TRUE)
    /\ p = Socket(FALSE)
    /\ replies = 0

Positions(s) == {s[i] : i \in 1..Len(s)}

Tunnelling == stage = "tunnel"

\* Nothing else happens before an 'error' event on the nextTick queue.
Idle == ~c.failing /\ ~p.failing

-----------------------------------------------------------------------------
(***************************************************************************)
(* The client and the sniffing                                             *)
(***************************************************************************)

Answered == c.out # <<>>

ClientSends(n) ==
    /\ Idle
    /\ ~c.dead
    /\ waits /\ stream[1] = Connect => Answered \/ (sent = 0 /\ n = 1)
    /\ Chunk(n)
    /\ UNCHANGED tunnelVars

ClientEnds ==
    /\ Idle
    /\ ~c.dead
    /\ ClientFin
    /\ UNCHANGED tunnelVars

ComboServes == Sniff /\ UNCHANGED tunnelVars

-----------------------------------------------------------------------------
(***************************************************************************)
(* handleConnect                                                           *)
(***************************************************************************)

Connecting == stage = "h1" /\ buf # <<>> /\ stream[buf[1]] = Connect

\* handleH1Connect: '200 OK' is written; upgradeHead is not used.  (The 400 of a
\* CONNECT without a target is left out: the HTTP parser gives every one a URL.)
HandleH1Connect ==
    /\ Connecting
    /\ tls
    /\ dropped' = Tail(buf)
    /\ buf' = <<>>
    /\ stage' = "answering"
    /\ base' = buf[Len(buf)] + 1
    /\ c' = Write(c, <<"200">>)
    /\ UNCHANGED <<stream, sent, fin, past, tls, ignore, waits, head, early, p, replies>>

\* The callback of that write: the socket is a new connection.
SniffAgain ==
    /\ stage = "answering"
    /\ stage' = "readable"
    /\ UNCHANGED <<stream, sent, fin, buf, past, tls, tunnelVars>>

\* handlePassThroughTLS: destroys the socket, or connects to the destination.
HandlePassThroughTLS ==
    /\ Connecting
    /\ ~tls
    /\ IF ignore
       THEN /\ stage' = "destroyed"
            /\ c' = Destroy(c)
            /\ UNCHANGED head
       ELSE /\ stage' = "tunnel"
            /\ head' = Tail(buf)
            /\ UNCHANGED c
    /\ buf' = <<>>
    /\ UNCHANGED <<stream, sent, fin, past, tls, ignore, waits, base, dropped, early, p,
                   replies>>

-----------------------------------------------------------------------------
(***************************************************************************)
(* The listeners of the tunnel                                             *)
(***************************************************************************)
InTunnel == Tunnelling /\ Idle

Rest == <<stream, sent, fin, past, stage, tls, ignore, waits, base, dropped>>

\* Mutant of Connected: the head is not written.
ConnectedHeadless ==
    /\ InTunnel
    /\ ~p.up /\ ~p.dead
    /\ p' = [p EXCEPT !.up = TRUE]
    /\ c' = Write(c, <<"200">>)
    /\ head' = <<>>
    /\ UNCHANGED <<Rest, buf, early, replies>>

\* The callback of connect(): first the head, then the answer.
Connected ==
    /\ InTunnel
    /\ ~p.up /\ ~p.dead
    /\ p' = Write([p EXCEPT !.up = TRUE], head)
    /\ c' = Write(c, <<"200">>)
    /\ head' = <<>>
    /\ UNCHANGED <<Rest, buf, early, replies>>

\* 'data' of the client; before the connection is up, Node keeps it.
ClientData ==
    /\ InTunnel
    /\ buf # <<>> /\ ~c.dead
    /\ p' = Write(p, buf)
    /\ early' = IF p.up THEN early ELSE early \cup Positions(buf)
    /\ buf' = <<>>
    /\ UNCHANGED <<Rest, head, c, replies>>

\* 'data' of the destination.
DestinationData ==
    /\ InTunnel
    /\ p.up /\ ~p.dead
    /\ replies < MaxReply
    /\ replies' = replies + 1
    /\ c' = Write(c, <<"data">>)
    /\ UNCHANGED <<Rest, buf, head, early, p>>

\* 'end' of the client: its own writable side ends as well.
ClientEnd ==
    /\ InTunnel
    /\ fin /\ buf = <<>> /\ ~Over(c)
    /\ c' = EndSocket(c)
    /\ p' = EndSocket(p)
    /\ UNCHANGED <<Rest, buf, head, early, replies>>

\* 'end' of the destination.
DestinationEnd ==
    /\ InTunnel
    /\ p.up /\ ~Over(p)
    /\ p' = EndSocket(p)
    /\ c' = EndSocket(c)
    /\ UNCHANGED <<Rest, buf, head, early, replies>>

\* Mutant of ClientError: nobody listens.
ClientErrorUnheard ==
    /\ Tunnelling
    /\ ~p.failing
    /\ ~c.dead
    /\ c' = Destroy(c)
    /\ UNCHANGED <<Rest, buf, head, early, p, replies>>

\* 'error' of the client's socket: from the network, or of a write after end().
ClientError ==
    /\ Tunnelling
    /\ ~p.failing
    /\ ~c.dead
    /\ c' = Destroy(c)
    /\ p' = EndSocket(p)
    /\ UNCHANGED <<Rest, buf, head, early, replies>>

\* 'error' of proxySocket, before or after the tunnel was established.
ProxyError ==
    /\ Tunnelling
    /\ ~p.dead
    /\ p' = Destroy(p)
    /\ c' = EndSocket(Write(c, <<"500">>))
    /\ UNCHANGED <<Rest, buf, head, early, replies>>

-----------------------------------------------------------------------------
Client ==
    \/ \E n \in 1..Len(stream) : ClientSends(n)
    \/ ClientEnds

Tunnel ==
    \/ Connected
    \/ ClientData
    \/ DestinationData
    \/ ClientEnd
    \/ DestinationEnd
    \/ ClientError
    \/ ProxyError

Serve == ComboServes \/ HandleH1Connect \/ SniffAgain \/ HandlePassThroughTLS

TunnelNext == Client \/ Serve \/ Tunnel

\* The proxy's own turns happen; nothing is assumed of the two peers.
TunnelFairness == WF_socketVars(Serve)

TunnelSpec == TunnelInit /\ [][TunnelNext]_socketVars /\ TunnelFairness

-----------------------------------------------------------------------------
Sockets(T) == [up : BOOLEAN, ended : BOOLEAN, dead : BOOLEAN, failing : BOOLEAN,
               out : Seq(T)]

TunnelTypeOK ==
    /\ stream \in Streams
    /\ sent \in 0..Len(stream)
    /\ {fin, tls, ignore, waits} \subseteq BOOLEAN
    /\ {buf, past, dropped, head} \subseteq Seq(1..Len(stream))
    /\ stage \in Sniffing \cup Servers \cup {"answering", "tunnel", "destroyed"}
    /\ base \in 1..(Len(stream) + 1)
    /\ early \subseteq 1..Len(stream)
    /\ c \in Sockets({"200", "data", "500"})
    /\ p \in Sockets(1..Len(stream))
    /\ replies \in 0..MaxReply

-----------------------------------------------------------------------------
(***************************************************************************)
(* Properties                                                              *)
(***************************************************************************)

\* The server a socket is given to is the one its bytes belong to, those still
\* to come included, and it finds them all in the socket, however they were cut
\* into chunks.  Bytes sent along with a CONNECT request that is answered here
\* are lost: only a client that does not wait for the answer sends any.
RightServer ==
    /\ stage \in Servers =>
           /\ stage = ServerOf(SubSeq(stream, base, Len(stream)))
           /\ buf = [i \in 1..(sent - base + 1) |-> base + i - 1]
    /\ dropped # <<>> => ~waits

\* A tunnel neither loses nor repeats a byte of the client while it lasts, and
\* keeps their order; only the head of a client that did not wait is overtaken,
\* by what arrived before the tunnel was connected.
TunnelFaithful ==
    Tunnelling /\ ~Over(p) =>
        LET all == p.out \o head
        IN  /\ Positions(all) \cup Positions(buf) = 2..sent
            /\ Len(all) + Len(buf) = sent - 1
            /\ \A i, j \in 1..Len(p.out) :
                   i < j /\ p.out[i] > p.out[j] => ~waits /\ p.out[i] \in early

\* When one socket of a tunnel is over, so is the other: a FIN, an error of
\* either network, a refused connection and a write after end() all close both.
EndsTogether == Tunnelling => (Over(c) <=> Over(p))
=============================================================================
