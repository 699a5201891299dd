----------------------------- MODULE ComboServer -----------------------------
(***************************************************************************)
(* PPComboServer (src/src/server/combo-server.ts): one port for HTTP/1,    *)
(* HTTP/2 and TLS.  The first bytes of a connection choose the server it   *)
(* is given to; they are read in whatever chunks the network delivers and  *)
(* put back before the socket is handed over.                              *)
(*                                                                         *)
(* A byte is known by its position in what the client sends; the preface   *)
(* of HTTP/2 is a word of any length, whose first letter HTTP/1 methods    *)
(* share.                                                                  *)
(***************************************************************************)
EXTENDS Naturals, Sequences

CONSTANTS
    Byte,         \* the values of a byte
    Streams,      \* what a client may send, a set of sequences of bytes
    Preface,      \* HTTP2_PREFACE_BUFFER
    TlsByte       \* TLS_HANDSHAKE_BYTE

ASSUME PrefaceAssumption ==
    /\ Streams \subseteq Seq(Byte)
    /\ Preface \in Seq(Byte) \ {<<>>}
    /\ Preface[1] # TlsByte

VARIABLES
    stream,       \* everything this client sends, if it goes on to the end
    sent,         \* how much of it has arrived
    fin,          \* the client has sent its FIN
    buf,          \* the socket's read buffer, positions in `stream`
    past,         \* pastData of http2Listener
    stage,        \* who reads the socket
    tls           \* options: there is a TLS server

comboVars == <<stream, sent, fin, buf, past, stage, tls>>

\* "readable": handleSocket waits for 'readable'; "preface": http2Listener does;
\* then the server that got the socket.
Sniffing == {"readable", "preface"}
Servers  == {"h1", "h2", "tls"}

ComboInit ==
    /\ stream \in Streams
    /\ sent = 0
    /\ fin = FALSE
    /\ buf = <<>>
    /\ past = <<>>
    /\ stage = "readable"
    /\ tls \in BOOLEAN

Bytes(positions) == [i \in 1..Len(positions) |-> stream[positions[i]]]

IsPrefixOf(s, t) == Len(s) <= Len(t) /\ s = SubSeq(t, 1, Len(s))

\* A chunk of n bytes from the client.
Chunk(n) ==
    /\ ~fin
    /\ sent + n <= Len(stream)
    /\ sent' = sent + n
    /\ buf' = buf \o [i \in 1..n |-> sent + i]
    /\ UNCHANGED <<stream, fin, past, stage, tls>>

ClientFin ==
    /\ ~fin
    /\ fin' = TRUE
    /\ UNCHANGED <<stream, sent, buf, past, stage, tls>>

\* 'readable': there is something to read, or nothing more to come.
Readable == buf # <<>> \/ fin

\* Mutant of Http2Listener: what was read before is not put back.
Http2ListenerForgets(data) ==
    LET read == Bytes(data)
    IN  IF Len(read) >= Len(Preface)
        THEN /\ buf' = data
             /\ stage' = IF SubSeq(read, 1, Len(Preface)) = Preface THEN "h2" ELSE "h1"
             /\ past' = <<>>
        ELSE IF ~IsPrefixOf(read, Preface)
        THEN /\ buf' = SubSeq(data, Len(past) + 1, Len(data))
             /\ stage' = "h1"
             /\ past' = <<>>
        ELSE /\ buf' = <<>>
             /\ stage' = "preface"
             /\ past' = data

\* http2Listener, with `data` all that was read: decide, putting everything
\* back, or wait for more.
Http2Listener(data) ==
    LET read == Bytes(data)
    IN  IF Len(read) >= Len(Preface)
        THEN /\ buf' = data
             /\ stage' = IF SubSeq(read, 1, Len(Preface)) = Preface THEN "h2" ELSE "h1"
             /\ past' = <<>>
        ELSE IF ~IsPrefixOf(read, Preface)
        THEN /\ buf' = data
             /\ stage' = "h1"
             /\ past' = <<>>
        ELSE /\ buf' = <<>>
             /\ stage' = "preface"
             /\ past' = data

\* handleSocket: the first byte is looked at and put back.
HandleSocket ==
    /\ stage = "readable"
    /\ Readable
    /\ \/ /\ buf = <<>>
          /\ stage' = "destroyed"
          /\ UNCHANGED <<buf, past>>
       \/ /\ buf # <<>>
          /\ stream[buf[1]] = TlsByte
          /\ stage' = IF tls THEN "tls" ELSE "destroyed"
          /\ UNCHANGED <<buf, past>>
       \/ /\ buf # <<>>
          /\ stream[buf[1]] = Preface[1]
          /\ Http2Listener(buf)
       \/ /\ buf # <<>>
          /\ stream[buf[1]] \notin {TlsByte, Preface[1]}
          /\ stage' = "h1"
          /\ UNCHANGED <<buf, past>>
    /\ UNCHANGED <<stream, sent, fin, tls>>

\* http2Listener once more, with what came since.
MorePreface ==
    /\ stage = "preface"
    /\ buf # <<>>
    /\ Http2Listener(past \o buf)
    /\ UNCHANGED <<stream, sent, fin, tls>>

\* The client ends in the middle of the preface: http2Listener waits for more.  The
\* 'readable' of the end makes it look once more at what it had, with no server
\* chosen either, and the socket, whose other direction ends with this one, closes.
PrefaceCutOff ==
    /\ stage = "preface"
    /\ buf = <<>>
    /\ fin
    /\ stage' = "destroyed"
    /\ UNCHANGED <<stream, sent, fin, buf, past, tls>>

Sniff == HandleSocket \/ MorePreface \/ PrefaceCutOff

\* The server a stream of bytes belongs to, if it is long enough to tell.
ServerOf(bytes) ==
    IF bytes = <<>> THEN "unknown"
    ELSE IF bytes[1] = TlsByte THEN "tls"
    ELSE IF IsPrefixOf(Preface, bytes) THEN "h2"
    ELSE IF IsPrefixOf(bytes, Preface) THEN "unknown"
    ELSE "h1"
=============================================================================
