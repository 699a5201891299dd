----------------------------- MODULE WsBridge_proofs -----------------------------
(***************************************************************************)
(* Proofs about WsBridge, for every set of codes, any number of frames and *)
(* every high water mark: what the joined connections carry and how the    *)
(* end of one reaches the other.                                           *)
(*                                                                         *)
(* A lemma per method and listener of WebSocketOps says how it moves a     *)
(* connection (Moves) and what it hands to the sender (Hands); a step of   *)
(* the bridge names the functions it applies to its two connections.  The  *)
(* proofs in WebSocket_proofs do not serve here: the bridge passes codes   *)
(* to close() that may not be sent, which the life of a connection proved  *)
(* there excludes.                                                         *)
(***************************************************************************)
EXTENDS WsBridge, SequenceTheorems, TLAPS

\* The frames of a connection that are not parsed yet.
In(v) == v.rx \o v.inbuf

\* The receiver has finished or failed: nothing is parsed any more.
Concluded(v) == v.receiver \in {"finished", "errored"}

\* Nothing reaches the receiver any more.
Shut(v) == v.endEmitted \/ v.closeFrameReceived \/ Errored(v) \/ v.socket = "closed"

\* What a connection keeps all its life.
Sound(v) ==
    /\ v \in Connection
    /\ v.readyState = "CONNECTING" => v = Connecting
    /\ v.readyState = "CLOSED" => v.socket \in {"none", "closed"} /\ v.abort = "no"
    /\ v.abort # "no" => v.readyState = "CLOSING" /\ v.socket = "none"
    /\ v.closeTimer => v.readyState \in {"CLOSING", "CLOSED"}
    /\ v.socket = "none" => v.rx = <<>>
    /\ Concluded(v) => v.rx = <<>>
    /\ v.receiver # "open" => Shut(v)
    /\ Shut(v) => v.inbuf = <<>>

\* s is a part of t, in one piece.
Window(s, t) ==
    \E k \in 0..Len(t) : /\ k + Len(s) <= Len(t)
                         /\ \A i \in 1..Len(s) : s[i] = t[k + i]

\* v becomes u: readyState goes on, or u is CLOSING; the close code is final once
\* the receiver has concluded; nothing new is to be parsed.
Moves(v, u) ==
    /\ Sound(u)
    /\ \/ u.readyState = v.readyState
       \/ v.readyState # "CLOSED" /\ u.readyState = "CLOSING"
    /\ Concluded(v) => Concluded(u) /\ u.closeCode = v.closeCode
    /\ Window(In(u), In(v))

\* What is handed to the sender when v becomes u: nothing, or one frame that is not
\* a message and, if it is a close frame, has a code of codes.  A socket that is
\* destroyed takes what was handed to it along.
Hands(v, u, codes) ==
    \/ u.tx = v.tx
    \/ u.tx = <<>> /\ u.readyState \in {"CLOSING", "CLOSED"}
    \/ \E f \in FrameType : /\ f.op # "data"
                            /\ f.op = "close" => f.val \in codes
                            /\ u.tx = Append(v.tx, f)

-----------------------------------------------------------------------------
(***************************************************************************)
(* Sequences                                                               *)
(***************************************************************************)

LEMMA WholeWindow == ASSUME NEW S, NEW s \in Seq(S) PROVE Window(s, s)
<1>1. Len(s) \in Nat
  BY LenProperties
<1>2. 0 \in 0..Len(s) /\ 0 + Len(s) <= Len(s) /\ \A i \in 1..Len(s) : s[i] = s[0 + i]
  BY <1>1
<1>3. QED
  BY <1>2 DEF Window

LEMMA EmptyWindow == ASSUME NEW S, NEW s \in Seq(S) PROVE Window(<<>>, s)
<1>1. Len(s) \in Nat /\ Len(<<>>) = 0
  BY LenProperties
<1>2. 0 \in 0..Len(s) /\ 0 + Len(<<>>) <= Len(s)
      /\ \A i \in 1..Len(<<>>) : <<>>[i] = s[0 + i]
  BY <1>1
<1>3. QED
  BY <1>2 DEF Window

\* The first frame is taken.
LEMMA TailWindow ==
    ASSUME NEW S, NEW s \in Seq(S), NEW t \in Seq(S), s # <<>>
    PROVE  /\ Len(Tail(s) \o t) = Len(s \o t) - 1
           /\ (s \o t)[1] = Head(s) /\ Len(s \o t) \in Nat \ {0}
           /\ \A i \in 1..Len(Tail(s) \o t) : (Tail(s) \o t)[i] = (s \o t)[i + 1]
           /\ Window(Tail(s) \o t, s \o t)
<1>1. /\ Tail(s) \in Seq(S) /\ Len(s) \in Nat \ {0} /\ Len(t) \in Nat
      /\ Len(Tail(s)) = Len(s) - 1 /\ Head(s) = s[1]
      /\ \A i \in 1..Len(Tail(s)) : Tail(s)[i] = s[i + 1]
  BY HeadTailProperties, LenProperties, EmptySeq
<1>2. /\ Len(s \o t) = Len(s) + Len(t)
      /\ \A i \in 1..(Len(s) + Len(t)) :
            (s \o t)[i] = IF i <= Len(s) THEN s[i] ELSE t[i - Len(s)]
  BY ConcatProperties
<1>3. /\ Len(Tail(s) \o t) = Len(Tail(s)) + Len(t)
      /\ \A i \in 1..(Len(Tail(s)) + Len(t)) :
            (Tail(s) \o t)[i] = IF i <= Len(Tail(s)) THEN Tail(s)[i]
                                ELSE t[i - Len(Tail(s))]
  BY <1>1, ConcatProperties
<1>4. Len(Tail(s) \o t) = Len(s \o t) - 1 /\ Len(s \o t) \in Nat \ {0}
  BY <1>1, <1>2, <1>3
<1>5. (s \o t)[1] = Head(s)
  BY <1>1, <1>2
<1>6. ASSUME NEW i \in 1..Len(Tail(s) \o t)
      PROVE  (Tail(s) \o t)[i] = (s \o t)[i + 1]
  <2>1. i \in 1..(Len(Tail(s)) + Len(t)) /\ i + 1 \in 1..(Len(s) + Len(t))
    BY <1>1, <1>3, <1>6
  <2>2. CASE i <= Len(Tail(s))
    <3>1. (Tail(s) \o t)[i] = Tail(s)[i] /\ (s \o t)[i + 1] = s[i + 1]
      BY <1>1, <1>2, <1>3, <2>1, <2>2
    <3>2. i \in 1..Len(Tail(s))
      BY <1>1, <2>1, <2>2
    <3>3. QED
      BY <1>1, <3>1, <3>2
  <2>3. CASE ~(i <= Len(Tail(s)))
    <3>1. /\ (Tail(s) \o t)[i] = t[i - Len(Tail(s))]
          /\ (s \o t)[i + 1] = t[(i + 1) - Len(s)]
      BY <1>1, <1>2, <1>3, <2>1, <2>3
    <3>2. i - Len(Tail(s)) = (i + 1) - Len(s)
      BY <1>1, <2>1
    <3>3. QED
      BY <3>1, <3>2
  <2>4. QED
    BY <2>2, <2>3
<1>7. Window(Tail(s) \o t, s \o t)
  <2>1. 1 \in 0..Len(s \o t) /\ 1 + Len(Tail(s) \o t) <= Len(s \o t)
    BY <1>4
  <2>2. Len(Tail(s) \o t) \in Nat
    BY <1>1, <1>3
  <2>3. \A i \in 1..Len(Tail(s) \o t) : (Tail(s) \o t)[i] = (s \o t)[1 + i]
    BY <1>6, <2>2
  <2>4. QED
    BY <2>1, <2>3 DEF Window
<1>8. QED
  BY <1>4, <1>5, <1>6, <1>7

\* A part of the front.
LEMMA FrontWindow ==
    ASSUME NEW S, NEW s \in Seq(S), NEW t \in Seq(S)
    PROVE  Window(s, s \o t)
<1>1. /\ Len(s) \in Nat /\ Len(t) \in Nat
      /\ Len(s \o t) = Len(s) + Len(t)
      /\ \A i \in 1..(Len(s) + Len(t)) :
            (s \o t)[i] = IF i <= Len(s) THEN s[i] ELSE t[i - Len(s)]
  BY ConcatProperties, LenProperties
<1>2. 0 \in 0..Len(s \o t) /\ 0 + Len(s) <= Len(s \o t)
  BY <1>1
<1>3. \A i \in 1..Len(s) : s[i] = (s \o t)[0 + i]
  BY <1>1
<1>4. QED
  BY <1>2, <1>3 DEF Window

\* A frame goes from the socket's buffer to the receiver.
LEMMA HeadMoves ==
    ASSUME NEW S, NEW s \in Seq(S), NEW t \in Seq(S), t # <<>>
    PROVE  Append(s, Head(t)) \o Tail(t) = s \o t
<1>1. t = <<Head(t)>> \o Tail(t) /\ Head(t) \in S /\ Tail(t) \in Seq(S)
  BY HeadTailProperties
<1>2. Append(s, Head(t)) = s \o <<Head(t)>> /\ <<Head(t)>> \in Seq(S)
  BY <1>1, AppendIsConcat
<1>3. (s \o <<Head(t)>>) \o Tail(t) = s \o (<<Head(t)>> \o Tail(t))
  BY <1>1, <1>2, ConcatAssociative
<1>4. QED
  BY <1>1, <1>2, <1>3

LEMMA AppendMoves ==
    ASSUME NEW S, NEW s \in Seq(S), NEW t \in Seq(S), NEW x \in S
    PROVE  s \o Append(t, x) = Append(s \o t, x)
<1>1. <<x>> \in Seq(S) /\ Append(t, x) = t \o <<x>> /\ s \o t \in Seq(S)
  BY AppendIsConcat, ConcatProperties
<1>2. Append(s \o t, x) = (s \o t) \o <<x>>
  BY <1>1, AppendIsConcat
<1>3. (s \o t) \o <<x>> = s \o (t \o <<x>>)
  BY <1>1, ConcatAssociative
<1>4. QED
  BY <1>1, <1>2, <1>3

-----------------------------------------------------------------------------
(***************************************************************************)
(* The methods                                                             *)
(***************************************************************************)

LEMMA SameInput ==
    ASSUME NEW v, NEW u, Sound(v), u.rx = v.rx, u.inbuf = v.inbuf
    PROVE  Window(In(u), In(v))
<1>1. In(v) \in Seq(FrameType)
  BY ConcatProperties DEF Sound, Connection, In
<1>2. In(u) = In(v)
  BY DEF In
<1>3. QED
  BY <1>1, <1>2, WholeWindow

LEMMA AppendFrame ==
    ASSUME NEW w \in Seq(FrameType), NEW x \in Seq(FrameType), NEW f \in FrameType
    PROVE  w \o Append(x, f) = Append(w \o x, f)
BY AppendMoves

LEMMA ValidCode == ASSUME NEW c, IsValidStatusCode(c) PROVE c \in Nat
<1>1. c \in 1000..1014 \/ c \in 3000..4999
  BY DEF IsValidStatusCode
<1>2. CASE c \in 1000..1014
  BY <1>2
<1>3. CASE c \in 3000..4999
  BY <1>3
<1>4. QED
  BY <1>1, <1>2, <1>3

LEMMA NoCodeIsInvalid == ~IsValidStatusCode(NoCode) /\ NoCode \in Nat
BY DEF NoCode, IsValidStatusCode

\* The codes a close frame may have after close(code).
CodesOf(code) == IF IsValidStatusCode(code) THEN {code} ELSE {NoStatus}

LEMMA CloseMoves ==
    ASSUME NEW v, Sound(v), NEW code \in Nat
    PROVE  /\ Moves(v, Close(v, code))
           /\ Hands(v, Close(v, code), CodesOf(code))
           /\ Close(v, code).readyState \in {"CLOSING", "CLOSED"}
<1>1. CASE v.readyState = "CONNECTING"
  <2> DEFINE u == [v EXCEPT !.readyState = "CLOSING", !.abort = "tick"]
  <2>1. Close(v, code) = u /\ v = Connecting
    BY <1>1 DEF Close, AbortRequest, Sound
  <2>2. v.socket = "none"
    BY <2>1 DEF Connecting, NewConnection
  <2>3. Sound(u) /\ u.rx = v.rx /\ u.inbuf = v.inbuf
    BY <1>1, <2>2 DEF Sound, Connection, Concluded, Shut, Errored
  <2>4. /\ u.readyState = "CLOSING" /\ u.tx = v.tx
        /\ Concluded(v) => Concluded(u) /\ u.closeCode = v.closeCode
    BY DEF Sound, Connection, Concluded
  <2>5. Window(In(u), In(v))
    BY <2>3, SameInput
  <2>6. QED
    BY <1>1, <2>1, <2>3, <2>4, <2>5 DEF Moves, Hands
<1>2. CASE v.readyState = "OPEN" /\ CloseThrows(v, code)
  <2> DEFINE u == [v EXCEPT !.readyState = "CLOSING"]
  <2>1. Close(v, code) = u
    BY <1>2 DEF Close
  <2>2. Sound(u) /\ u.rx = v.rx /\ u.inbuf = v.inbuf
    BY <1>2 DEF Sound, Connection, Concluded, Shut, Errored
  <2>3. /\ u.readyState = "CLOSING" /\ u.tx = v.tx
        /\ Concluded(v) => Concluded(u) /\ u.closeCode = v.closeCode
    BY DEF Sound, Connection, Concluded
  <2>4. Window(In(u), In(v))
    BY <2>2, SameInput
  <2>5. QED
    BY <1>2, <2>1, <2>2, <2>3, <2>4 DEF Moves, Hands
<1>3. CASE v.readyState = "OPEN" /\ ~CloseThrows(v, code)
  <2> DEFINE f == CloseFrame(code)
             u == [v EXCEPT !.readyState = "CLOSING", !.closeTimer = TRUE,
                            !.tx = Append(@, f)]
  <2>1. Close(v, code) = u
    BY <1>3 DEF Close
  <2>2. f \in FrameType /\ f.op = "close" /\ f.val \in CodesOf(code)
    BY <1>3 DEF CloseFrame, Frame, FrameType, NoStatus, CloseThrows, CodesOf, NoCode,
                IsValidStatusCode
  <2> HIDE DEF f
  <2>3. Append(v.tx, f) \in Seq(FrameType)
    BY <2>2, AppendProperties DEF Sound, Connection
  <2>4. Sound(u) /\ u.rx = v.rx /\ u.inbuf = v.inbuf
    BY <1>3, <2>3 DEF Sound, Connection, Concluded, Shut, Errored
  <2>5. /\ u.readyState = "CLOSING" /\ u.tx = Append(v.tx, f)
        /\ Concluded(v) => Concluded(u) /\ u.closeCode = v.closeCode
    BY DEF Sound, Connection, Concluded
  <2>6. Window(In(u), In(v))
    BY <2>4, SameInput
  <2> HIDE DEF u
  <2>7. Hands(v, u, CodesOf(code))
    BY <2>2, <2>5 DEF Hands
  <2>8. QED
    BY <1>3, <2>1, <2>4, <2>5, <2>6, <2>7 DEF Moves
<1>4. CASE v.readyState = "CLOSING"
  <2> DEFINE b == v.ended \/ (/\ v.closeFrameSent
                              /\ v.closeFrameReceived \/ Errored(v))
             u == [v EXCEPT !.ended = b]
  <2>1. Close(v, code) = u
    BY <1>4 DEF Close
  <2>2. b \in BOOLEAN
    BY DEF Sound, Connection, Errored
  <2> HIDE DEF b
  <2>3. Sound(u) /\ u.rx = v.rx /\ u.inbuf = v.inbuf
    BY <1>4, <2>2 DEF Sound, Connection, Concluded, Shut, Errored
  <2>4. /\ u.readyState = "CLOSING" /\ u.tx = v.tx
        /\ Concluded(v) => Concluded(u) /\ u.closeCode = v.closeCode
    BY <1>4 DEF Sound, Connection, Concluded
  <2>5. Window(In(u), In(v))
    BY <2>3, SameInput
  <2>6. QED
    BY <1>4, <2>1, <2>3, <2>4, <2>5 DEF Moves, Hands
<1>5. CASE v.readyState = "CLOSED"
  <2>1. Close(v, code) = v
    BY <1>5 DEF Close
  <2>2. Window(In(v), In(v))
    BY SameInput
  <2>3. QED
    BY <1>5, <2>1, <2>2 DEF Moves, Hands
<1>6. QED
  BY <1>1, <1>2, <1>3, <1>4, <1>5 DEF Sound, Connection

\* A second function, which changes neither readyState nor what is handed over.
LEMMA WindowThrough ==
    ASSUME NEW s, NEW t, NEW r, Len(s) \in Nat, Len(t) \in Nat, Len(r) \in Nat,
           Window(s, t), Window(t, r)
    PROVE  Window(s, r)
<1>1. PICK k \in 0..Len(t) : k + Len(s) <= Len(t) /\ \A i \in 1..Len(s) : s[i] = t[k + i]
  BY DEF Window
<1>2. PICK n \in 0..Len(r) : n + Len(t) <= Len(r) /\ \A i \in 1..Len(t) : t[i] = r[n + i]
  BY DEF Window
<1>3. n + k \in 0..Len(r) /\ (n + k) + Len(s) <= Len(r)
  BY <1>1, <1>2
<1>4. ASSUME NEW i \in 1..Len(s) PROVE s[i] = r[(n + k) + i]
  <2>1. k + i \in 1..Len(t)
    BY <1>1
  <2>2. s[i] = t[k + i] /\ t[k + i] = r[n + (k + i)]
    BY <1>1, <1>2, <2>1
  <2>3. n + (k + i) = (n + k) + i
    BY <1>1, <1>2
  <2>4. QED
    BY <2>2, <2>3
<1>5. QED
  BY <1>3, <1>4 DEF Window

LEMMA InLength == ASSUME NEW v, Sound(v) PROVE In(v) \in Seq(FrameType) /\ Len(In(v)) \in Nat
<1>1. In(v) \in Seq(FrameType)
  BY ConcatProperties DEF Sound, Connection, In
<1>2. QED
  BY <1>1, LenProperties

LEMMA MovesThrough ==
    ASSUME NEW v, NEW m, NEW u, Sound(v), Moves(v, m), Moves(m, u)
    PROVE  Moves(v, u)
<1>1. Sound(m) /\ Sound(u)
  BY DEF Moves
<1>2. Window(In(u), In(v))
  BY <1>1, InLength, WindowThrough DEF Moves
<1>3. QED
  BY <1>1, <1>2 DEF Moves

\* A closing connection hands nothing over when it is closed again.
LEMMA CloseAgain ==
    ASSUME NEW v, Sound(v), v.readyState \in {"CLOSING", "CLOSED"}, NEW code \in Nat
    PROVE  Close(v, code).tx = v.tx
BY DEF Close, Sound, Connection

LEMMA OnCloseMoves ==
    ASSUME NEW o, Sound(o), NEW code \in Nat
    PROVE  /\ Moves(o, OnClose(o, code))
           /\ Hands(o, OnClose(o, code), CodesOf(code))
           /\ OnClose(o, code).readyState \in {"CLOSING", "CLOSED"}
<1>1. CASE ~CloseThrows(o, code)
  BY <1>1, CloseMoves DEF OnClose
<1>2. CASE CloseThrows(o, code)
  <2> DEFINE m == Close(o, code)
             u == Close(m, NoCode)
  <2>1. OnClose(o, code) = u /\ NoCode \in Nat
    BY <1>2 DEF OnClose, NoCode
  <2>2. /\ Moves(o, m) /\ Hands(o, m, CodesOf(code))
        /\ m.readyState \in {"CLOSING", "CLOSED"} /\ Sound(m)
    BY CloseMoves DEF Moves
  <2> HIDE DEF m
  <2>3. Moves(m, u) /\ u.tx = m.tx /\ u.readyState \in {"CLOSING", "CLOSED"}
    BY <2>1, <2>2, CloseMoves, CloseAgain
  <2> HIDE DEF u
  <2>4. Moves(o, u)
    BY <2>2, <2>3, MovesThrough
  <2>5. Hands(o, u, CodesOf(code))
    BY <2>2, <2>3 DEF Hands
  <2>6. QED
    BY <2>1, <2>3, <2>4, <2>5
<1>3. QED
  BY <1>1, <1>2

\* 'error' closes without a code, and 'close' then does no more.
LEMMA OnErrorMoves ==
    ASSUME NEW o, Sound(o)
    PROVE  /\ Moves(o, OnError(o)) /\ Hands(o, OnError(o), {NoStatus})
           /\ OnError(o).readyState \in {"CLOSING", "CLOSED"}
<1>1. NoCode \in Nat /\ CodesOf(NoCode) = {NoStatus}
  BY NoCodeIsInvalid DEF CodesOf
<1>2. QED
  BY <1>1, CloseMoves DEF OnError

LEMMA OnErrorOnCloseMoves ==
    ASSUME NEW o, Sound(o), NEW code \in Nat
    PROVE  /\ Moves(o, OnClose(OnError(o), code))
           /\ Hands(o, OnClose(OnError(o), code), {NoStatus})
           /\ OnClose(OnError(o), code).readyState \in {"CLOSING", "CLOSED"}
<1> DEFINE m == OnError(o)
<1>1. /\ Moves(o, m) /\ Hands(o, m, {NoStatus})
      /\ m.readyState \in {"CLOSING", "CLOSED"} /\ Sound(m)
  BY OnErrorMoves DEF Moves
<1> HIDE DEF m
<1>2. OnClose(m, code) = Close(m, code)
  BY <1>1 DEF OnClose, CloseThrows
<1>3. /\ Moves(m, Close(m, code)) /\ Close(m, code).tx = m.tx
      /\ Close(m, code).readyState \in {"CLOSING", "CLOSED"}
  BY <1>1, CloseMoves, CloseAgain
<1> DEFINE u == Close(m, code)
<1> HIDE DEF u
<1>4. Moves(o, u)
  BY <1>1, <1>3, MovesThrough DEF u
<1>5. Hands(o, u, {NoStatus})
  BY <1>1, <1>3 DEF Hands, u
<1>6. QED
  BY <1>2, <1>3, <1>4, <1>5 DEF u, m

\* A frame is sent while the connection is OPEN; nothing else changes.
LEMMA SendFrameMoves ==
    ASSUME NEW v, Sound(v), NEW f \in FrameType
    PROVE  /\ Moves(v, SendFrame(v, f))
           /\ SendFrame(v, f).readyState = v.readyState
           /\ SendFrame(v, f).tx = IF v.readyState = "OPEN" THEN Append(v.tx, f) ELSE v.tx
           /\ f.op \notin {"data", "close"} => Hands(v, SendFrame(v, f), {})
<1>1. CASE v.readyState = "OPEN"
  <2> DEFINE u == [v EXCEPT !.tx = Append(@, f)]
  <2>1. SendFrame(v, f) = u
    BY <1>1 DEF SendFrame
  <2>2. Append(v.tx, f) \in Seq(FrameType)
    BY AppendProperties DEF Sound, Connection
  <2>3. Sound(u) /\ u.rx = v.rx /\ u.inbuf = v.inbuf
    BY <1>1, <2>2 DEF Sound, Connection, Concluded, Shut, Errored
  <2>4. /\ u.readyState = v.readyState /\ u.tx = Append(v.tx, f)
        /\ Concluded(v) => Concluded(u) /\ u.closeCode = v.closeCode
    BY DEF Sound, Connection, Concluded
  <2>5. Window(In(u), In(v))
    BY <2>3, SameInput
  <2> HIDE DEF u
  <2>6. f.op \notin {"data", "close"} => Hands(v, u, {})
    BY <2>4 DEF Hands
  <2>7. QED
    BY <1>1, <2>1, <2>3, <2>4, <2>5, <2>6 DEF Moves
<1>2. CASE v.readyState # "OPEN"
  <2>1. SendFrame(v, f) = v
    BY <1>2 DEF SendFrame
  <2>2. Window(In(v), In(v))
    BY SameInput
  <2>3. QED
    BY <1>2, <2>1, <2>2 DEF Moves, Hands
<1>3. QED
  BY <1>1, <1>2

-----------------------------------------------------------------------------
(***************************************************************************)
(* The listeners of the receiver                                           *)
(***************************************************************************)

\* One frame is taken off the input.
LEMMA ParsedMoves ==
    ASSUME NEW v, Sound(v), v.rx # <<>>
    PROVE  /\ Moves(v, Parsed(v))
           /\ Parsed(v).readyState = v.readyState /\ Parsed(v).tx = v.tx
           /\ Len(In(Parsed(v))) = Len(In(v)) - 1
           /\ In(v)[1] = Head(v.rx) /\ Len(In(v)) \in Nat \ {0}
           /\ \A i \in 1..Len(In(Parsed(v))) : In(Parsed(v))[i] = In(v)[i + 1]
<1> DEFINE rest == Tail(v.rx)
           u == Parsed(v)
<1>1. /\ v.rx \in Seq(FrameType) /\ v.inbuf \in Seq(FrameType)
      /\ rest \in Seq(FrameType) /\ v \in Connection /\ ~Concluded(v)
  BY HeadTailProperties DEF Sound, Connection
<1> HIDE DEF rest
<1>2. \/ u = [v EXCEPT !.rx = rest]
      \/ rest = <<>> /\ v.receiver = "ended"
            /\ u = [v EXCEPT !.rx = rest, !.receiver = "finished"]
      \/ \E p \in BOOLEAN : u = [v EXCEPT !.rx = rest, !.needDrain = FALSE, !.paused = p]
  <2>1. v.paused \in BOOLEAN
    BY <1>1 DEF Connection
  <2>2. QED
    BY <1>1, <2>1 DEF Parsed, rest, Connection
<1>3. v.readyState # "CONNECTING" /\ v.socket # "none"
  BY DEF Sound, Connecting, NewConnection
<1>4. /\ u.rx = rest /\ u.inbuf = v.inbuf /\ u.tx = v.tx /\ u.readyState = v.readyState
      /\ u.closeCode = v.closeCode
  BY <1>1, <1>2 DEF Connection
<1>5. Sound(u)
  <2>1. CASE u = [v EXCEPT !.rx = rest]
    BY ZenonT(40), <1>1, <1>3, <2>1 DEF Sound, Connection, Concluded, Shut, Errored
  <2>2. CASE rest = <<>> /\ v.receiver = "ended"
                /\ u = [v EXCEPT !.rx = rest, !.receiver = "finished"]
    BY ZenonT(40), <1>1, <1>3, <2>2 DEF Sound, Connection, Concluded, Shut, Errored
  <2>3. ASSUME NEW p \in BOOLEAN,
               u = [v EXCEPT !.rx = rest, !.needDrain = FALSE, !.paused = p]
        PROVE  Sound(u)
    BY ZenonT(40), <1>1, <1>3, <2>3 DEF Sound, Connection, Concluded, Shut, Errored
  <2>4. QED
    BY <1>2, <2>1, <2>2, <2>3
<1>6. In(u) = rest \o v.inbuf /\ In(v) = v.rx \o v.inbuf
  BY <1>4 DEF In
<1> HIDE DEF u
<1>7. /\ Len(In(u)) = Len(In(v)) - 1
      /\ In(v)[1] = Head(v.rx) /\ Len(In(v)) \in Nat \ {0}
      /\ \A i \in 1..Len(In(u)) : In(u)[i] = In(v)[i + 1]
      /\ Window(In(u), In(v))
  <2>1. LET s == v.rx
            x == v.inbuf
        IN  /\ Len(Tail(s) \o x) = Len(s \o x) - 1
            /\ (s \o x)[1] = Head(s) /\ Len(s \o x) \in Nat \ {0}
            /\ \A i \in 1..Len(Tail(s) \o x) : (Tail(s) \o x)[i] = (s \o x)[i + 1]
            /\ Window(Tail(s) \o x, s \o x)
    BY <1>1, TailWindow
  <2>2. QED
    BY <1>6, <2>1 DEF rest
<1>8. QED
  BY <1>1, <1>4, <1>5, <1>7 DEF Moves, u

LEMMA ReceiverOnPingMoves ==
    ASSUME NEW v, Sound(v), v.rx # <<>>
    PROVE  Moves(v, ReceiverOnPing(v)) /\ Hands(v, ReceiverOnPing(v), {})
<1> DEFINE m == Parsed(v)
           f == Frame("pong", Head(v.rx).val, FALSE)
<1>1. Moves(v, m) /\ m.readyState = v.readyState /\ m.tx = v.tx
  BY ParsedMoves
<1>2. f \in FrameType /\ f.op = "pong"
  <2>1. Head(v.rx) \in FrameType
    BY HeadTailProperties DEF Sound, Connection
  <2>2. QED
    BY <2>1 DEF Frame, FrameType
<1>3. ReceiverOnPing(v) = SendFrame(m, f)
  BY DEF ReceiverOnPing
<1> DEFINE u == SendFrame(m, f)
<1> HIDE DEF m, f
<1>4. Moves(m, u) /\ Hands(m, u, {}) /\ u.readyState = m.readyState
  BY <1>1, <1>2, SendFrameMoves DEF Moves
<1> HIDE DEF u
<1>5. Moves(v, u)
  BY <1>1, <1>4, MovesThrough
<1>6. Hands(v, u, {})
  BY <1>1, <1>4 DEF Hands
<1>7. QED
  BY <1>3, <1>5, <1>6 DEF u

\* The receiver concludes with close code c: what it still held is dropped.
Stopped(v, b, c, r) ==
    LET m == [v EXCEPT !.closeFrameReceived = b, !.closeCode = c, !.receiver = r,
                       !.rx = <<>>]
    IN  IF v.socket = "closed" THEN m ELSE StopListening(m)

LEMMA StoppedMoves ==
    ASSUME NEW v, Sound(v), v.rx # <<>>, NEW r \in {"finished", "errored"},
           NEW b \in BOOLEAN, b \/ r = "errored", NEW c \in Nat
    PROVE  LET u == Stopped(v, b, c, r)
           IN  Moves(v, u) /\ Concluded(u) /\ u.closeCode = c /\ u.tx = v.tx
<1> DEFINE u == Stopped(v, b, c, r)
<1>1. /\ v.inbuf \in Seq(FrameType) /\ v \in Connection /\ ~Concluded(v)
      /\ v.readyState # "CONNECTING" /\ v.socket # "none"
  BY DEF Sound, Connection, Connecting, NewConnection
<1>2. v.socket = "closed" => v.inbuf = <<>>
  BY DEF Sound, Shut
<1>3. <<>> \in Seq(FrameType)
  BY EmptySeq
<1>4. \E p \in BOOLEAN : u = [v EXCEPT !.closeFrameReceived = b, !.closeCode = c,
                                       !.receiver = r, !.rx = <<>>, !.inbuf = <<>>,
                                       !.paused = p]
  <2>1. CASE v.socket = "closed"
    <3>1. u = [v EXCEPT !.closeFrameReceived = b, !.closeCode = c,
                        !.receiver = r, !.rx = <<>>, !.inbuf = <<>>,
                        !.paused = v.paused]
      BY <1>1, <1>2, <2>1 DEF Connection, Stopped
    <3>2. QED
      BY <1>1, <3>1 DEF Connection
  <2>2. CASE v.socket # "closed"
    <3>1. u = [v EXCEPT !.closeFrameReceived = b, !.closeCode = c,
                        !.receiver = r, !.rx = <<>>, !.inbuf = <<>>,
                        !.paused = FALSE]
      BY <1>1, <2>2 DEF Connection, StopListening, Stopped
    <3>2. QED
      BY <3>1
  <2>3. QED
    BY <2>1, <2>2
<1>5. PICK p \in BOOLEAN : u = [v EXCEPT !.closeFrameReceived = b, !.closeCode = c,
                                         !.receiver = r, !.rx = <<>>, !.inbuf = <<>>,
                                         !.paused = p]
  BY <1>4
<1> HIDE DEF u
<1>6. /\ u \in Connection
      /\ u.rx = <<>> /\ u.inbuf = <<>> /\ u.tx = v.tx /\ u.readyState = v.readyState
      /\ u.closeCode = c /\ u.receiver = r /\ u.closeFrameReceived = b
      /\ u.socket = v.socket /\ u.abort = v.abort /\ u.closeTimer = v.closeTimer
  BY ZenonT(40), <1>1, <1>3, <1>5 DEF Connection
<1>7. Concluded(u) /\ Shut(u)
  BY <1>6 DEF Concluded, Shut, Errored
<1>8. Sound(u)
  BY <1>1, <1>6, <1>7 DEF Sound
<1>9. Window(In(u), In(v))
  <2>1. In(u) = <<>>
    BY <1>3, <1>6, ConcatEmptySeq DEF In
  <2>2. QED
    BY <2>1, InLength, EmptyWindow
<1>10. QED
  BY <1>1, <1>6, <1>7, <1>8, <1>9 DEF Moves, u

LEMMA ReceiverOnConcludeMoves ==
    ASSUME NEW v, Sound(v), v.rx # <<>>
    PROVE  LET u == ReceiverOnConclude(v)
           IN  /\ Moves(v, u) /\ Concluded(u)
               /\ Hands(v, u, {NoStatus, u.closeCode})
<1> DEFINE c == Head(v.rx).val
           k == IF c = NoStatus THEN NoCode ELSE c
           s == Stopped(v, TRUE, c, "finished")
           u == ReceiverOnConclude(v)
<1>1. c \in Nat
  <2>1. Head(v.rx) \in FrameType
    BY HeadTailProperties DEF Sound, Connection
  <2>2. QED
    BY <2>1 DEF FrameType
<1>2. Moves(v, s) /\ Concluded(s) /\ s.closeCode = c /\ s.tx = v.tx
  <2> HIDE DEF c
  <2>1. QED
    BY <1>1, StoppedMoves
<1>3. u = IF v.socket = "closed" THEN s ELSE Close(s, k)
  BY DEF ReceiverOnConclude, Stopped
<1>4. k \in Nat /\ CodesOf(k) \subseteq {NoStatus, c}
  <2>1. ~IsValidStatusCode(NoCode) /\ NoCode \in Nat
    BY NoCodeIsInvalid
  <2>2. k = NoCode \/ k = c
    OBVIOUS
  <2> HIDE DEF c, k
  <2>3. QED
    BY <1>1, <2>1, <2>2 DEF CodesOf
<1> HIDE DEF s, k, c, u
<1>5. CASE v.socket = "closed"
  BY <1>2, <1>3, <1>5 DEF Hands, u
<1>6. CASE v.socket # "closed"
  <2>1. /\ Moves(s, u) /\ Hands(s, u, CodesOf(k)) /\ Sound(s)
    BY <1>2, <1>3, <1>4, <1>6, CloseMoves DEF Moves
  <2>2. Moves(v, u)
    BY <1>2, <2>1, MovesThrough
  <2>3. Concluded(u) /\ u.closeCode = c
    BY <1>2, <2>1 DEF Moves
  <2>4. Hands(v, u, {NoStatus, u.closeCode})
    BY <1>2, <1>4, <2>1, <2>3 DEF Hands
  <2>5. QED
    BY <2>2, <2>3, <2>4 DEF u
<1>7. QED
  BY <1>5, <1>6

LEMMA ReceiverOnErrorMoves ==
    ASSUME NEW v, Sound(v), v.rx # <<>>
    PROVE  Moves(v, ReceiverOnError(v)) /\ Hands(v, ReceiverOnError(v), {ProtocolCode})
<1> DEFINE s == Stopped(v, v.closeFrameReceived, v.closeCode, "errored")
           u == ReceiverOnError(v)
<1>1. /\ v.closeFrameReceived \in BOOLEAN /\ v.closeCode \in Nat
      /\ [v EXCEPT !.receiver = "errored", !.rx = <<>>]
           = [v EXCEPT !.closeFrameReceived = v.closeFrameReceived, !.closeCode = v.closeCode,
                       !.receiver = "errored", !.rx = <<>>]
  BY DEF Sound, Connection
<1>2. u = IF v.socket = "closed" THEN s ELSE Close(s, ProtocolCode)
  BY <1>1 DEF ReceiverOnError, Stopped
<1>3. Moves(v, s) /\ s.tx = v.tx
  BY <1>1, StoppedMoves
<1>4. ProtocolCode \in Nat /\ CodesOf(ProtocolCode) = {ProtocolCode}
  BY DEF ProtocolCode, CodesOf, IsValidStatusCode, NoStatus, Abnormal
<1> HIDE DEF s, u
<1>5. CASE v.socket = "closed"
  BY <1>2, <1>3, <1>5 DEF Hands, u
<1>6. CASE v.socket # "closed"
  <2>1. /\ Moves(s, u) /\ Hands(s, u, {ProtocolCode}) /\ Sound(s)
    BY <1>2, <1>3, <1>4, <1>6, CloseMoves DEF Moves
  <2>2. Moves(v, u)
    BY <1>3, <2>1, MovesThrough
  <2>3. Hands(v, u, {ProtocolCode})
    BY <1>3, <2>1 DEF Hands
  <2>4. QED
    BY <2>2, <2>3 DEF u
<1>7. QED
  BY <1>5, <1>6

-----------------------------------------------------------------------------
(***************************************************************************)
(* The listeners of the socket                                             *)
(***************************************************************************)

\* Frames are read.
LEMMA SocketOnDataFields ==
    ASSUME NEW v \in Connection, NEW f \in FrameType
    PROVE  \E d \in BOOLEAN, p \in BOOLEAN :
              SocketOnData(v, f)
                = [v EXCEPT !.rx = Append(v.rx, f), !.needDrain = d, !.paused = p]
<1> DEFINE full == Len(v.rx) + 1 >= HighWater
<1>1. full \in BOOLEAN
  OBVIOUS
<1>2. SocketOnData(v, f) = [v EXCEPT !.rx = Append(@, f), !.needDrain = @ \/ full,
                                     !.paused = @ \/ full]
  BY DEF SocketOnData
<1> HIDE DEF full
<1> DEFINE d == v.needDrain \/ full
           p == v.paused \/ full
<1>3. d \in BOOLEAN /\ p \in BOOLEAN
  BY <1>1
<1>4. SocketOnData(v, f) = [v EXCEPT !.rx = Append(v.rx, f), !.needDrain = d, !.paused = p]
  BY <1>2 DEF Connection
<1> HIDE DEF d, p
<1>5. QED
  BY <1>3, <1>4

\* The socket's and the receiver's buffers.
Read(v, rx, inbuf, d, p) ==
    [v EXCEPT !.rx = rx, !.inbuf = inbuf, !.needDrain = d, !.paused = p]

LEMMA ReadKeepsSound ==
    ASSUME NEW v, Sound(v), v.socket = "up", ~Shut(v),
           NEW rx \in Seq(FrameType), NEW inbuf \in Seq(FrameType),
           NEW d \in BOOLEAN, NEW p \in BOOLEAN
    PROVE  LET u == Read(v, rx, inbuf, d, p)
           IN  /\ Sound(u) /\ u.readyState = v.readyState /\ u.tx = v.tx
               /\ In(u) = rx \o inbuf
               /\ Concluded(v) => Concluded(u) /\ u.closeCode = v.closeCode
<1> DEFINE u == Read(v, rx, inbuf, d, p)
<1>1. /\ v.receiver = "open" /\ v.readyState # "CONNECTING" /\ v \in Connection
      /\ ~v.endEmitted /\ ~v.closeFrameReceived
  BY DEF Sound, Shut, Connecting, NewConnection
<1>2. /\ u \in Connection
      /\ u.rx = rx /\ u.inbuf = inbuf /\ u.tx = v.tx /\ u.readyState = v.readyState
      /\ u.closeCode = v.closeCode /\ u.receiver = v.receiver /\ u.socket = v.socket
      /\ u.closeFrameReceived = v.closeFrameReceived /\ u.endEmitted = v.endEmitted
      /\ u.abort = v.abort /\ u.closeTimer = v.closeTimer
  BY <1>1 DEF Connection, Read
<1> HIDE DEF u
<1>3. ~Shut(u) /\ ~Concluded(u) /\ ~Concluded(v)
  BY <1>1, <1>2 DEF Shut, Errored, Concluded
<1>4. Sound(u)
  BY <1>1, <1>2, <1>3 DEF Sound
<1>5. QED
  BY <1>2, <1>3, <1>4 DEF In, u

\* A frame that arrives is the last one to be parsed.
LEMMA ArriveReads ==
    ASSUME NEW v, Sound(v), Listening(v), ~v.endEmitted, NEW f \in FrameType
    PROVE  LET u == Arrive(v, f)
           IN  /\ Sound(u) /\ u.readyState = v.readyState /\ u.tx = v.tx
               /\ In(u) = Append(In(v), f)
               /\ Concluded(v) => Concluded(u) /\ u.closeCode = v.closeCode
<1> DEFINE s == v.rx
           t == v.inbuf
           u == Arrive(v, f)
<1>1. /\ s \in Seq(FrameType) /\ t \in Seq(FrameType) /\ v \in Connection
      /\ v.socket = "up" /\ ~Shut(v)
  BY DEF Sound, Connection, Listening, Shut
<1>2. PICK rx \in Seq(FrameType), inbuf \in Seq(FrameType), d \in BOOLEAN, p \in BOOLEAN :
           u = Read(v, rx, inbuf, d, p) /\ rx \o inbuf = Append(s \o t, f)
  <2>1. CASE v.paused \/ t # <<>>
    <3>1. u = Read(v, s, Append(t, f), v.needDrain, v.paused)
          /\ v.needDrain \in BOOLEAN /\ v.paused \in BOOLEAN
      BY <1>1, <2>1 DEF Arrive, Read, Connection
    <3> HIDE DEF s, t, u
    <3>2. Append(t, f) \in Seq(FrameType) /\ s \o Append(t, f) = Append(s \o t, f)
      BY <1>1, AppendProperties, AppendMoves
    <3>3. QED
      BY <1>1, <3>1, <3>2
  <2>2. CASE ~(v.paused \/ t # <<>>)
    <3>1. PICK d \in BOOLEAN, p \in BOOLEAN :
               u = [v EXCEPT !.rx = Append(s, f), !.needDrain = d, !.paused = p]
      BY <1>1, <2>2, SocketOnDataFields DEF Arrive
    <3>2. u = Read(v, Append(s, f), t, d, p)
      BY <1>1, <3>1 DEF Connection, Read
    <3> HIDE DEF s, t, u
    <3>3. Append(s, f) \in Seq(FrameType) /\ s \o t = s /\ Append(s, f) \o t = Append(s, f)
      BY <1>1, <2>2, AppendProperties, ConcatEmptySeq
    <3>4. QED
      BY <1>1, <3>2, <3>3
  <2>3. QED
    BY <2>1, <2>2
<1>3. In(v) = s \o t
  BY DEF In
<1> HIDE DEF s, t, u
<1>4. LET r == Read(v, rx, inbuf, d, p)
      IN  /\ Sound(r) /\ r.readyState = v.readyState /\ r.tx = v.tx
          /\ In(r) = rx \o inbuf
          /\ Concluded(v) => Concluded(r) /\ r.closeCode = v.closeCode
  BY SMTT(40), <1>1, ReadKeepsSound
<1>5. QED
  BY <1>2, <1>3, <1>4 DEF u

LEMMA FlowOneMoves ==
    ASSUME NEW v, Sound(v), CanFlow(v)
    PROVE  Moves(v, FlowOne(v)) /\ FlowOne(v).tx = v.tx
<1> DEFINE f == Head(v.inbuf)
           rest == Tail(v.inbuf)
           m == [v EXCEPT !.inbuf = rest]
           rx == Append(v.rx, f)
           u == FlowOne(v)
<1>1. /\ v.rx \in Seq(FrameType) /\ v.inbuf \in Seq(FrameType) /\ v \in Connection
      /\ v.socket = "up" /\ v.inbuf # <<>> /\ ~Shut(v)
  BY DEF Sound, Connection, Listening, CanFlow
<1>2. f \in FrameType /\ rest \in Seq(FrameType)
  BY <1>1, HeadTailProperties
<1>3. rx \in Seq(FrameType) /\ rx \o rest = v.rx \o v.inbuf
  BY <1>1, <1>2, AppendProperties, HeadMoves
<1>4. u = SocketOnData(m, f)
  BY DEF FlowOne
<1> HIDE DEF f, rest, rx, u
<1>5. m \in Connection /\ m.rx = v.rx
  BY <1>1, <1>2 DEF Connection
<1>6. PICK d \in BOOLEAN, p \in BOOLEAN :
           u = [m EXCEPT !.rx = Append(m.rx, f), !.needDrain = d, !.paused = p]
  BY <1>2, <1>4, <1>5, SocketOnDataFields
<1>7. PICK s \in Seq(FrameType), x \in Seq(FrameType) :
           u = Read(v, s, x, d, p) /\ s \o x = v.rx \o v.inbuf
  <2>1. u = Read(v, rx, rest, d, p)
    BY <1>1, <1>5, <1>6 DEF Connection, Read, rx
  <2>2. QED
    BY <1>2, <1>3, <2>1
<1>8. /\ Sound(u) /\ u.readyState = v.readyState /\ u.tx = v.tx
      /\ In(u) = v.rx \o v.inbuf
      /\ Concluded(v) => Concluded(u) /\ u.closeCode = v.closeCode
  <2>1. LET r == Read(v, s, x, d, p)
        IN  /\ Sound(r) /\ r.readyState = v.readyState /\ r.tx = v.tx
            /\ In(r) = s \o x
            /\ Concluded(v) => Concluded(r) /\ r.closeCode = v.closeCode
    BY <1>1, ReadKeepsSound
  <2>2. QED
    BY <1>7, <2>1
<1>9. Window(In(u), In(v))
  BY <1>3, <1>8, InLength, WholeWindow DEF In
<1>10. QED
  BY <1>8, <1>9 DEF Moves, u

\* The fields that Moves is about, after a change of the others.
LEMMA MovesByFields ==
    ASSUME NEW v, Sound(v), NEW u, Sound(u), u.rx = v.rx, u.inbuf = v.inbuf,
           \/ u.readyState = v.readyState
           \/ v.readyState # "CLOSED" /\ u.readyState = "CLOSING",
           Concluded(v) => Concluded(u) /\ u.closeCode = v.closeCode
    PROVE  Moves(v, u)
BY SameInput DEF Moves

LEMMA EndReceiverFields ==
    ASSUME NEW m \in Connection
    PROVE  \E r \in {"open", "ended", "finished", "errored"} :
              /\ EndReceiver(m) = [m EXCEPT !.receiver = r]
              /\ r = m.receiver
                   \/ (m.receiver = "open" /\ (r = "finished" => m.rx = <<>>) /\ r # "errored")
BY DEF EndReceiver, Connection

LEMMA SocketOnEndMoves ==
    ASSUME NEW v, Sound(v), v.socket = "up", v.inbuf = <<>>
    PROVE  LET u == SocketOnEnd(v)
           IN  Moves(v, u) /\ u.tx = v.tx /\ u.readyState = "CLOSING" /\ u.endEmitted
<1> DEFINE m == [v EXCEPT !.readyState = "CLOSING", !.ended = TRUE, !.endEmitted = TRUE]
           u == SocketOnEnd(v)
<1>1. m \in Connection /\ m.receiver = v.receiver /\ m.rx = v.rx
  BY DEF Sound, Connection
<1>2. u = EndReceiver(m)
  BY DEF SocketOnEnd
<1> HIDE DEF u
<1>3. PICK r \in {"open", "ended", "finished", "errored"} :
           /\ u = [m EXCEPT !.receiver = r]
           /\ r = m.receiver
                \/ (m.receiver = "open" /\ (r = "finished" => m.rx = <<>>) /\ r # "errored")
  BY <1>1, <1>2, EndReceiverFields
<1>4. /\ u \in Connection /\ u.readyState = "CLOSING" /\ u.endEmitted /\ u.receiver = r
      /\ u.rx = v.rx /\ u.inbuf = v.inbuf /\ u.tx = v.tx /\ u.closeCode = v.closeCode
      /\ u.socket = v.socket /\ u.abort = v.abort /\ v.readyState # "CLOSED"
      /\ u.closeFrameReceived = v.closeFrameReceived
  BY ZenonT(40), <1>1, <1>3 DEF Sound, Connection
<1>5. Shut(u) /\ (Concluded(v) => Concluded(u)) /\ (Concluded(u) => u.rx = <<>>)
  BY <1>1, <1>3, <1>4 DEF Sound, Shut, Concluded
<1>6. Sound(u)
  BY <1>4, <1>5 DEF Sound
<1>7. QED
  BY <1>4, <1>5, <1>6, MovesByFields DEF u

\* Both ways a socket is destroyed.
LEMMA DestroyedMoves ==
    ASSUME NEW v, Sound(v), v.socket = "up"
    PROVE  /\ Moves(v, SocketOnError(v)) /\ SocketOnError(v).tx = <<>>
           /\ SocketOnError(v).readyState = "CLOSING"
           /\ v.closeTimer => /\ Moves(v, CloseTimeout(v)) /\ CloseTimeout(v).tx = <<>>
                              /\ CloseTimeout(v).readyState = "CLOSING"
<1>1. v \in Connection /\ v.readyState \notin {"CONNECTING", "CLOSED"} /\ v.abort = "no"
  BY DEF Sound, Connection, Connecting, NewConnection
<1>2. <<>> \in Seq(FrameType)
  BY EmptySeq
<1>3. /\ Moves(v, SocketOnError(v)) /\ SocketOnError(v).tx = <<>>
      /\ SocketOnError(v).readyState = "CLOSING"
  <2> DEFINE u == SocketOnError(v)
  <2>1. /\ u \in Connection /\ u.readyState = "CLOSING" /\ u.tx = <<>>
        /\ u.rx = v.rx /\ u.inbuf = v.inbuf /\ u.closeCode = v.closeCode
        /\ u.receiver = v.receiver /\ u.socket = "destroyed" /\ u.abort = "no"
        /\ u.closeFrameReceived = v.closeFrameReceived /\ u.endEmitted = v.endEmitted
    BY <1>1, <1>2 DEF SocketOnError, Connection
  <2> HIDE DEF u
  <2>2. /\ Shut(u) <=> Shut(v)
        /\ Concluded(u) <=> Concluded(v)
    BY <2>1 DEF Shut, Concluded, Errored
  <2>3. Sound(u)
    BY <1>1, <2>1, <2>2 DEF Sound
  <2>4. QED
    BY <1>1, <2>1, <2>2, <2>3, MovesByFields DEF u
<1>4. ASSUME v.closeTimer
      PROVE  /\ Moves(v, CloseTimeout(v)) /\ CloseTimeout(v).tx = <<>>
             /\ CloseTimeout(v).readyState = "CLOSING"
  <2> DEFINE u == CloseTimeout(v)
  <2>1. /\ u \in Connection /\ u.readyState = v.readyState /\ u.tx = <<>>
        /\ u.rx = v.rx /\ u.inbuf = v.inbuf /\ u.closeCode = v.closeCode
        /\ u.receiver = v.receiver /\ u.socket = "destroyed" /\ u.abort = "no"
        /\ u.closeFrameReceived = v.closeFrameReceived /\ u.endEmitted = v.endEmitted
        /\ ~u.closeTimer
    BY <1>1, <1>2 DEF CloseTimeout, Connection
  <2>2. v.readyState = "CLOSING"
    BY <1>1, <1>4 DEF Sound
  <2> HIDE DEF u
  <2>3. /\ Shut(u) <=> Shut(v)
        /\ Concluded(u) <=> Concluded(v)
    BY <2>1 DEF Shut, Concluded, Errored
  <2>4. Sound(u)
    BY <1>1, <2>1, <2>2, <2>3 DEF Sound
  <2>5. QED
    BY <1>1, <2>1, <2>2, <2>3, <2>4, MovesByFields DEF u
<1>5. QED
  BY <1>3, <1>4

LEMMA SocketOnCloseMoves ==
    ASSUME NEW v, Sound(v), MayEmitClose(v)
    PROVE  LET u == SocketOnClose(v)
           IN  Moves(v, u) /\ u.tx = <<>> /\ u.readyState = "CLOSING"
<1> DEFINE s == v.rx
           t == v.inbuf
           rest == IF v.endEmitted \/ v.closeFrameReceived \/ Errored(v) THEN <<>> ELSE t
           rx == s \o rest
           m == [v EXCEPT !.readyState = "CLOSING", !.socket = "closed",
                          !.closeTimer = FALSE, !.tx = <<>>,
                          !.rx = rx, !.inbuf = <<>>]
           u == SocketOnClose(v)
<1>1. /\ v \in Connection /\ v.readyState \notin {"CONNECTING", "CLOSED"} /\ v.abort = "no"
      /\ v.socket \in {"up", "destroyed"}
      /\ s \in Seq(FrameType) /\ t \in Seq(FrameType)
  BY DEF Sound, Connection, Connecting, NewConnection, MayEmitClose
<1>2. <<>> \in Seq(FrameType)
  BY EmptySeq
<1>3. rest = t \/ rest = <<>>
  OBVIOUS
<1>4. Concluded(v) => s = <<>> /\ rest = <<>>
  BY <1>1, <1>3 DEF Sound, Shut, Concluded
<1>5. u = EndReceiver(m)
  BY DEF SocketOnClose
<1>6. In(v) = s \o t
  BY DEF In
<1> HIDE DEF s, t, rest
<1>7. rx \in Seq(FrameType) /\ Window(rx, s \o t) /\ (Concluded(v) => rx = <<>>)
  <2>1. s \o <<>> = s /\ s \o t \in Seq(FrameType)
    BY <1>1, ConcatEmptySeq, ConcatProperties
  <2>2. CASE rest = t
    BY <1>1, <1>2, <1>4, <2>1, <2>2, WholeWindow, ConcatEmptySeq
  <2>3. CASE rest = <<>>
    BY <1>1, <1>4, <2>1, <2>3, FrontWindow
  <2>4. QED
    BY <1>3, <2>2, <2>3
<1> HIDE DEF rx
<1>8. m \in Connection /\ m.receiver = v.receiver /\ m.rx = rx
  BY <1>1, <1>2, <1>7 DEF Connection
<1> HIDE DEF u
<1>9. PICK r \in {"open", "ended", "finished", "errored"} :
           /\ u = [m EXCEPT !.receiver = r]
           /\ r = m.receiver
                \/ (m.receiver = "open" /\ (r = "finished" => m.rx = <<>>) /\ r # "errored")
  BY <1>5, <1>8, EndReceiverFields
<1>10. /\ u \in Connection /\ u.readyState = "CLOSING" /\ u.receiver = r
       /\ u.rx = rx /\ u.inbuf = <<>> /\ u.tx = <<>> /\ u.closeCode = v.closeCode
       /\ u.socket = "closed" /\ u.abort = "no"
  BY ZenonT(40), <1>1, <1>8, <1>9 DEF Connection
<1>11. Shut(u) /\ (Concluded(v) => Concluded(u)) /\ (Concluded(u) => u.rx = <<>>)
  BY <1>7, <1>8, <1>9, <1>10 DEF Shut, Concluded
<1>12. Sound(u)
  BY <1>10, <1>11 DEF Sound
<1>13. Window(In(u), In(v))
  <2>1. In(u) = rx
    BY <1>7, <1>10, ConcatEmptySeq DEF In
  <2>2. QED
    BY <1>6, <1>7, <2>1
<1>14. QED
  BY <1>1, <1>10, <1>11, <1>12, <1>13 DEF Moves, u

\* The first frame goes out.
LEMMA WrittenMoves ==
    ASSUME NEW v, Sound(v), v.socket = "up", v.tx # <<>>
    PROVE  /\ Moves(v, Written(v)) /\ Written(v).readyState = v.readyState
           /\ Written(v).tx = Tail(v.tx)
<1> DEFINE x == Tail(v.tx)
           u == Written(v)
<1>1. v \in Connection /\ v.readyState # "CONNECTING" /\ x \in Seq(FrameType)
  BY HeadTailProperties DEF Sound, Connection, Connecting, NewConnection
<1> HIDE DEF x
<1>2. \E a \in BOOLEAN, b \in BOOLEAN :
         u = [v EXCEPT !.tx = x, !.closeFrameSent = a, !.ended = b]
  <2> DEFINE b == v.ended \/ v.closeFrameReceived \/ Errored(v)
  <2>1. CASE Head(v.tx).op # "close"
    <3>1. u = [v EXCEPT !.tx = x, !.closeFrameSent = v.closeFrameSent, !.ended = v.ended]
      BY <1>1, <2>1 DEF Written, Connection, x
    <3>2. QED
      BY <1>1, <3>1 DEF Connection
  <2>2. CASE Head(v.tx).op = "close"
    <3>1. u = [v EXCEPT !.tx = x, !.closeFrameSent = TRUE, !.ended = b]
      BY <1>1, <2>2 DEF Written, Connection, x
    <3>2. b \in BOOLEAN
      BY <1>1 DEF Connection, Errored
    <3>3. QED
      BY <3>1, <3>2
  <2>3. QED
    BY <2>1, <2>2
<1>3. PICK a \in BOOLEAN, b \in BOOLEAN :
           u = [v EXCEPT !.tx = x, !.closeFrameSent = a, !.ended = b]
  BY <1>2
<1> HIDE DEF u
<1>4. /\ u \in Connection /\ u.tx = x /\ u.readyState = v.readyState
      /\ u.rx = v.rx /\ u.inbuf = v.inbuf /\ u.closeCode = v.closeCode
      /\ u.receiver = v.receiver /\ u.socket = v.socket /\ u.abort = v.abort
      /\ u.closeFrameReceived = v.closeFrameReceived /\ u.endEmitted = v.endEmitted
      /\ u.closeTimer = v.closeTimer
  BY <1>1, <1>3 DEF Connection
<1>5. /\ Shut(u) <=> Shut(v)
      /\ Concluded(u) <=> Concluded(v)
  BY <1>4 DEF Shut, Concluded, Errored
<1>6. Sound(u)
  BY <1>1, <1>4, <1>5 DEF Sound
<1>7. QED
  BY <1>4, <1>5, <1>6, MovesByFields DEF u, x

-----------------------------------------------------------------------------
(***************************************************************************)
(* The opening handshake, and the end                                      *)
(***************************************************************************)

\* v becomes u, in a state of its own.
Becomes(v, u, state) ==
    /\ Sound(u)
    /\ u.readyState = state
    /\ u.tx = v.tx
    /\ Concluded(v) => Concluded(u) /\ u.closeCode = v.closeCode
    /\ Window(In(u), In(v))

LEMMA HandshakeMoves ==
    ASSUME NEW v, Sound(v), v.readyState = "CONNECTING"
    PROVE  /\ Becomes(v, Upgraded(v), "OPEN")
           /\ Moves(v, UpgradeRefused(v)) /\ UpgradeRefused(v).tx = v.tx
           /\ UpgradeRefused(v).readyState = "CLOSING"
           /\ Moves(v, AbortRequest(v)) /\ AbortRequest(v).tx = v.tx
           /\ AbortRequest(v).readyState = "CLOSING"
           /\ Becomes(v, HandshakeClosed(v), "CLOSED")
<1>1. /\ v \in Connection /\ v.socket = "none" /\ v.abort = "no" /\ ~v.closeTimer
      /\ ~Shut(v) /\ ~Concluded(v) /\ v.receiver = "open"
      /\ v.rx = <<>> /\ v.inbuf = <<>>
  BY DEF Sound, Connecting, NewConnection, Shut, Errored, Concluded
<1>2. ASSUME NEW u \in Connection, u.rx = v.rx, u.inbuf = v.inbuf, u.receiver = "open",
             u.endEmitted = v.endEmitted, u.closeFrameReceived = v.closeFrameReceived,
             ~u.closeTimer,
             \/ u.readyState = "OPEN" /\ u.socket = "up" /\ u.abort = "no"
             \/ u.readyState = "CLOSING" /\ u.socket = "none"
             \/ u.readyState = "CLOSED" /\ u.socket = "none" /\ u.abort = "no"
      PROVE  Sound(u) /\ Window(In(u), In(v)) /\ ~Concluded(v)
  <2>1. ~Shut(u) /\ ~Concluded(u)
    BY <1>1, <1>2 DEF Shut, Errored, Concluded
  <2>2. Sound(u)
    BY <1>1, <1>2, <2>1 DEF Sound
  <2>3. QED
    BY <1>1, <1>2, <2>2, SameInput
<1>3. Becomes(v, Upgraded(v), "OPEN")
  <2> DEFINE u == Upgraded(v)
  <2>1. u = [v EXCEPT !.readyState = "OPEN", !.socket = "up"]
    BY DEF Upgraded, SetSocket
  <2> HIDE DEF u
  <2>2. /\ u \in Connection /\ u.rx = v.rx /\ u.inbuf = v.inbuf /\ u.receiver = "open"
        /\ u.endEmitted = v.endEmitted /\ u.closeFrameReceived = v.closeFrameReceived
        /\ ~u.closeTimer /\ u.readyState = "OPEN" /\ u.socket = "up" /\ u.abort = "no"
        /\ u.tx = v.tx
    BY <1>1, <2>1 DEF Connection
  <2>3. QED
    BY <1>2, <2>2 DEF Becomes, u
<1>4. /\ Moves(v, UpgradeRefused(v)) /\ UpgradeRefused(v).tx = v.tx
      /\ UpgradeRefused(v).readyState = "CLOSING"
  <2> DEFINE u == UpgradeRefused(v)
  <2>1. u = [v EXCEPT !.readyState = "CLOSING", !.abort = "error"]
    BY DEF UpgradeRefused
  <2> HIDE DEF u
  <2>2. /\ u \in Connection /\ u.rx = v.rx /\ u.inbuf = v.inbuf /\ u.receiver = "open"
        /\ u.endEmitted = v.endEmitted /\ u.closeFrameReceived = v.closeFrameReceived
        /\ ~u.closeTimer /\ u.readyState = "CLOSING" /\ u.socket = "none"
        /\ u.tx = v.tx
    BY <1>1, <2>1 DEF Connection
  <2>3. QED
    BY <1>2, <2>2 DEF Moves, u
<1>5. /\ Moves(v, AbortRequest(v)) /\ AbortRequest(v).tx = v.tx
      /\ AbortRequest(v).readyState = "CLOSING"
  <2> DEFINE u == AbortRequest(v)
  <2>1. u = [v EXCEPT !.readyState = "CLOSING", !.abort = "tick"]
    BY DEF AbortRequest
  <2> HIDE DEF u
  <2>2. /\ u \in Connection /\ u.rx = v.rx /\ u.inbuf = v.inbuf /\ u.receiver = "open"
        /\ u.endEmitted = v.endEmitted /\ u.closeFrameReceived = v.closeFrameReceived
        /\ ~u.closeTimer /\ u.readyState = "CLOSING" /\ u.socket = "none"
        /\ u.tx = v.tx
    BY <1>1, <2>1 DEF Connection
  <2>3. QED
    BY <1>2, <2>2 DEF Moves, u
<1>6. Becomes(v, HandshakeClosed(v), "CLOSED")
  <2> DEFINE u == HandshakeClosed(v)
  <2>1. u = [v EXCEPT !.readyState = "CLOSED", !.abort = "no"]
    BY DEF HandshakeClosed
  <2> HIDE DEF u
  <2>2. /\ u \in Connection /\ u.rx = v.rx /\ u.inbuf = v.inbuf /\ u.receiver = "open"
        /\ u.endEmitted = v.endEmitted /\ u.closeFrameReceived = v.closeFrameReceived
        /\ ~u.closeTimer /\ u.readyState = "CLOSED" /\ u.socket = "none" /\ u.abort = "no"
        /\ u.tx = v.tx
    BY <1>1, <2>1 DEF Connection
  <2>3. QED
    BY <1>2, <2>2 DEF Becomes, u
<1>7. QED
  BY <1>3, <1>4, <1>5, <1>6

\* A failed handshake comes to its end.
LEMMA AbortMoves ==
    ASSUME NEW v, Sound(v), v.abort # "no"
    PROVE  /\ Becomes(v, HandshakeClosed(v), "CLOSED")
           /\ Moves(v, [v EXCEPT !.abort = "close"])
           /\ [v EXCEPT !.abort = "close"].tx = v.tx
           /\ [v EXCEPT !.abort = "close"].readyState = v.readyState
<1>1. v \in Connection /\ v.readyState = "CLOSING" /\ v.socket = "none"
  BY DEF Sound
<1>2. Becomes(v, HandshakeClosed(v), "CLOSED")
  <2> DEFINE u == HandshakeClosed(v)
  <2>1. /\ u \in Connection /\ u.rx = v.rx /\ u.inbuf = v.inbuf /\ u.receiver = v.receiver
        /\ u.endEmitted = v.endEmitted /\ u.closeFrameReceived = v.closeFrameReceived
        /\ u.readyState = "CLOSED" /\ u.socket = "none" /\ u.abort = "no"
        /\ u.tx = v.tx /\ u.closeCode = v.closeCode
    BY <1>1 DEF HandshakeClosed, Connection
  <2> HIDE DEF u
  <2>2. (Shut(u) <=> Shut(v)) /\ (Concluded(u) <=> Concluded(v))
    BY <1>1, <2>1 DEF Shut, Errored, Concluded
  <2>3. Sound(u)
    BY <1>1, <2>1, <2>2 DEF Sound
  <2>4. QED
    BY <2>1, <2>2, <2>3, SameInput DEF Becomes, u
<1>3. /\ Moves(v, [v EXCEPT !.abort = "close"])
      /\ [v EXCEPT !.abort = "close"].tx = v.tx
      /\ [v EXCEPT !.abort = "close"].readyState = v.readyState
  <2> DEFINE u == [v EXCEPT !.abort = "close"]
  <2>1. /\ u \in Connection /\ u.rx = v.rx /\ u.inbuf = v.inbuf /\ u.receiver = v.receiver
        /\ u.endEmitted = v.endEmitted /\ u.closeFrameReceived = v.closeFrameReceived
        /\ u.readyState = "CLOSING" /\ u.socket = "none"
        /\ u.tx = v.tx /\ u.closeCode = v.closeCode
    BY <1>1 DEF Connection
  <2> HIDE DEF u
  <2>2. (Shut(u) <=> Shut(v)) /\ (Concluded(u) <=> Concluded(v))
    BY <1>1, <2>1 DEF Shut, Errored, Concluded
  <2>3. Sound(u)
    BY <1>1, <2>1, <2>2 DEF Sound
  <2>4. QED
    BY <1>1, <2>1, <2>2, <2>3, MovesByFields DEF u
<1>4. QED
  BY <1>2, <1>3

LEMMA EmitCloseBecomes ==
    ASSUME NEW v, Sound(v), MayFinish(v)
    PROVE  Becomes(v, EmitClose(v), "CLOSED") /\ Concluded(v)
<1> DEFINE u == EmitClose(v)
<1>1. /\ v \in Connection /\ v.socket = "closed" /\ Concluded(v) /\ v.abort = "no"
  BY DEF Sound, MayFinish, Concluded, Connection
<1>2. /\ u \in Connection /\ u.rx = v.rx /\ u.inbuf = v.inbuf /\ u.receiver = v.receiver
      /\ u.endEmitted = v.endEmitted /\ u.closeFrameReceived = v.closeFrameReceived
      /\ u.readyState = "CLOSED" /\ u.socket = "closed" /\ u.abort = "no"
      /\ u.tx = v.tx /\ u.closeCode = v.closeCode
  BY <1>1 DEF EmitClose, Connection
<1> HIDE DEF u
<1>3. (Shut(u) <=> Shut(v)) /\ (Concluded(u) <=> Concluded(v))
  BY <1>1, <1>2 DEF Shut, Errored, Concluded
<1>4. Sound(u)
  BY <1>1, <1>2, <1>3 DEF Sound
<1>5. QED
  BY <1>1, <1>2, <1>3, <1>4, SameInput DEF Becomes, u

-----------------------------------------------------------------------------
(***************************************************************************)
(* The messages in a sequence of frames, and what is kept of them          *)
(***************************************************************************)
Messages(s) == {i \in 1..Len(s) : s[i].op = "data"}

Vals(s) == {s[i].val : i \in Messages(s)}

\* The messages still to be parsed come in order, after all that were emitted; last
\* is the number of the last frame the peer has sent.
Ahead(s, seen, last) ==
    /\ \A x \in seen : x \in Nat /\ x <= last
    /\ \A i \in Messages(s) : s[i].val <= last
    /\ \A i \in Messages(s) : \A x \in seen : x < s[i].val
    /\ \A i, j \in Messages(s) : i < j => s[i].val < s[j].val

\* What was handed to the client's sender, of the messages seen.
Down(out, seen, open) ==
    /\ \A i, j \in Messages(out) : i < j => out[i].val < out[j].val
    /\ Vals(out) \subseteq seen
    /\ open => seen \subseteq Vals(out)

\* What was handed to the sender of wsRemote or waits in the queue, of the messages
\* seen; past are those that were ever queued.
Up(out, queue, seen, past, fired, open) ==
    /\ \A i, j \in Messages(out) : out[i].val = out[j].val => i = j
    /\ \A i, j \in 1..Len(queue) : i < j => queue[i] < queue[j]
    /\ Vals(out) \cap Values(queue) = {}
    /\ Vals(out) \subseteq seen
    /\ Values(queue) \subseteq past
    /\ past \subseteq seen
    /\ open => seen \subseteq Vals(out) \cup Values(queue)
    /\ ~fired => Vals(out) \cap past = {}
    /\ \A i, j \in Messages(out) :
          i < j /\ out[i].val > out[j].val => out[j].val \in past /\ out[i].val \notin past

Prefix(s, t) == Len(s) <= Len(t) /\ \A i \in 1..Len(s) : s[i] = t[i]

LEMMA AheadWindow ==
    ASSUME NEW s \in Seq(FrameType), NEW t \in Seq(FrameType), NEW seen, NEW last,
           Window(s, t), Ahead(t, seen, last)
    PROVE  Ahead(s, seen, last)
<1>1. Len(s) \in Nat /\ Len(t) \in Nat
  BY LenProperties
<1>2. PICK k \in 0..Len(t) : k + Len(s) <= Len(t) /\ \A i \in 1..Len(s) : s[i] = t[k + i]
  BY DEF Window
<1>3. \A i \in Messages(s) : /\ k + i \in Messages(t) /\ s[i] = t[k + i] /\ i \in Nat
  BY <1>1, <1>2 DEF Messages
<1>4. \A i, j \in Messages(s) : i < j => k + i < k + j
  BY <1>2, <1>3
<1>5. \A i, j \in Messages(s) : i < j => s[i].val < s[j].val
  BY <1>3, <1>4 DEF Ahead
<1>6. QED
  BY <1>3, <1>5 DEF Ahead

\* Append and the messages.
LEMMA AppendMessages ==
    ASSUME NEW s \in Seq(FrameType), NEW f \in FrameType
    PROVE  LET t == Append(s, f)
               n == Len(s) + 1
           IN  /\ t \in Seq(FrameType) /\ n \in Nat /\ t[n] = f
               /\ \A i \in Messages(s) : i \in Nat /\ i < n /\ t[i] = s[i] /\ s[i].val \in Nat
               /\ Messages(t) = IF f.op = "data" THEN Messages(s) \cup {n} ELSE Messages(s)
               /\ Vals(t) = IF f.op = "data" THEN Vals(s) \cup {f.val} ELSE Vals(s)
<1> DEFINE t == Append(s, f)
           n == Len(s) + 1
<1>1. /\ Len(s) \in Nat /\ t \in Seq(FrameType) /\ Len(t) = n /\ t[n] = f
      /\ \A i \in 1..Len(s) : t[i] = s[i] /\ s[i] \in FrameType
  BY AppendProperties, LenProperties, ElementOfSeq
<1>0. n = Len(s) + 1 /\ n \in Nat
  BY <1>1
<1> HIDE DEF t, n
<1>2. \A i \in Messages(s) : i \in Nat /\ i < n /\ t[i] = s[i] /\ s[i].val \in Nat
  BY <1>1, <1>0 DEF Messages, FrameType
<1>3. Messages(t) = IF f.op = "data" THEN Messages(s) \cup {n} ELSE Messages(s)
  <2>1. ASSUME NEW i PROVE i \in 1..n <=> i \in 1..Len(s) \/ i = n
    BY <1>1, <1>0
  <2>2. QED
    BY <1>1, <2>1 DEF Messages
<1>4. Vals(t) = IF f.op = "data" THEN Vals(s) \cup {f.val} ELSE Vals(s)
  <2>1. CASE f.op = "data"
    <3>1. Vals(t) \subseteq Vals(s) \cup {f.val}
      BY <1>1, <1>2, <1>3, <2>1 DEF Vals
    <3>2. Vals(s) \cup {f.val} \subseteq Vals(t)
      BY <1>1, <1>2, <1>3, <2>1 DEF Vals
    <3>3. QED
      BY <2>1, <3>1, <3>2
  <2>2. CASE f.op # "data"
    BY <1>2, <1>3, <2>2 DEF Vals
  <2>3. QED
    BY <2>1, <2>2
<1>5. QED
  BY <1>1, <1>0, <1>2, <1>3, <1>4 DEF t, n

LEMMA AheadArrives ==
    ASSUME NEW s \in Seq(FrameType), NEW seen, NEW last \in Nat, Ahead(s, seen, last),
           NEW f \in FrameType, f.op = "data" => f.val = last + 1
    PROVE  Ahead(Append(s, f), seen, last + 1)
<1> DEFINE t == Append(s, f)
           n == Len(s) + 1
<1>1. /\ n \in Nat /\ t[n] = f
      /\ \A i \in Messages(s) : i \in Nat /\ i < n /\ t[i] = s[i] /\ s[i].val \in Nat
      /\ Messages(t) = IF f.op = "data" THEN Messages(s) \cup {n} ELSE Messages(s)
  BY AppendMessages
<1> HIDE DEF t, n
<1>2. \A x \in seen : x \in Nat /\ x <= last + 1 /\ x < last + 1
  BY DEF Ahead
<1>3. ASSUME NEW i \in Messages(t)
      PROVE  /\ t[i].val \in Nat /\ t[i].val <= last + 1
             /\ \A x \in seen : x < t[i].val
  BY <1>1, <1>2 DEF Ahead
<1>4. ASSUME NEW i \in Messages(t), NEW j \in Messages(t), i < j
      PROVE  t[i].val < t[j].val
  <2>1. i \in Messages(s)
    BY <1>1, <1>4
  <2>2. s[i].val <= last /\ t[i] = s[i]
    BY <1>1, <2>1 DEF Ahead
  <2>3. CASE j \in Messages(s)
    BY <1>1, <1>4, <2>1, <2>3 DEF Ahead
  <2>4. CASE f.op = "data" /\ j = n
    <3>1. t[j].val = last + 1 /\ t[i].val <= last /\ t[i].val \in Nat
      BY <1>1, <2>1, <2>2, <2>4
    <3>2. QED
      BY <3>1
  <2>5. QED
    BY <1>1, <2>3, <2>4
<1>5. QED
  BY <1>2, <1>3, <1>4 DEF Ahead, t

\* The first frame is a message and is parsed.
LEMMA AheadTakes ==
    ASSUME NEW s \in Seq(FrameType), NEW t \in Seq(FrameType), NEW seen, NEW last \in Nat,
           Ahead(t, seen, last), Len(t) # 0, t[1].op = "data", Len(s) = Len(t) - 1,
           \A i \in 1..Len(s) : s[i] = t[i + 1]
    PROVE  /\ Ahead(s, seen \cup {t[1].val}, last)
           /\ t[1].val \in Nat /\ \A x \in seen : x \in Nat /\ x < t[1].val
<1>1. Len(s) \in Nat /\ Len(t) \in Nat \ {0} /\ \A i \in 1..Len(t) : t[i] \in FrameType
  BY LenProperties, ElementOfSeq
<1>2. 1 \in Messages(t) /\ t[1].val \in Nat
  BY <1>1 DEF Messages, FrameType
<1>3. \A i \in Messages(s) : i \in Nat /\ i + 1 \in Messages(t) /\ s[i] = t[i + 1] /\ 1 < i + 1
  BY <1>1 DEF Messages
<1>4. \A i, j \in Messages(s) : i < j => i + 1 < j + 1
  BY <1>3
<1>5. \A i, j \in Messages(s) : i < j => s[i].val < s[j].val
  BY <1>3, <1>4 DEF Ahead
<1>6. \A i \in Messages(s) : \A x \in seen \cup {t[1].val} : x < s[i].val
  BY <1>2, <1>3 DEF Ahead
<1>7. QED
  BY <1>2, <1>3, <1>5, <1>6 DEF Ahead

-----------------------------------------------------------------------------

LEMMA PrefixMessages ==
    ASSUME NEW s \in Seq(FrameType), NEW t \in Seq(FrameType), Prefix(s, t)
    PROVE  /\ Messages(s) \subseteq Messages(t) /\ Vals(s) \subseteq Vals(t)
           /\ \A i \in Messages(s) : s[i] = t[i]
<1>1. Len(s) \in Nat /\ Len(t) \in Nat
  BY LenProperties
<1>2. \A i \in Messages(s) : i \in Messages(t) /\ s[i] = t[i]
  BY <1>1 DEF Prefix, Messages
<1>3. QED
  BY <1>2 DEF Vals

LEMMA DownCut ==
    ASSUME NEW s \in Seq(FrameType), NEW t \in Seq(FrameType), Prefix(s, t),
           NEW seen, NEW open, Down(t, seen, open)
    PROVE  Down(s, seen, FALSE)
BY PrefixMessages DEF Down

LEMMA DownControl ==
    ASSUME NEW s \in Seq(FrameType), NEW f \in FrameType, f.op # "data",
           NEW seen, NEW open, Down(s, seen, open)
    PROVE  Down(Append(s, f), seen, open)
<1> DEFINE t == Append(s, f)
<1>1. Messages(t) = Messages(s) /\ Vals(t) = Vals(s) /\ \A i \in Messages(s) : t[i] = s[i]
  BY AppendMessages
<1> HIDE DEF t
<1>2. \A i, j \in Messages(t) : i < j => t[i].val < t[j].val
  BY <1>1 DEF Down
<1>3. Vals(t) \subseteq seen /\ (open => seen \subseteq Vals(t))
  BY <1>1 DEF Down
<1>4. QED
  BY <1>2, <1>3 DEF Down, t

\* A message that comes after all others is handed over, or dropped.
LEMMA DownMessage ==
    ASSUME NEW s \in Seq(FrameType), NEW f \in FrameType, f.op = "data",
           NEW seen, NEW open, Down(s, seen, open), \A x \in seen : x < f.val
    PROVE  /\ Down(Append(s, f), seen \cup {f.val}, open)
           /\ Down(s, seen \cup {f.val}, FALSE)
<1> DEFINE t == Append(s, f)
           n == Len(s) + 1
<1>1. /\ n \in Nat /\ t[n] = f
      /\ \A i \in Messages(s) : i \in Nat /\ i < n /\ t[i] = s[i] /\ s[i].val \in Nat
      /\ Messages(t) = Messages(s) \cup {n}
      /\ Vals(t) = Vals(s) \cup {f.val}
  BY AppendMessages
<1> HIDE DEF t, n
<1>2. \A i \in Messages(s) : s[i].val < f.val
  BY DEF Down, Vals
<1>3. ASSUME NEW i \in Messages(t), NEW j \in Messages(t), i < j
      PROVE  t[i].val < t[j].val
  <2>1. i \in Messages(s)
    BY <1>1, <1>3
  <2>2. CASE j \in Messages(s)
    BY <1>1, <1>3, <2>1, <2>2 DEF Down
  <2>3. CASE j = n
    BY <1>1, <1>2, <2>1, <2>3
  <2>4. QED
    BY <1>1, <2>2, <2>3
<1>4. QED
  BY <1>1, <1>3 DEF Down, t

-----------------------------------------------------------------------------

LEMMA UpCut ==
    ASSUME NEW s \in Seq(FrameType), NEW t \in Seq(FrameType), Prefix(s, t),
           NEW queue, NEW seen, NEW past, NEW fired, NEW open,
           Up(t, queue, seen, past, fired, open)
    PROVE  Up(s, queue, seen, past, fired, FALSE)
<1>1. /\ Messages(s) \subseteq Messages(t) /\ Vals(s) \subseteq Vals(t)
      /\ \A i \in Messages(s) : s[i] = t[i]
  BY PrefixMessages
<1>2. \A i, j \in Messages(s) : s[i].val = s[j].val => i = j
  BY <1>1 DEF Up
<1>3. \A i, j \in Messages(s) :
         i < j /\ s[i].val > s[j].val => s[j].val \in past /\ s[i].val \notin past
  BY <1>1 DEF Up
<1>4. /\ Vals(s) \cap Values(queue) = {} /\ Vals(s) \subseteq seen
      /\ ~fired => Vals(s) \cap past = {}
  BY <1>1 DEF Up
<1>5. QED
  BY <1>2, <1>3, <1>4 DEF Up

LEMMA UpControl ==
    ASSUME NEW s \in Seq(FrameType), NEW f \in FrameType, f.op # "data",
           NEW queue, NEW seen, NEW past, NEW fired, NEW open,
           Up(s, queue, seen, past, fired, open)
    PROVE  Up(Append(s, f), queue, seen, past, fired, open)
<1> DEFINE t == Append(s, f)
<1>1. Messages(t) = Messages(s) /\ Vals(t) = Vals(s) /\ \A i \in Messages(s) : t[i] = s[i]
  BY AppendMessages
<1> HIDE DEF t
<1>2. \A i, j \in Messages(t) : t[i].val = t[j].val => i = j
  BY <1>1 DEF Up
<1>3. \A i, j \in Messages(t) :
         i < j /\ t[i].val > t[j].val => t[j].val \in past /\ t[i].val \notin past
  BY <1>1 DEF Up
<1>4. /\ Vals(t) \cap Values(queue) = {} /\ Vals(t) \subseteq seen
      /\ ~fired => Vals(t) \cap past = {}
      /\ open => seen \subseteq Vals(t) \cup Values(queue)
  BY <1>1 DEF Up
<1>5. QED
  BY <1>2, <1>3, <1>4 DEF Up, t

\* A message that comes after all others is sent past the queue.
LEMMA UpSent ==
    ASSUME NEW s \in Seq(FrameType), NEW f \in FrameType, f.op = "data",
           NEW queue, NEW seen, NEW past, NEW fired, NEW open,
           Up(s, queue, seen, past, fired, open),
           \A x \in seen : x \in Nat /\ x < f.val
    PROVE  Up(Append(s, f), queue, seen \cup {f.val}, past, fired, open)
<1> DEFINE t == Append(s, f)
           n == Len(s) + 1
           m == f.val
<1>1. /\ n \in Nat /\ t[n] = f
      /\ \A i \in Messages(s) : i \in Nat /\ i < n /\ t[i] = s[i] /\ s[i].val \in Nat
      /\ Messages(t) = Messages(s) \cup {n}
      /\ Vals(t) = Vals(s) \cup {m}
  BY AppendMessages
<1>2. m \in Nat /\ t[n].val = m
  BY <1>1 DEF FrameType
<1>3. m \notin seen
  BY <1>2
<1>4. \A i \in Messages(s) : s[i].val \in seen /\ s[i].val < m
  BY DEF Up, Vals
<1> HIDE DEF t, n, m
<1>5. \A i, j \in Messages(t) : t[i].val = t[j].val => i = j
  BY <1>1, <1>2, <1>3, <1>4 DEF Up
<1>6. ASSUME NEW i \in Messages(t), NEW j \in Messages(t), i < j, t[i].val > t[j].val
      PROVE  t[j].val \in past /\ t[i].val \notin past
  <2>1. i \in Messages(s)
    BY <1>1, <1>6
  <2>2. CASE j \in Messages(s)
    BY <1>1, <1>6, <2>1, <2>2 DEF Up
  <2>3. CASE j = n
    <3>1. t[i].val \in Nat /\ t[i].val < m /\ t[j].val = m
      BY <1>1, <1>2, <1>4, <2>1, <2>3
    <3>2. QED
      BY <1>2, <1>6, <3>1
  <2>4. QED
    BY <1>1, <2>2, <2>3
<1>7. /\ Vals(t) \cap Values(queue) = {} /\ Vals(t) \subseteq seen \cup {m}
      /\ ~fired => Vals(t) \cap past = {}
      /\ open => seen \cup {m} \subseteq Vals(t) \cup Values(queue)
      /\ past \subseteq seen \cup {m}
  BY <1>1, <1>3 DEF Up
<1>8. QED
  BY <1>5, <1>6, <1>7 DEF Up, t, m

LEMMA AppendValues ==
    ASSUME NEW q \in Seq(Nat), NEW m \in Nat
    PROVE  LET r == Append(q, m)
               n == Len(q) + 1
           IN  /\ r \in Seq(Nat) /\ n \in Nat /\ Len(r) = n /\ r[n] = m
               /\ \A i \in 1..Len(q) : r[i] = q[i] /\ q[i] \in Nat /\ i \in Nat /\ i < n
               /\ \A i : i \in 1..n <=> i \in 1..Len(q) \/ i = n
               /\ Values(r) = Values(q) \cup {m}
<1> DEFINE r == Append(q, m)
           n == Len(q) + 1
<1>1. /\ r \in Seq(Nat) /\ n \in Nat /\ Len(q) \in Nat /\ Len(r) = n /\ r[n] = m
      /\ \A i \in 1..Len(q) : r[i] = q[i] /\ q[i] \in Nat /\ i \in Nat /\ i < n
  BY AppendProperties, LenProperties, ElementOfSeq
<1>2. \A i : i \in 1..n <=> i \in 1..Len(q) \/ i = n
  BY <1>1
<1> HIDE DEF r, n
<1>3. Values(r) = Values(q) \cup {m}
  BY <1>1, <1>2 DEF Values
<1>4. QED
  BY <1>1, <1>2, <1>3 DEF r, n

\* A message that comes after all others waits in the queue.
LEMMA UpQueued ==
    ASSUME NEW s, NEW queue \in Seq(Nat), NEW m \in Nat,
           NEW seen, NEW past, NEW fired, NEW open,
           Up(s, queue, seen, past, fired, open),
           \A x \in seen : x \in Nat /\ x < m
    PROVE  Up(s, Append(queue, m), seen \cup {m}, past \cup {m}, fired, open)
<1> DEFINE r == Append(queue, m)
           n == Len(queue) + 1
<1>1. /\ Len(r) = n /\ r[n] = m /\ n \in Nat
      /\ \A i \in 1..Len(queue) : r[i] = queue[i] /\ queue[i] \in Nat /\ i \in Nat /\ i < n
      /\ \A i : i \in 1..n <=> i \in 1..Len(queue) \/ i = n
      /\ Values(r) = Values(queue) \cup {m}
  BY AppendValues
<1> HIDE DEF r, n
<1>2. m \notin seen /\ Vals(s) \subseteq seen /\ Values(queue) \subseteq seen
  BY DEF Up
<1>3. \A i \in 1..Len(queue) : queue[i] < m
  BY <1>2 DEF Values
<1>4. ASSUME NEW i \in 1..Len(r), NEW j \in 1..Len(r), i < j PROVE r[i] < r[j]
  <2>1. i \in 1..Len(queue)
    BY <1>1, <1>4
  <2>2. CASE j \in 1..Len(queue)
    BY <1>1, <1>4, <2>1, <2>2 DEF Up
  <2>3. CASE j = n
    BY <1>1, <1>3, <2>1, <2>3
  <2>4. QED
    BY <1>1, <2>2, <2>3
<1>5. ASSUME NEW i \in Messages(s), NEW j \in Messages(s), i < j, s[i].val > s[j].val
      PROVE  s[j].val \in past \cup {m} /\ s[i].val \notin past \cup {m}
  <2>1. s[i].val \in Vals(s)
    BY DEF Vals
  <2>2. QED
    BY <1>2, <1>5, <2>1 DEF Up
<1>6. /\ Vals(s) \cap Values(r) = {} /\ Vals(s) \subseteq seen \cup {m}
      /\ Values(r) \subseteq past \cup {m} /\ past \cup {m} \subseteq seen \cup {m}
      /\ ~fired => Vals(s) \cap (past \cup {m}) = {}
      /\ open => seen \cup {m} \subseteq Vals(s) \cup Values(r)
  BY <1>1, <1>2 DEF Up
<1>7. \A i, j \in Messages(s) : s[i].val = s[j].val => i = j
  BY DEF Up
<1>8. QED
  BY <1>4, <1>5, <1>6, <1>7 DEF Up, r

LEMMA ConcatFrames ==
    ASSUME NEW s \in Seq(FrameType), NEW q \in Seq(FrameType)
    PROVE  /\ Len(s \o q) = Len(s) + Len(q)
           /\ \A i \in 1..(Len(s) + Len(q)) :
                 (s \o q)[i] = IF i <= Len(s) THEN s[i] ELSE q[i - Len(s)]
BY ConcatProperties

\* The queue is emptied: its messages are handed over after all others, or dropped.
LEMMA UpFlushed ==
    ASSUME NEW s \in Seq(FrameType), NEW queue \in Seq(Nat),
           NEW seen, NEW past, NEW open,
           Up(s, queue, seen, past, FALSE, open)
    PROVE  LET q == [i \in DOMAIN queue |-> Frame("data", queue[i], FALSE)]
           IN  /\ q \in Seq(FrameType)
               /\ Up(s \o q, <<>>, seen, past, TRUE, open)
               /\ Up(s, <<>>, seen, past, TRUE, FALSE)
<1> DEFINE q == [i \in DOMAIN queue |-> Frame("data", queue[i], FALSE)]
           l == Len(s)
           t == s \o q
<1>1. /\ Len(queue) \in Nat /\ DOMAIN queue = 1..Len(queue) /\ l \in Nat
      /\ \A i \in 1..Len(queue) : queue[i] \in Nat
  BY LenProperties, ElementOfSeq
<1>2. /\ q \in Seq(FrameType) /\ Len(q) = Len(queue)
      /\ \A i \in 1..Len(queue) : q[i].op = "data" /\ q[i].val = queue[i]
  <2>1. \A i \in 1..Len(queue) : Frame("data", queue[i], FALSE) \in FrameType
    BY <1>1 DEF Frame, FrameType
  <2>2. q \in [1..Len(queue) -> FrameType]
    BY <1>1, <2>1
  <2>3. q \in Seq(FrameType)
    <3> HIDE DEF q
    <3>1. QED
      BY <1>1, <2>2
  <2>4. Len(q) = Len(queue)
    BY <1>1, <2>2, <2>3, LenProperties
  <2>5. QED
    BY <1>1, <2>3, <2>4 DEF Frame
<1> HIDE DEF q
<1>3. /\ Len(t) = l + Len(queue)
      /\ \A i \in 1..(l + Len(queue)) : t[i] = IF i <= l THEN s[i] ELSE q[i - l]
  <2>1. /\ Len(s \o q) = Len(s) + Len(q)
        /\ \A i \in 1..(Len(s) + Len(q)) :
              (s \o q)[i] = IF i <= Len(s) THEN s[i] ELSE q[i - Len(s)]
    BY <1>2, ConcatFrames
  <2>2. QED
    BY <1>2, <2>1
<1>4. /\ \A i \in Messages(s) : i \in 1..l /\ i \in Messages(t) /\ t[i] = s[i] /\ s[i].val \in Nat
      /\ \A i \in 1..Len(queue) : l + i \in Messages(t) /\ t[l + i].val = queue[i]
      /\ \A i \in Messages(t) :
            \/ i \in Messages(s)
            \/ i - l \in 1..Len(queue) /\ t[i].val = queue[i - l] /\ i > l
  <2>1. \A i \in 1..l : i \in 1..(l + Len(queue)) /\ t[i] = s[i] /\ s[i] \in FrameType
    BY <1>1, <1>3, ElementOfSeq
  <2>2. \A i \in 1..Len(queue) :
           /\ l + i \in 1..(l + Len(queue)) /\ ~(l + i <= l) /\ (l + i) - l = i
    BY <1>1
  <2>3. \A i \in 1..Len(queue) : t[l + i] = q[i]
    BY <1>3, <2>2
  <2>4. \A i \in 1..(l + Len(queue)) : i \in 1..l \/ (i - l \in 1..Len(queue) /\ i > l)
    BY <1>1
  <2>5. ASSUME NEW i \in 1..(l + Len(queue)), i - l \in 1..Len(queue), i > l
        PROVE  t[i].val = queue[i - l] /\ t[i].op = "data"
    <3>1. t[i] = q[i - l]
      BY <1>1, <1>3, <2>5
    <3>2. QED
      BY <1>2, <2>5, <3>1
  <2>6. \A i \in Messages(s) : /\ i \in 1..l /\ i \in Messages(t)
                               /\ t[i] = s[i] /\ s[i].val \in Nat
    BY <1>1, <1>3, <2>1 DEF Messages, FrameType
  <2>7. \A i \in 1..Len(queue) : l + i \in Messages(t) /\ t[l + i].val = queue[i]
    BY <1>2, <1>3, <2>2, <2>3 DEF Messages
  <2>8. ASSUME NEW i \in Messages(t)
        PROVE  \/ i \in Messages(s)
               \/ i - l \in 1..Len(queue) /\ t[i].val = queue[i - l] /\ i > l
    <3>1. i \in 1..(l + Len(queue)) /\ t[i].op = "data"
      BY <1>3, <2>8 DEF Messages
    <3>2. QED
      BY <2>1, <2>4, <2>5, <3>1 DEF Messages
  <2>9. QED
    BY <2>6, <2>7, <2>8
<1> HIDE DEF t, l
<1>5. Vals(t) = Vals(s) \cup Values(queue)
  <2>1. Vals(t) \subseteq Vals(s) \cup Values(queue)
    BY <1>4 DEF Vals, Values
  <2>2. Vals(s) \cup Values(queue) \subseteq Vals(t)
    BY <1>4 DEF Vals, Values
  <2>3. QED
    BY <2>1, <2>2
<1>6. /\ \A i \in Messages(s) : s[i].val \in Vals(s)
      /\ \A i \in 1..Len(queue) : queue[i] \in Values(queue)
      /\ Vals(s) \cap Values(queue) = {} /\ Vals(s) \cap past = {}
      /\ Values(queue) \subseteq past /\ past \subseteq seen /\ Vals(s) \subseteq seen
      /\ open => seen \subseteq Vals(s) \cup Values(queue)
  BY DEF Vals, Values, Up
<1>7. ASSUME NEW i \in Messages(t), NEW j \in Messages(t), t[i].val = t[j].val
      PROVE  i = j
  <2>1. CASE i \in Messages(s) /\ j \in Messages(s)
    BY <1>4, <1>7, <2>1 DEF Up
  <2>2. CASE i \in Messages(s) /\ j \notin Messages(s)
    BY <1>4, <1>6, <1>7, <2>2
  <2>3. CASE i \notin Messages(s) /\ j \in Messages(s)
    BY <1>4, <1>6, <1>7, <2>3
  <2>4. CASE i \notin Messages(s) /\ j \notin Messages(s)
    <3>1. /\ i - l \in 1..Len(queue) /\ j - l \in 1..Len(queue)
          /\ queue[i - l] = queue[j - l]
      BY <1>4, <1>7, <2>4
    <3>2. ~(i - l < j - l) /\ ~(j - l < i - l)
      BY <1>1, <3>1 DEF Up
    <3>3. i \in Nat /\ j \in Nat
      <4>1. \A k \in Messages(t) : k \in Nat
        BY <1>1, <1>2, <1>3 DEF Messages
      <4>2. QED
        BY <4>1
    <3>4. QED
      BY <1>1, <3>1, <3>2, <3>3
  <2>5. QED
    BY <2>1, <2>2, <2>3, <2>4
<1>8. ASSUME NEW i \in Messages(t), NEW j \in Messages(t), i < j, t[i].val > t[j].val
      PROVE  t[j].val \in past /\ t[i].val \notin past
  <2>1. CASE i \in Messages(s) /\ j \in Messages(s)
    BY <1>4, <1>8, <2>1 DEF Up
  <2>2. CASE i \in Messages(s) /\ j \notin Messages(s)
    BY <1>4, <1>6, <1>8, <2>2
  <2>3. CASE i \notin Messages(s) /\ j \in Messages(s)
    <3>1. j \in Nat /\ j <= l /\ i - l \in Nat /\ i \in Nat /\ i > l
      <4>1. \A k \in Messages(t) : k \in Nat
        BY <1>1, <1>2, <1>3 DEF Messages
      <4>2. QED
        BY <1>1, <1>4, <2>3, <4>1
    <3>2. QED
      BY <1>1, <1>8, <3>1
  <2>4. CASE i \notin Messages(s) /\ j \notin Messages(s)
    <3>1. /\ i - l \in 1..Len(queue) /\ j - l \in 1..Len(queue)
          /\ queue[i - l] > queue[j - l] /\ i \in Int /\ j \in Int
      <4>1. \A k \in Messages(t) : k \in Nat
        BY <1>1, <1>2, <1>3 DEF Messages
      <4>2. QED
        BY <1>4, <1>8, <2>4, <4>1
    <3>2. i - l < j - l
      BY <1>1, <1>8, <3>1
    <3>3. queue[i - l] < queue[j - l]
      BY <3>1, <3>2 DEF Up
    <3>4. QED
      BY <1>1, <3>1, <3>3
  <2>5. QED
    BY <2>1, <2>2, <2>3, <2>4
<1>9. Values(<<>>) = {} /\ Len(<<>>) = 0
  BY DEF Values
<1>10. Up(t, <<>>, seen, past, TRUE, open)
  BY <1>5, <1>6, <1>7, <1>8, <1>9 DEF Up
<1>11. Up(s, <<>>, seen, past, TRUE, FALSE)
  BY <1>6, <1>9 DEF Up
<1>12. QED
  BY <1>2, <1>10, <1>11 DEF q, t

-----------------------------------------------------------------------------
(***************************************************************************)
(* The inductive invariant                                                 *)
(***************************************************************************)

\* The codes a close frame may have been given: those of a connection count once
\* its receiver has concluded, when its close code is final.
Given ==
    {NoStatus, ProtocolCode} \cup {ep[e].closeCode : e \in {x \in End : Concluded(ep[x])}}

CodesIn(s, codes) == \A i \in 1..Len(s) : s[i].op = "close" => s[i].val \in codes

Ends == \A e \in End : Sound(ep[e]) /\ (ep[e].endEmitted => e \in peerFin)

Inputs == \A e \in End : Ahead(In(ep[e]), Values(emitted[e]), arrived[e])

Downstream ==
    Down(Out("client"), Values(emitted["remote"]), ep["client"].readyState = "OPEN")

Upstream ==
    Up(Out("remote"), queueData, Values(emitted["client"]), queued,
       flushTimer = "fired", ~Closing("remote"))

\* The timer is armed when wsRemote opens, and the queue stays empty once it fired.
Timer ==
    /\ ep["remote"].readyState = "OPEN" => flushTimer # "none"
    /\ ep["remote"].readyState = "OPEN" /\ flushTimer = "fired" => queueData = <<>>
    /\ ep["remote"].readyState = "CONNECTING" => flushTimer = "none"
    /\ ep["client"].readyState # "CONNECTING"

\* The part of CloseIsForwarded that is about readyState alone.
ClosesTogether ==
    \A e \in End : ep[e].readyState = "CLOSED" => Closing(Other(e))

HonestCodes == \A e \in End : CodesIn(Out(e), Given)

IInv ==
    /\ TypeOK
    /\ Ends
    /\ Inputs
    /\ Downstream
    /\ Upstream
    /\ Timer
    /\ ClosesTogether
    /\ HonestCodes

LEMMA CodesGrow ==
    ASSUME NEW s \in Seq(FrameType), NEW codes, CodesIn(s, codes)
    PROVE  /\ \A f \in FrameType :
                 (f.op = "close" => f.val \in codes) => CodesIn(Append(s, f), codes)
           /\ \A t \in Seq(FrameType) : Prefix(t, s) => CodesIn(t, codes)
           /\ \A more : codes \subseteq more => CodesIn(s, more)
<1>1. ASSUME NEW f \in FrameType, f.op = "close" => f.val \in codes
      PROVE  CodesIn(Append(s, f), codes)
  <2>1. /\ Len(s) \in Nat /\ Len(Append(s, f)) = Len(s) + 1
        /\ \A i \in 1..Len(s) : Append(s, f)[i] = s[i]
        /\ Append(s, f)[Len(s) + 1] = f
    BY AppendProperties, LenProperties
  <2>2. \A i \in 1..(Len(s) + 1) : i \in 1..Len(s) \/ i = Len(s) + 1
    BY <2>1
  <2>3. QED
    BY <1>1, <2>1, <2>2 DEF CodesIn
<1>2. ASSUME NEW t \in Seq(FrameType), Prefix(t, s) PROVE CodesIn(t, codes)
  <2>1. Len(t) \in Nat /\ Len(s) \in Nat
    BY LenProperties
  <2>2. \A i \in 1..Len(t) : i \in 1..Len(s) /\ t[i] = s[i]
    BY <1>2, <2>1 DEF Prefix
  <2>3. QED
    BY <2>2 DEF CodesIn
<1>3. QED
  BY <1>1, <1>2 DEF CodesIn

LEMMA HandsMore ==
    ASSUME NEW v, NEW u, NEW codes, NEW more, codes \subseteq more, Hands(v, u, codes)
    PROVE  Hands(v, u, more)
BY DEF Hands

\* What becomes of the frames handed over to a connection's sender.
LEMMA OutMoves ==
    ASSUME NEW w \in Seq(FrameType), NEW v \in Connection, NEW u \in Connection, NEW codes,
           Hands(v, u, codes)
    PROVE  LET s == w \o v.tx
               t == w \o u.tx
           IN  /\ s \in Seq(FrameType) /\ t \in Seq(FrameType)
               /\ \/ t = s
                  \/ Prefix(t, s) /\ u.readyState \in {"CLOSING", "CLOSED"}
                  \/ \E f \in FrameType : /\ f.op # "data"
                                          /\ f.op = "close" => f.val \in codes
                                          /\ t = Append(s, f)
<1> DEFINE x == v.tx
           y == u.tx
<1>1. x \in Seq(FrameType) /\ y \in Seq(FrameType)
  BY DEF Connection
<1>2. \/ y = x
      \/ y = <<>> /\ u.readyState \in {"CLOSING", "CLOSED"}
      \/ \E f \in FrameType : /\ f.op # "data"
                              /\ f.op = "close" => f.val \in codes
                              /\ y = Append(x, f)
  BY DEF Hands
<1> HIDE DEF x, y
<1>3. w \o x \in Seq(FrameType) /\ w \o y \in Seq(FrameType)
  BY <1>1, ConcatProperties
<1>4. ASSUME y = <<>> PROVE Prefix(w \o y, w \o x)
  <2>1. w \o y = w
    BY <1>4, ConcatEmptySeq
  <2>2. Prefix(w, w \o x)
    <3>1. Len(w) \in Nat /\ Len(x) \in Nat /\ Len(w \o x) = Len(w) + Len(x)
          /\ \A i \in 1..(Len(w) + Len(x)) :
                (w \o x)[i] = IF i <= Len(w) THEN w[i] ELSE x[i - Len(w)]
      BY <1>1, ConcatFrames, LenProperties
    <3>2. QED
      BY <3>1 DEF Prefix
  <2>3. QED
    BY <2>1, <2>2
<1>5. ASSUME NEW f \in FrameType, y = Append(x, f) PROVE w \o y = Append(w \o x, f)
  BY <1>1, <1>5, AppendMoves
<1>6. QED
  BY <1>2, <1>3, <1>4, <1>5 DEF x, y

\* v becomes u: goes on as Moves says, or is CLOSED.
Goes(v, u) ==
    /\ Moves(v, u) \/ Becomes(v, u, "CLOSED")
    /\ Hands(v, u, Given')

LEMMA GoesFacts ==
    ASSUME NEW v, NEW u, Goes(v, u)
    PROVE  /\ Sound(u)
           /\ \/ u.readyState \in {"CLOSING", "CLOSED"}
              \/ u.readyState = v.readyState
           /\ Concluded(v) => Concluded(u) /\ u.closeCode = v.closeCode
           /\ Window(In(u), In(v))
           /\ Hands(v, u, Given')
BY DEF Goes, Moves, Becomes

-----------------------------------------------------------------------------
(***************************************************************************)
(* Only socketOnEnd sets endEmitted                                        *)
(***************************************************************************)
LEMMA SameEnd ==
    ASSUME NEW v, Sound(v), NEW code \in Nat
    PROVE  /\ Close(v, code).endEmitted = v.endEmitted
           /\ OnClose(v, code).endEmitted = v.endEmitted
           /\ OnError(v).endEmitted = v.endEmitted
           /\ OnClose(OnError(v), code).endEmitted = v.endEmitted
<1>1. ASSUME NEW x, Sound(x), NEW c \in Nat PROVE Close(x, c).endEmitted = x.endEmitted
  BY <1>1 DEF Sound, Connection, Close, AbortRequest
<1>2. NoCode \in Nat
  BY DEF NoCode
<1>3. ASSUME NEW x, Sound(x) PROVE OnClose(x, code).endEmitted = x.endEmitted
  <2>1. Sound(Close(x, code))
    BY <1>3, CloseMoves DEF Moves
  <2>2. Close(Close(x, code), NoCode).endEmitted = Close(x, code).endEmitted
    BY <1>1, <1>2, <2>1
  <2>3. Close(x, code).endEmitted = x.endEmitted
    BY <1>1, <1>3
  <2>4. QED
    BY <2>2, <2>3 DEF OnClose
<1>4. Sound(OnError(v))
  BY OnErrorMoves DEF Moves
<1>5. OnError(v).endEmitted = v.endEmitted
  BY <1>1, <1>2 DEF OnError
<1>6. QED
  BY <1>1, <1>3, <1>4, <1>5

LEMMA SameEndParsed ==
    ASSUME NEW v, Sound(v), v.rx # <<>>
    PROVE  /\ Parsed(v).endEmitted = v.endEmitted
           /\ ReceiverOnPing(v).endEmitted = v.endEmitted
           /\ ReceiverOnConclude(v).endEmitted = v.endEmitted
           /\ ReceiverOnError(v).endEmitted = v.endEmitted
<1>1. Parsed(v).endEmitted = v.endEmitted
  BY DEF Sound, Connection, Parsed
<1>2. ReceiverOnPing(v).endEmitted = v.endEmitted
  <2>1. Sound(Parsed(v))
    BY ParsedMoves DEF Moves
  <2>2. QED
    BY <1>1, <2>1 DEF ReceiverOnPing, SendFrame, Sound, Connection
<1>3. ASSUME NEW x \in Connection, NEW c PROVE Close(x, c).endEmitted = x.endEmitted
  BY DEF Connection, Close, AbortRequest
<1>4. ASSUME NEW c \in Nat, NEW b \in BOOLEAN, NEW r \in {"finished", "errored"}
      PROVE  /\ Stopped(v, b, c, r).endEmitted = v.endEmitted
             /\ Stopped(v, b, c, r) \in Connection
  BY ZenonT(40), EmptySeq DEF Stopped, StopListening, Sound, Connection
<1>5. Head(v.rx).val \in Nat
  <2>1. Head(v.rx) \in FrameType
    BY HeadTailProperties DEF Sound, Connection
  <2>2. QED
    BY <2>1 DEF FrameType
<1>6. ReceiverOnConclude(v).endEmitted = v.endEmitted
  BY <1>3, <1>4, <1>5 DEF ReceiverOnConclude, Stopped
<1>7. ReceiverOnError(v).endEmitted = v.endEmitted
  <2>1. [v EXCEPT !.receiver = "errored", !.rx = <<>>]
           = [v EXCEPT !.closeFrameReceived = v.closeFrameReceived, !.closeCode = v.closeCode,
                       !.receiver = "errored", !.rx = <<>>]
        /\ v.closeFrameReceived \in BOOLEAN /\ v.closeCode \in Nat
    BY DEF Sound, Connection
  <2> DEFINE x == Stopped(v, v.closeFrameReceived, v.closeCode, "errored")
  <2>2. ReceiverOnError(v) = IF v.socket = "closed" THEN x ELSE Close(x, ProtocolCode)
    BY <2>1 DEF ReceiverOnError, Stopped
  <2>3. x.endEmitted = v.endEmitted /\ x \in Connection
    BY <1>4, <2>1
  <2> HIDE DEF x
  <2>4. QED
    BY <1>3, <2>2, <2>3
<1>8. QED
  BY <1>1, <1>2, <1>6, <1>7

LEMMA SameEndSocket ==
    ASSUME NEW v, Sound(v)
    PROVE  /\ FlowOne(v).endEmitted = v.endEmitted
           /\ SocketOnError(v).endEmitted = v.endEmitted
           /\ CloseTimeout(v).endEmitted = v.endEmitted
           /\ SocketOnClose(v).endEmitted = v.endEmitted
           /\ Written(v).endEmitted = v.endEmitted
           /\ \A f : /\ Arrive(v, f).endEmitted = v.endEmitted
                     /\ SendFrame(v, f).endEmitted = v.endEmitted
<1>1. v \in Connection
  BY DEF Sound
<1>2. FlowOne(v).endEmitted = v.endEmitted
  BY <1>1 DEF Connection, FlowOne, SocketOnData
<1>3. SocketOnError(v).endEmitted = v.endEmitted /\ CloseTimeout(v).endEmitted = v.endEmitted
  BY <1>1 DEF Connection, SocketOnError, CloseTimeout
<1>4. SocketOnClose(v).endEmitted = v.endEmitted
  BY <1>1 DEF Connection, SocketOnClose, EndReceiver
<1>5. Written(v).endEmitted = v.endEmitted
  BY <1>1 DEF Connection, Written
<1>6. \A f : /\ Arrive(v, f).endEmitted = v.endEmitted
             /\ SendFrame(v, f).endEmitted = v.endEmitted
  BY <1>1 DEF Connection, Arrive, SocketOnData, SendFrame
<1>7. QED
  BY <1>2, <1>3, <1>4, <1>5, <1>6

LEMMA SameEndHandshake ==
    ASSUME NEW v, Sound(v)
    PROVE  /\ Upgraded(v).endEmitted = v.endEmitted
           /\ UpgradeRefused(v).endEmitted = v.endEmitted
           /\ AbortRequest(v).endEmitted = v.endEmitted
           /\ HandshakeClosed(v).endEmitted = v.endEmitted
           /\ [v EXCEPT !.abort = "close"].endEmitted = v.endEmitted
           /\ EmitClose(v).endEmitted = v.endEmitted
BY DEF Sound, Connection, Upgraded, SetSocket, UpgradeRefused, AbortRequest, HandshakeClosed,
       EmitClose

-----------------------------------------------------------------------------
(***************************************************************************)
(* Steps that move no message                                              *)
(***************************************************************************)

LEMMA OtherFacts ==
    \A e \in End : /\ Other(e) \in End /\ Other(Other(e)) = e /\ Other(e) # e
                   /\ End = {e, Other(e)}
BY DEF End, Other

\* Close codes that count now count later.
LEMMA GivenGrows ==
    ASSUME \A e \in End : Concluded(ep[e]) =>
              Concluded(ep'[e]) /\ ep'[e].closeCode = ep[e].closeCode
    PROVE  Given \subseteq Given'
BY DEF Given

\* The three conjuncts about what was handed over, for one end.
LEMMA QuietOut ==
    ASSUME NEW w \in Seq(FrameType), NEW v, NEW u, Sound(v), Goes(v, u),
           Given \subseteq Given', CodesIn(w \o v.tx, Given)
    PROVE  LET s == w \o v.tx
               t == w \o u.tx
           IN  /\ t \in Seq(FrameType)
               /\ CodesIn(t, Given')
               /\ \A seen : Down(s, seen, v.readyState = "OPEN")
                               => Down(t, seen, u.readyState = "OPEN")
               /\ \A queue, seen, past, fired :
                     Up(s, queue, seen, past, fired, v.readyState \notin {"CLOSING", "CLOSED"})
                        => Up(t, queue, seen, past, fired,
                              u.readyState \notin {"CLOSING", "CLOSED"})
<1> DEFINE s == w \o v.tx
           t == w \o u.tx
<1>1. /\ Sound(u) /\ Hands(v, u, Given') /\ v \in Connection /\ u \in Connection
      /\ u.readyState \in {"CLOSING", "CLOSED"} \/ u.readyState = v.readyState
  BY GoesFacts DEF Sound
<1>2. /\ s \in Seq(FrameType) /\ t \in Seq(FrameType)
      /\ \/ t = s
         \/ Prefix(t, s) /\ u.readyState \in {"CLOSING", "CLOSED"}
         \/ \E f \in FrameType : /\ f.op # "data"
                                 /\ f.op = "close" => f.val \in Given'
                                 /\ t = Append(s, f)
  BY ZenonT(40), <1>1, OutMoves
<1>3. CodesIn(s, Given)
  OBVIOUS
<1> HIDE DEF s, t
<1>4. CodesIn(s, Given')
  BY <1>2, <1>3, CodesGrow
<1>5. CodesIn(t, Given')
  BY <1>2, <1>4, CodesGrow
<1>6. ASSUME NEW seen, Down(s, seen, v.readyState = "OPEN")
      PROVE  Down(t, seen, u.readyState = "OPEN")
  <2>1. CASE t = s
    BY <1>1, <1>6, <2>1 DEF Down
  <2>2. CASE Prefix(t, s) /\ u.readyState \in {"CLOSING", "CLOSED"}
    <3>1. Down(t, seen, FALSE)
      BY <1>2, <1>6, <2>2, DownCut
    <3>2. QED
      BY <2>2, <3>1 DEF Down
  <2>3. CASE \E f \in FrameType : f.op # "data" /\ t = Append(s, f)
    <3>1. Down(t, seen, v.readyState = "OPEN")
      BY <1>2, <1>6, <2>3, DownControl
    <3>2. QED
      BY <1>1, <3>1 DEF Down
  <2>4. QED
    BY <1>2, <2>1, <2>2, <2>3
<1>7. ASSUME NEW queue, NEW seen, NEW past, NEW fired,
             Up(s, queue, seen, past, fired, v.readyState \notin {"CLOSING", "CLOSED"})
      PROVE  Up(t, queue, seen, past, fired, u.readyState \notin {"CLOSING", "CLOSED"})
  <2>1. CASE t = s
    BY <1>1, <1>7, <2>1 DEF Up
  <2>2. CASE Prefix(t, s) /\ u.readyState \in {"CLOSING", "CLOSED"}
    <3>1. Up(t, queue, seen, past, fired, FALSE)
      BY <1>2, <1>7, <2>2, UpCut
    <3>2. QED
      BY <2>2, <3>1 DEF Up
  <2>3. CASE \E f \in FrameType : f.op # "data" /\ t = Append(s, f)
    <3>1. Up(t, queue, seen, past, fired, v.readyState \notin {"CLOSING", "CLOSED"})
      BY <1>2, <1>7, <2>3, UpControl
    <3>2. QED
      BY <1>1, <3>1 DEF Up
  <2>4. QED
    BY <1>2, <2>1, <2>2, <2>3
<1>8. QED
  BY <1>2, <1>5, <1>6, <1>7 DEF s, t

\* What a step that takes both connections further keeps of the invariant.
Quiet ==
    /\ ep' = [e \in End |-> ep'[e]]
    /\ \A e \in End : /\ Goes(ep[e], ep'[e])
                      /\ Moves(ep[e], ep'[e]) \/ Closing(Other(e))'
                      /\ ep'[e].endEmitted => e \in peerFin'

LEMMA QuietConnections ==
    ASSUME IInv, Quiet
    PROVE  /\ ep' \in [End -> Connection]
           /\ Given \subseteq Given'
           /\ Ends' /\ ClosesTogether'
           /\ \A e \in End : /\ Sound(ep[e]) /\ Sound(ep'[e])
                             /\ \/ ep'[e].readyState \in {"CLOSING", "CLOSED"}
                                \/ ep'[e].readyState = ep[e].readyState
                             /\ Window(In(ep'[e]), In(ep[e]))
<1>1. \A e \in End : /\ Sound(ep[e]) /\ Sound(ep'[e])
                     /\ \/ ep'[e].readyState \in {"CLOSING", "CLOSED"}
                        \/ ep'[e].readyState = ep[e].readyState
                     /\ Window(In(ep'[e]), In(ep[e]))
                     /\ Concluded(ep[e]) =>
                           Concluded(ep'[e]) /\ ep'[e].closeCode = ep[e].closeCode
  BY GoesFacts DEF Quiet, IInv, Ends
<1>2. ep' \in [End -> Connection]
  <2>1. \A e \in End : ep'[e] \in Connection
    BY <1>1 DEF Sound
  <2>2. QED
    BY <2>1 DEF Quiet
<1>3. Given \subseteq Given'
  BY <1>1, GivenGrows
<1>4. Ends'
  BY <1>1 DEF Quiet, Ends
<1>5. ASSUME NEW e \in End, ep'[e].readyState = "CLOSED"
      PROVE  ep'[Other(e)].readyState \in {"CLOSING", "CLOSED"}
  <2>1. Other(e) \in End
    BY OtherFacts
  <2>2. CASE Closing(Other(e))'
    BY <2>2 DEF Closing
  <2>3. CASE Moves(ep[e], ep'[e])
    <3>1. ep[e].readyState = "CLOSED"
      BY <1>5, <2>3 DEF Moves
    <3>2. ep[Other(e)].readyState \in {"CLOSING", "CLOSED"}
      BY <3>1 DEF IInv, ClosesTogether, Closing
    <3>3. QED
      BY <1>1, <2>1, <3>2
  <2>4. QED
    BY <2>2, <2>3 DEF Quiet
<1>6. ClosesTogether'
  BY <1>5 DEF ClosesTogether, Closing
<1>7. QED
  BY <1>1, <1>2, <1>3, <1>4, <1>6

LEMMA OutType ==
    ASSUME TypeOK, NEW e \in End
    PROVE  Out(e) \in Seq(FrameType) /\ wire[e] \in Seq(FrameType)
BY ConcatProperties DEF TypeOK, Connection, Out

LEMMA Sides == "client" \in End /\ "remote" \in End
BY DEF End

LEMMA QuietKeeps ==
    ASSUME IInv, Quiet, peerFin' \subseteq End,
           UNCHANGED <<queueData, flushTimer, arrived, wire, emitted, queued>>
    PROVE  IInv'
<1>1. /\ ep' \in [End -> Connection]
      /\ Given \subseteq Given'
      /\ Ends' /\ ClosesTogether'
      /\ \A e \in End : /\ Sound(ep[e]) /\ Sound(ep'[e])
                        /\ \/ ep'[e].readyState \in {"CLOSING", "CLOSED"}
                           \/ ep'[e].readyState = ep[e].readyState
                        /\ Window(In(ep'[e]), In(ep[e]))
  BY QuietConnections
<1>2. TypeOK'
  BY <1>1 DEF IInv, TypeOK
<1>3. Inputs'
  <2>1. ASSUME NEW e \in End
        PROVE  Ahead(In(ep'[e]), Values(emitted[e]), arrived[e])
    <3>1. Ahead(In(ep[e]), Values(emitted[e]), arrived[e])
      BY DEF IInv, Inputs
    <3>2. In(ep[e]) \in Seq(FrameType) /\ In(ep'[e]) \in Seq(FrameType)
      BY <1>1, InLength
    <3>3. Window(In(ep'[e]), In(ep[e]))
      BY <1>1
    <3>4. QED
      BY <3>1, <3>2, <3>3, AheadWindow
  <2>2. QED
    BY <2>1 DEF Inputs
<1>4. ASSUME NEW e \in End
      PROVE  LET t == wire[e] \o ep'[e].tx
             IN  /\ CodesIn(t, Given')
                 /\ \A seen : Down(Out(e), seen, ep[e].readyState = "OPEN")
                                 => Down(t, seen, ep'[e].readyState = "OPEN")
                 /\ \A queue, seen, past, fired :
                       Up(Out(e), queue, seen, past, fired,
                          ep[e].readyState \notin {"CLOSING", "CLOSED"})
                         => Up(t, queue, seen, past, fired,
                               ep'[e].readyState \notin {"CLOSING", "CLOSED"})
  <2>1. wire[e] \in Seq(FrameType)
    BY DEF IInv, TypeOK
  <2>2. CodesIn(wire[e] \o ep[e].tx, Given)
    BY DEF IInv, HonestCodes, Out
  <2>3. Sound(ep[e]) /\ Goes(ep[e], ep'[e])
    BY <1>1 DEF Quiet
  <2>4. QED
    BY <1>1, <2>1, <2>2, <2>3, QuietOut DEF Out
<1>5. Downstream'
  <2>1. Down(Out("client"), Values(emitted["remote"]), ep["client"].readyState = "OPEN")
    BY DEF IInv, Downstream
  <2>2. Down(wire["client"] \o ep'["client"].tx, Values(emitted["remote"]),
             ep'["client"].readyState = "OPEN")
    BY <1>4, <2>1, Sides
  <2>3. QED
    BY <2>2 DEF Downstream, Out
<1>6. Upstream'
  <2>1. Up(Out("remote"), queueData, Values(emitted["client"]), queued,
           flushTimer = "fired", ep["remote"].readyState \notin {"CLOSING", "CLOSED"})
    BY DEF IInv, Upstream, Closing
  <2>2. Up(wire["remote"] \o ep'["remote"].tx, queueData, Values(emitted["client"]), queued,
           flushTimer = "fired", ep'["remote"].readyState \notin {"CLOSING", "CLOSED"})
    BY <1>4, <2>1, Sides
  <2>3. QED
    BY <2>2 DEF Upstream, Out, Closing
<1>7. HonestCodes'
  BY <1>4 DEF HonestCodes, Out
<1>8. Timer'
  BY <1>1, Sides DEF IInv, Timer
<1>9. QED
  BY <1>1, <1>2, <1>3, <1>5, <1>6, <1>7, <1>8 DEF IInv

LEMMA GoesBy ==
    ASSUME NEW v, NEW u
    PROVE  /\ \A codes : codes \subseteq Given' /\ Moves(v, u) /\ Hands(v, u, codes)
                           => Goes(v, u)
           /\ Becomes(v, u, "CLOSED") => Goes(v, u)
           /\ Sound(v) => Goes(v, v) /\ Moves(v, v)
           /\ {NoStatus, ProtocolCode} \subseteq Given'
<1>1. ASSUME NEW codes, codes \subseteq Given', Moves(v, u), Hands(v, u, codes)
      PROVE  Goes(v, u)
  BY <1>1, HandsMore DEF Goes
<1>2. Becomes(v, u, "CLOSED") => Goes(v, u)
  BY DEF Goes, Becomes, Hands
<1>3. Sound(v) => Goes(v, v) /\ Moves(v, v)
  BY SameInput DEF Goes, Moves, Hands
<1>4. {NoStatus, ProtocolCode} \subseteq Given'
  BY DEF Given
<1>5. QED
  BY <1>1, <1>2, <1>3, <1>4

\* One connection goes to v, or v is CLOSED and the other one closes; nothing else
\* changes.
LEMMA BothKeep ==
    ASSUME IInv, NEW e \in End, NEW v, NEW o, Both(e, v, o),
           Goes(ep[e], v), Goes(ep[Other(e)], o), Moves(ep[Other(e)], o),
           Moves(ep[e], v) \/ o.readyState \in {"CLOSING", "CLOSED"},
           v.endEmitted => ep[e].endEmitted \/ e \in peerFin,
           o.endEmitted = ep[Other(e)].endEmitted,
           UNCHANGED <<queueData, flushTimer, peerFin, arrived, wire, emitted, queued>>
    PROVE  IInv'
<1>1. Other(e) \in End /\ Other(Other(e)) = e /\ Other(e) # e /\ \A x \in End : x = e \/ x = Other(e)
  BY OtherFacts
<1>2. ep' = [x \in End |-> ep'[x]] /\ ep'[e] = v /\ ep'[Other(e)] = o
  BY <1>1 DEF Both
<1>3. Goes(ep[e], ep'[e]) /\ Goes(ep[Other(e)], ep'[Other(e)])
  BY <1>2
<1>4. \A x \in End : ep[x].endEmitted => x \in peerFin
  BY DEF IInv, Ends
<1>5. \A x \in End : ep'[x].endEmitted => x \in peerFin'
  BY <1>1, <1>2, <1>4
<1>6. \A x \in End : Moves(ep[x], ep'[x]) \/ Closing(Other(x))'
  BY <1>1, <1>2 DEF Closing
<1>7. Quiet
  BY <1>1, <1>2, <1>3, <1>5, <1>6 DEF Quiet
<1>8. peerFin' \subseteq End
  BY DEF IInv, TypeOK
<1>9. QED
  BY <1>7, <1>8, QuietKeeps

LEMMA OneIsBoth ==
    ASSUME TypeOK, NEW e \in End, NEW v, ep' = [ep EXCEPT ![e] = v]
    PROVE  Both(e, v, ep[Other(e)])
BY OtherFacts DEF TypeOK, Both

\* Only one connection is taken further.
LEMMA OneKeeps ==
    ASSUME IInv, NEW e \in End, NEW v, ep' = [ep EXCEPT ![e] = v],
           Moves(ep[e], v), Hands(ep[e], v, {}),
           v.endEmitted => ep[e].endEmitted \/ e \in peerFin,
           UNCHANGED <<queueData, flushTimer, peerFin, arrived, wire, emitted, queued>>
    PROVE  IInv'
<1> DEFINE o == ep[Other(e)]
<1>1. Both(e, v, o)
  BY OneIsBoth DEF IInv
<1>2. Sound(o)
  BY OtherFacts DEF IInv, Ends
<1>3. Goes(ep[e], v) /\ Goes(o, o) /\ Moves(o, o)
  BY <1>2, GoesBy
<1>4. QED
  BY <1>1, <1>3, BothKeep

-----------------------------------------------------------------------------
(***************************************************************************)
(* The steps that move no message, one lemma each                          *)
(***************************************************************************)

LEMMA FlowKeeps == ASSUME IInv, NEW e \in End, Flow(e) PROVE IInv'
<1>1. Sound(ep[e]) /\ CanFlow(ep[e]) /\ ep' = [ep EXCEPT ![e] = FlowOne(ep[e])]
  BY DEF IInv, Ends, Flow
<1>2. /\ Moves(ep[e], FlowOne(ep[e])) /\ Hands(ep[e], FlowOne(ep[e]), {})
      /\ FlowOne(ep[e]).endEmitted = ep[e].endEmitted
  BY <1>1, FlowOneMoves, SameEndSocket DEF Hands
<1>3. UNCHANGED <<queueData, flushTimer, peerFin, arrived, wire, emitted, queued>>
  BY DEF Flow, Bookkeeping
<1> DEFINE u == FlowOne(ep[e])
<1> HIDE DEF u
<1>4. QED
  BY <1>1, <1>2, <1>3, OneKeeps DEF u

LEMMA FinishKeeps == ASSUME IInv, NEW e \in End, Finish(e) PROVE IInv'
<1> DEFINE v == ep[e]
           o == ep[Other(e)]
           u == EmitClose(v)
           c == v.closeCode
           p == OnClose(o, c)
<1>1. /\ Sound(v) /\ Sound(o) /\ MayFinish(v) /\ Both(e, u, p) /\ c \in Nat
      /\ UNCHANGED <<queueData, flushTimer, peerFin, arrived, wire, emitted, queued>>
  BY OtherFacts DEF IInv, Ends, Finish, Bookkeeping, Sound, Connection
<1> HIDE DEF v, o
<1>2. Becomes(v, u, "CLOSED") /\ Concluded(v) /\ u.endEmitted = v.endEmitted
  BY <1>1, EmitCloseBecomes, SameEndHandshake
<1> HIDE DEF c
<1>3. /\ Moves(o, p) /\ Hands(o, p, CodesOf(c)) /\ p.readyState \in {"CLOSING", "CLOSED"}
      /\ p.endEmitted = o.endEmitted
  BY <1>1, OnCloseMoves, SameEnd
<1> HIDE DEF u, p
<1>4. Goes(v, u)
  BY <1>2, GoesBy
<1>5. c \in Given'
  <2>1. ep'[e] = u
    BY <1>1 DEF Both
  <2>2. Concluded(u) /\ u.closeCode = c
    BY <1>2 DEF Becomes, c
  <2>3. QED
    BY <2>1, <2>2 DEF Given
<1>6. CodesOf(c) \subseteq Given'
  BY <1>5, GoesBy DEF CodesOf
<1>7. Goes(o, p)
  BY <1>3, <1>6, GoesBy
<1>8. QED
  BY <1>1, <1>2, <1>3, <1>4, <1>7, BothKeep DEF v, o

\* wsRemote's handshake fails: 'error' and 'close'.
LEMMA ErrorAndCloseKeeps ==
    ASSUME IInv, ErrorAndClose,
           ep.remote.abort # "no" \/ ep.remote.readyState = "CONNECTING",
           UNCHANGED <<queueData, flushTimer, peerFin, arrived, wire, emitted, queued>>
    PROVE  IInv'
<1> DEFINE v == ep["remote"]
           o == ep["client"]
           u == HandshakeClosed(v)
           p == OnClose(OnError(o), Abnormal)
<1>1. /\ Sound(v) /\ Sound(o) /\ Both("remote", u, p) /\ o = ep[Other("remote")]
      /\ v.abort # "no" \/ v.readyState = "CONNECTING"
  BY DEF IInv, Ends, End, Other, ErrorAndClose
<1>2. Abnormal \in Nat
  BY DEF Abnormal
<1> HIDE DEF v, o
<1>3. Becomes(v, u, "CLOSED") /\ u.endEmitted = v.endEmitted
  BY <1>1, AbortMoves, HandshakeMoves, SameEndHandshake
<1>4. /\ Moves(o, p) /\ Hands(o, p, {NoStatus}) /\ p.readyState \in {"CLOSING", "CLOSED"}
      /\ p.endEmitted = o.endEmitted
  BY <1>1, <1>2, OnErrorOnCloseMoves, SameEnd
<1> HIDE DEF u, p
<1>5. Goes(v, u) /\ Goes(o, p)
  BY <1>3, <1>4, GoesBy
<1>6. QED
  BY <1>1, <1>3, <1>4, <1>5, BothKeep, Sides DEF v, o

LEMMA AbortTickKeeps == ASSUME IInv, AbortTick PROVE IInv'
<1>1. UNCHANGED <<queueData, flushTimer, peerFin, arrived, wire, emitted, queued>>
  BY DEF AbortTick, Bookkeeping
<1>2. CASE ep.remote.abort = "tick" /\ ErrorAndClose
  BY <1>1, <1>2, ErrorAndCloseKeeps
<1>3. CASE /\ ep.remote.abort = "error"
           /\ Both("remote", [ep.remote EXCEPT !.abort = "close"], OnError(ep.client))
  <2> DEFINE v == ep["remote"]
             o == ep["client"]
             u == [v EXCEPT !.abort = "close"]
             p == OnError(o)
  <2>1. /\ Sound(v) /\ Sound(o) /\ Both("remote", u, p) /\ o = ep[Other("remote")]
        /\ v.abort # "no"
    BY <1>3 DEF IInv, Ends, End, Other
  <2> HIDE DEF v, o
  <2>2. Moves(v, u) /\ u.tx = v.tx /\ u.endEmitted = v.endEmitted
    BY <2>1, AbortMoves, SameEndHandshake
  <2>3. Moves(o, p) /\ Hands(o, p, {NoStatus}) /\ p.endEmitted = o.endEmitted
    <3>1. NoStatus \in Nat
      BY DEF NoStatus
    <3>2. QED
      BY <2>1, <3>1, OnErrorMoves, SameEnd
  <2> HIDE DEF u, p
  <2>4. Hands(v, u, {})
    BY <2>2 DEF Hands
  <2>5. Goes(v, u) /\ Goes(o, p)
    BY <2>2, <2>3, <2>4, GoesBy
  <2>6. QED
    BY <1>1, <2>1, <2>2, <2>3, <2>5, BothKeep, Sides DEF v, o
<1>4. QED
  BY <1>2, <1>3 DEF AbortTick

LEMMA RemoteFailsKeeps == ASSUME IInv, RemoteFails PROVE IInv'
BY ErrorAndCloseKeeps DEF RemoteFails, Bookkeeping

LEMMA RefusedClosedKeeps == ASSUME IInv, RefusedClosed PROVE IInv'
<1> DEFINE v == ep["remote"]
           o == ep["client"]
           u == HandshakeClosed(v)
           p == OnClose(o, Abnormal)
<1>1. /\ Sound(v) /\ Sound(o) /\ Both("remote", u, p) /\ o = ep[Other("remote")]
      /\ v.abort # "no"
      /\ UNCHANGED <<queueData, flushTimer, peerFin, arrived, wire, emitted, queued>>
  BY DEF IInv, Ends, End, Other, RefusedClosed, Bookkeeping
<1>2. Abnormal \in Nat /\ CodesOf(Abnormal) = {NoStatus}
  BY DEF Abnormal, CodesOf, IsValidStatusCode
<1> HIDE DEF v, o
<1>3. Becomes(v, u, "CLOSED") /\ u.endEmitted = v.endEmitted
  BY <1>1, AbortMoves, SameEndHandshake
<1>4. /\ Moves(o, p) /\ Hands(o, p, {NoStatus}) /\ p.readyState \in {"CLOSING", "CLOSED"}
      /\ p.endEmitted = o.endEmitted
  BY <1>1, <1>2, OnCloseMoves, SameEnd
<1> HIDE DEF u, p
<1>5. Goes(v, u) /\ Goes(o, p)
  BY <1>3, <1>4, GoesBy
<1>6. QED
  BY <1>1, <1>3, <1>4, <1>5, BothKeep, Sides DEF v, o

LEMMA RemoteRefusesKeeps == ASSUME IInv, RemoteRefuses PROVE IInv'
<1> DEFINE v == ep["remote"]
<1>1. /\ Sound(v) /\ v.readyState = "CONNECTING"
      /\ UNCHANGED <<queueData, flushTimer, peerFin, arrived, wire, emitted, queued>>
      /\ \/ ep' = [ep EXCEPT !["remote"] = UpgradeRefused(v)]
         \/ ep' = [ep EXCEPT !["remote"] = AbortRequest(v)]
  BY DEF IInv, Ends, End, RemoteRefuses, Bookkeeping
<1> HIDE DEF v
<1>2. PICK u : /\ ep' = [ep EXCEPT !["remote"] = u]
               /\ Moves(v, u) /\ u.tx = v.tx /\ u.endEmitted = v.endEmitted
  BY <1>1, HandshakeMoves, SameEndHandshake
<1>3. Hands(v, u, {})
  BY <1>2 DEF Hands
<1>4. QED
  BY <1>1, <1>2, <1>3, OneKeeps, Sides DEF v

LEMMA SocketKeeps ==
    ASSUME IInv, NEW e \in End, NetEnd(e) \/ NetError(e) \/ NetClose(e) \/ Timeout(e)
    PROVE  IInv'
<1> DEFINE v == ep[e]
<1>1. /\ Sound(v)
      /\ UNCHANGED <<queueData, flushTimer, peerFin, arrived, wire, emitted, queued>>
      /\ \/ /\ v.socket = "up" /\ e \in peerFin /\ v.inbuf = <<>>
            /\ ep' = [ep EXCEPT ![e] = SocketOnEnd(v)]
         \/ v.socket = "up" /\ ep' = [ep EXCEPT ![e] = SocketOnError(v)]
         \/ MayEmitClose(v) /\ ep' = [ep EXCEPT ![e] = SocketOnClose(v)]
         \/ v.socket = "up" /\ v.closeTimer /\ ep' = [ep EXCEPT ![e] = CloseTimeout(v)]
  BY DEF IInv, Ends, NetEnd, NetError, NetClose, Timeout, Bookkeeping
<1> HIDE DEF v
<1>2. PICK u : /\ ep' = [ep EXCEPT ![e] = u]
               /\ Moves(v, u) /\ Hands(v, u, {})
               /\ u.endEmitted => v.endEmitted \/ e \in peerFin
  <2>1. CASE /\ v.socket = "up" /\ e \in peerFin /\ v.inbuf = <<>>
             /\ ep' = [ep EXCEPT ![e] = SocketOnEnd(v)]
    <3>1. Moves(v, SocketOnEnd(v)) /\ SocketOnEnd(v).tx = v.tx
      BY <1>1, <2>1, SocketOnEndMoves
    <3>2. QED
      BY <2>1, <3>1 DEF Hands
  <2>2. CASE v.socket = "up" /\ ep' = [ep EXCEPT ![e] = SocketOnError(v)]
    <3>1. /\ Moves(v, SocketOnError(v)) /\ SocketOnError(v).tx = <<>>
          /\ SocketOnError(v).readyState = "CLOSING"
          /\ SocketOnError(v).endEmitted = v.endEmitted
      BY <1>1, <2>2, DestroyedMoves, SameEndSocket
    <3>2. QED
      BY <2>2, <3>1 DEF Hands
  <2>3. CASE MayEmitClose(v) /\ ep' = [ep EXCEPT ![e] = SocketOnClose(v)]
    <3>1. /\ Moves(v, SocketOnClose(v)) /\ SocketOnClose(v).tx = <<>>
          /\ SocketOnClose(v).readyState = "CLOSING"
          /\ SocketOnClose(v).endEmitted = v.endEmitted
      BY <1>1, <2>3, SocketOnCloseMoves, SameEndSocket
    <3>2. QED
      BY <2>3, <3>1 DEF Hands
  <2>4. CASE v.socket = "up" /\ v.closeTimer /\ ep' = [ep EXCEPT ![e] = CloseTimeout(v)]
    <3>1. /\ Moves(v, CloseTimeout(v)) /\ CloseTimeout(v).tx = <<>>
          /\ CloseTimeout(v).readyState = "CLOSING"
          /\ CloseTimeout(v).endEmitted = v.endEmitted
      BY <1>1, <2>4, DestroyedMoves, SameEndSocket
    <3>2. QED
      BY <2>4, <3>1 DEF Hands
  <2>5. QED
    BY <1>1, <2>1, <2>2, <2>3, <2>4
<1>3. QED
  BY <1>1, <1>2, OneKeeps DEF v

\* The peer's FIN, and a stuttering step.
LEMMA FinKeeps ==
    ASSUME IInv, UNCHANGED <<ep, queueData, flushTimer, arrived, wire, emitted, queued>>,
           peerFin \subseteq peerFin', peerFin' \subseteq End
    PROVE  IInv'
<1>1. \A e \in End : Goes(ep[e], ep[e]) /\ Moves(ep[e], ep[e])
  BY GoesBy DEF IInv, Ends
<1>2. ep' = [e \in End |-> ep'[e]]
  BY DEF IInv, TypeOK
<1>3. Quiet
  BY <1>1, <1>2 DEF Quiet, IInv, Ends
<1>4. QED
  BY <1>3, QuietKeeps

-----------------------------------------------------------------------------
(***************************************************************************)
(* A frame is parsed                                                       *)
(***************************************************************************)

\* A frame that is no message.
LEMMA ControlKeeps ==
    ASSUME IInv, NEW e \in End, ep[e].rx # <<>>, ParseFrame(e), Head(ep[e].rx).op # "data"
    PROVE  IInv'
<1> DEFINE v == ep[e]
           o == ep[Other(e)]
           f == Head(v.rx)
<1>1. /\ Sound(v) /\ Sound(o) /\ v.rx # <<>> /\ f.op # "data"
      /\ f \in FrameType
  <2>1. Sound(v) /\ Sound(o) /\ v.rx # <<>> /\ f.op # "data"
    BY OtherFacts DEF IInv, Ends
  <2>2. v.rx \in Seq(FrameType)
    BY <2>1 DEF Sound, Connection
  <2>3. QED
    BY <2>1, <2>2, HeadTailProperties
<1>2. /\ UNCHANGED <<queueData, flushTimer, peerFin, arrived, wire, emitted, queued>>
      /\ \/ f.op = "ping" /\ Both(e, ReceiverOnPing(v), OnControl(o, "ping", f.val))
         \/ f.op = "pong" /\ Both(e, Parsed(v), OnControl(o, "pong", f.val))
         \/ f.op = "close" /\ Both(e, ReceiverOnConclude(v), o)
         \/ f.op = "bad" /\ Both(e, ReceiverOnError(v), OnError(o))
  BY <1>1 DEF ParseFrame
<1> DEFINE n == f.val
<1>3. n \in Nat
  BY <1>1 DEF FrameType
<1> HIDE DEF v, o, f, n
<1>4. /\ Moves(v, Parsed(v)) /\ Parsed(v).tx = v.tx /\ Parsed(v).endEmitted = v.endEmitted
      /\ Moves(v, ReceiverOnPing(v)) /\ Hands(v, ReceiverOnPing(v), {})
      /\ ReceiverOnPing(v).endEmitted = v.endEmitted
  BY <1>1, ParsedMoves, ReceiverOnPingMoves, SameEndParsed
<1>5. ASSUME NEW op \in {"ping", "pong"}
      PROVE  /\ Moves(o, OnControl(o, op, n)) /\ Goes(o, OnControl(o, op, n))
             /\ OnControl(o, op, n).endEmitted = o.endEmitted
  <2> DEFINE g == Frame(op, n, FALSE)
  <2>1. g \in FrameType /\ g.op \notin {"data", "close"}
    BY <1>3 DEF Frame, FrameType
  <2>2. OnControl(o, op, n) = SendFrame(o, g)
    BY DEF OnControl
  <2> HIDE DEF g
  <2>3. /\ Moves(o, SendFrame(o, g)) /\ Hands(o, SendFrame(o, g), {})
        /\ SendFrame(o, g).endEmitted = o.endEmitted
    BY <1>1, <2>1, SendFrameMoves, SameEndSocket
  <2>4. QED
    BY <2>2, <2>3, GoesBy
<1>6. CASE f.op = "ping" /\ Both(e, ReceiverOnPing(v), OnControl(o, "ping", n))
  <2> DEFINE u == ReceiverOnPing(v)
             p == OnControl(o, "ping", n)
  <2>1. Goes(v, u) /\ Moves(v, u) /\ u.endEmitted = v.endEmitted
    BY <1>4, GoesBy
  <2>2. Moves(o, p) /\ Goes(o, p) /\ p.endEmitted = o.endEmitted /\ Both(e, u, p)
    BY <1>5, <1>6
  <2> HIDE DEF u, p
  <2>3. QED
    BY <1>2, <2>1, <2>2, BothKeep DEF v, o
<1>7. CASE f.op = "pong" /\ Both(e, Parsed(v), OnControl(o, "pong", n))
  <2> DEFINE u == Parsed(v)
             p == OnControl(o, "pong", n)
  <2>1. Goes(v, u) /\ Moves(v, u) /\ u.endEmitted = v.endEmitted
    <3>1. Hands(v, u, {})
      BY <1>4 DEF Hands
    <3>2. QED
      BY <1>4, <3>1, GoesBy
  <2>2. Moves(o, p) /\ Goes(o, p) /\ p.endEmitted = o.endEmitted /\ Both(e, u, p)
    BY <1>5, <1>7
  <2> HIDE DEF u, p
  <2>3. QED
    BY <1>2, <2>1, <2>2, BothKeep DEF v, o
<1>8. CASE f.op = "close" /\ Both(e, ReceiverOnConclude(v), o)
  <2> DEFINE u == ReceiverOnConclude(v)
  <2>1. /\ Moves(v, u) /\ Concluded(u) /\ Hands(v, u, {NoStatus, u.closeCode})
        /\ u.endEmitted = v.endEmitted /\ Both(e, u, o)
    BY <1>1, <1>8, ReceiverOnConcludeMoves, SameEndParsed
  <2> HIDE DEF u
  <2>2. ep'[e] = u
    BY <2>1 DEF Both
  <2>3. {NoStatus, u.closeCode} \subseteq Given'
    BY <2>1, <2>2 DEF Given
  <2>4. Goes(v, u) /\ Goes(o, o) /\ Moves(o, o)
    BY <1>1, <2>1, <2>3, GoesBy
  <2>5. QED
    BY <1>2, <2>1, <2>4, BothKeep DEF v, o
<1>9. CASE f.op = "bad" /\ Both(e, ReceiverOnError(v), OnError(o))
  <2> DEFINE u == ReceiverOnError(v)
             p == OnError(o)
  <2>1. /\ Moves(v, u) /\ Hands(v, u, {ProtocolCode}) /\ u.endEmitted = v.endEmitted
        /\ Both(e, u, p)
    BY <1>1, <1>9, ReceiverOnErrorMoves, SameEndParsed
  <2>2. Moves(o, p) /\ Hands(o, p, {NoStatus}) /\ p.endEmitted = o.endEmitted
    <3>1. NoStatus \in Nat
      BY DEF NoStatus
    <3>2. QED
      BY <1>1, <3>1, OnErrorMoves, SameEnd
  <2> HIDE DEF u, p
  <2>3. Goes(v, u) /\ Goes(o, p)
    BY <2>1, <2>2, GoesBy
  <2>4. QED
    BY <1>2, <2>1, <2>2, <2>3, BothKeep DEF v, o
<1>10. QED
  BY <1>2, <1>6, <1>7, <1>8, <1>9 DEF n

LEMMA RecordIsBoth ==
    ASSUME NEW u, NEW p
    PROVE  /\ ep' = [client |-> u, remote |-> p] => Both("client", u, p)
           /\ ep' = [remote |-> u, client |-> p] => Both("remote", u, p)
BY DEF End, Both

\* Both connections go on and none of them changes its state.
LEMMA MessageConnections ==
    ASSUME IInv, NEW e \in End, NEW u, NEW p, Both(e, u, p),
           Moves(ep[e], u), u.readyState = ep[e].readyState,
           u.endEmitted = ep[e].endEmitted,
           Moves(ep[Other(e)], p), p.readyState = ep[Other(e)].readyState,
           p.endEmitted = ep[Other(e)].endEmitted,
           peerFin' = peerFin
    PROVE  /\ ep' \in [End -> Connection] /\ ep'[e] = u /\ ep'[Other(e)] = p
           /\ Given \subseteq Given'
           /\ Ends' /\ ClosesTogether'
           /\ \A x \in End : /\ ep'[x].readyState = ep[x].readyState
                             /\ Window(In(ep'[x]), In(ep[x]))
<1>1. Other(e) \in End /\ Other(e) # e /\ \A x \in End : x = e \/ x = Other(e)
  BY OtherFacts
<1>2. ep'[e] = u /\ ep'[Other(e)] = p
  BY <1>1 DEF Both
<1>3. \A x \in End : /\ Sound(ep'[x]) /\ ep'[x].readyState = ep[x].readyState
                     /\ ep'[x].endEmitted = ep[x].endEmitted
                     /\ Window(In(ep'[x]), In(ep[x]))
                     /\ Concluded(ep[x]) =>
                           Concluded(ep'[x]) /\ ep'[x].closeCode = ep[x].closeCode
  BY <1>1, <1>2 DEF Moves
<1>4. ep' \in [End -> Connection]
  <2>1. u \in Connection /\ p \in Connection
    BY DEF Moves, Sound
  <2>2. QED
    BY <2>1 DEF Both
<1>5. Given \subseteq Given'
  BY <1>3, GivenGrows
<1>6. Ends'
  BY <1>3 DEF IInv, Ends
<1>7. ClosesTogether'
  BY <1>3, OtherFacts DEF IInv, ClosesTogether, Closing
<1>8. QED
  BY <1>2, <1>3, <1>4, <1>5, <1>6, <1>7

\* The first frame is a message: its number, and what the connection is afterwards.
LEMMA MessageFacts ==
    ASSUME IInv, NEW e \in End, ep[e].rx # <<>>, Head(ep[e].rx).op = "data"
    PROVE  LET m == Head(ep[e].rx).val
               u == Parsed(ep[e])
           IN  /\ m \in Nat /\ Frame("data", m, FALSE) \in FrameType
               /\ \A x \in Values(emitted[e]) : x \in Nat /\ x < m
               /\ Moves(ep[e], u) /\ u.readyState = ep[e].readyState
               /\ u.tx = ep[e].tx /\ u.endEmitted = ep[e].endEmitted
               /\ Append(emitted[e], m) \in Seq(Nat)
               /\ Values(Append(emitted[e], m)) = Values(emitted[e]) \cup {m}
               /\ Ahead(In(u), Values(Append(emitted[e], m)), arrived[e])
<1> DEFINE v == ep[e]
           m == Head(v.rx).val
           u == Parsed(v)
           s == In(u)
           t == In(v)
           seen == Values(emitted[e])
           last == arrived[e]
<1>1. Sound(v) /\ v.rx # <<>> /\ Head(v.rx).op = "data"
  BY DEF IInv, Ends
<1>2. m \in Nat
  <2>1. Head(v.rx) \in FrameType
    BY <1>1, HeadTailProperties DEF Sound, Connection
  <2>2. QED
    BY <2>1 DEF FrameType
<1>3. Frame("data", m, FALSE) \in FrameType
  BY <1>2 DEF Frame, FrameType
<1>4. /\ Ahead(t, seen, last) /\ last \in Nat /\ emitted[e] \in Seq(Nat)
  BY DEF IInv, TypeOK, Inputs
<1> HIDE DEF v
<1>5. /\ Moves(v, u) /\ u.readyState = v.readyState /\ u.tx = v.tx
      /\ u.endEmitted = v.endEmitted
      /\ Len(s) = Len(t) - 1 /\ t[1] = Head(v.rx) /\ Len(t) \in Nat \ {0}
      /\ \A i \in 1..Len(s) : s[i] = t[i + 1]
  BY <1>1, ParsedMoves, SameEndParsed
<1>6. s \in Seq(FrameType) /\ t \in Seq(FrameType)
  BY <1>1, <1>5, InLength DEF Moves
<1>7. t[1].op = "data" /\ t[1].val = m /\ Len(t) # 0
  BY <1>1, <1>5
<1> HIDE DEF m, u, s, t, seen, last
<1>8. /\ Ahead(s, seen \cup {m}, last)
      /\ \A x \in seen : x \in Nat /\ x < m
  BY <1>4, <1>5, <1>6, <1>7, AheadTakes
<1>9. /\ Append(emitted[e], m) \in Seq(Nat)
      /\ Values(Append(emitted[e], m)) = seen \cup {m}
  BY <1>2, <1>4, AppendValues DEF seen
<1>10. QED
  BY <1>2, <1>3, <1>5, <1>8, <1>9 DEF v, m, u, s, seen, last

LEMMA MessageInputs ==
    ASSUME IInv, NEW e \in End, NEW m, NEW u, Ends',
           ep'[e] = u, Window(In(ep'[Other(e)]), In(ep[Other(e)])),
           Ahead(In(u), Values(Append(emitted[e], m)), arrived[e]),
           emitted' = [emitted EXCEPT ![e] = Append(emitted[e], m)], arrived' = arrived
    PROVE  Inputs'
<1> DEFINE x == Other(e)
<1>1. x \in End /\ x # e /\ \A y \in End : y = e \/ y = x
  BY OtherFacts
<1>2. /\ emitted'[e] = Append(emitted[e], m) /\ emitted'[x] = emitted[x]
      /\ arrived'[x] = arrived[x]
  BY <1>1 DEF IInv, TypeOK
<1>3. Ahead(In(ep'[x]), Values(emitted'[x]), arrived'[x])
  <2>1. In(ep[x]) \in Seq(FrameType) /\ In(ep'[x]) \in Seq(FrameType)
    BY <1>1, InLength DEF IInv, Ends
  <2>2. Ahead(In(ep[x]), Values(emitted[x]), arrived[x])
    BY <1>1 DEF IInv, Inputs
  <2>3. QED
    BY <1>2, <2>1, <2>2, AheadWindow
<1>4. Ahead(In(ep'[e]), Values(emitted'[e]), arrived'[e])
  BY <1>2
<1>5. QED
  BY <1>1, <1>3, <1>4 DEF Inputs

\* A message of the destination.
LEMMA RemoteMessageKeeps ==
    ASSUME IInv, ep["remote"].rx # <<>>, Head(ep["remote"].rx).op = "data",
           OnRemoteMessage(Parsed(ep["remote"]), Head(ep["remote"].rx).val),
           UNCHANGED <<flushTimer, peerFin, arrived, wire>>
    PROVE  IInv'
<1> DEFINE v == ep["remote"]
           o == ep["client"]
           m == Head(v.rx).val
           f == Frame("data", m, FALSE)
           u == Parsed(v)
           p == SendFrame(o, f)
           w == wire["client"]
           seen == Values(emitted["remote"])
<1>1. /\ m \in Nat /\ f \in FrameType
      /\ \A x \in seen : x \in Nat /\ x < m
      /\ Moves(v, u) /\ u.readyState = v.readyState
      /\ u.tx = v.tx /\ u.endEmitted = v.endEmitted
      /\ Append(emitted["remote"], m) \in Seq(Nat)
      /\ Values(Append(emitted["remote"], m)) = seen \cup {m}
      /\ Ahead(In(u), Values(Append(emitted["remote"], m)), arrived["remote"])
  BY MessageFacts, Sides
<1>2. /\ Sound(o) /\ o = ep[Other("remote")] /\ v = ep["remote"]
  BY DEF IInv, Ends, End, Other
<1>3. /\ emitted' = [emitted EXCEPT !["remote"] = Append(emitted["remote"], m)]
      /\ ep' = [remote |-> u, client |-> p]
      /\ UNCHANGED <<queueData, queued>>
  BY DEF OnRemoteMessage
<1>4. Both("remote", u, p)
  <2> HIDE DEF u, p
  <2>1. QED
    BY <1>3, RecordIsBoth
<1>5. f.op = "data" /\ f.val = m
  BY DEF Frame
<1> HIDE DEF v, o, m, f
<1>6. /\ Moves(o, p) /\ p.readyState = o.readyState /\ p.endEmitted = o.endEmitted
      /\ p.tx = IF o.readyState = "OPEN" THEN Append(o.tx, f) ELSE o.tx
  BY <1>1, <1>2, SendFrameMoves, SameEndSocket
<1> HIDE DEF u, p
<1>7. /\ ep' \in [End -> Connection] /\ ep'["remote"] = u /\ ep'["client"] = p
      /\ Given \subseteq Given'
      /\ Ends' /\ ClosesTogether'
      /\ \A x \in End : /\ ep'[x].readyState = ep[x].readyState
                        /\ Window(In(ep'[x]), In(ep[x]))
  <2>1. ep'[Other("remote")] = ep'["client"]
    BY DEF Other
  <2>2. QED
    BY <1>1, <1>2, <1>4, <1>6, <2>1, Sides, MessageConnections DEF v
<1>8. Inputs'
  BY <1>1, <1>3, <1>7, OtherFacts, Sides, MessageInputs
<1>9. TypeOK'
  BY <1>1, <1>3, <1>7, Sides DEF IInv, TypeOK
<1>10. Out("remote")' = Out("remote") /\ emitted'["client"] = emitted["client"]
  BY <1>1, <1>2, <1>3, <1>7, Sides DEF Out, IInv, TypeOK
<1>11. /\ w \in Seq(FrameType) /\ o.tx \in Seq(FrameType) /\ Out("client") = w \o o.tx
       /\ Out("client") \in Seq(FrameType)
       /\ Out("client")' = w \o p.tx
  BY <1>2, <1>7, Sides, OutType DEF Out, IInv, TypeOK, o, Connection
<1>12. Out("client")' = IF o.readyState = "OPEN" THEN Append(Out("client"), f)
                        ELSE Out("client")
  BY <1>1, <1>6, <1>11, AppendFrame
<1>13. emitted'["remote"] = Append(emitted["remote"], m)
  BY <1>3, Sides DEF IInv, TypeOK
<1>14. Downstream'
  <2> DEFINE s == Out("client")
             open == o.readyState = "OPEN"
  <2>1. Down(s, seen, open) /\ s \in Seq(FrameType)
    BY <1>11 DEF IInv, Downstream, o
  <2>2. \A x \in seen : x < f.val
    BY <1>1, <1>5
  <2> HIDE DEF s, seen
  <2>3. /\ Down(Append(s, f), seen \cup {m}, open)
        /\ Down(s, seen \cup {m}, FALSE)
    BY <1>1, <1>5, <2>1, <2>2, DownMessage
  <2>4. Down(Out("client")', seen \cup {m}, open)
    BY <1>12, <2>3 DEF s
  <2>5. (ep'["client"].readyState = "OPEN") <=> open
    BY <1>6, <1>7
  <2>6. Values(emitted'["remote"]) = seen \cup {m}
    BY <1>1, <1>13
  <2>7. Down(Out("client")', Values(emitted'["remote"]), ep'["client"].readyState = "OPEN")
    BY <2>4, <2>5, <2>6 DEF Down
  <2>8. QED
    BY <2>7 DEF Downstream
<1>15. Upstream'
  BY <1>3, <1>7, <1>10, Sides DEF IInv, Upstream, Closing
<1>16. Timer'
  BY <1>3, <1>7, Sides DEF IInv, Timer
<1>17. HonestCodes'
  <2>1. CodesIn(Out("client"), Given') /\ CodesIn(Out("remote"), Given')
    BY <1>7, <1>11, Sides, OutType, CodesGrow DEF IInv, HonestCodes
  <2>2. CodesIn(Out("client")', Given')
    BY ZenonT(40), <1>1, <1>5, <1>11, <1>12, <2>1, CodesGrow
  <2>3. CodesIn(Out("remote")', Given')
    BY <1>10, <2>1
  <2>4. QED
    BY <2>2, <2>3 DEF HonestCodes, End
<1>18. QED
  BY <1>7, <1>8, <1>9, <1>14, <1>15, <1>16, <1>17 DEF IInv

\* A message of the client: sent, or queued.
LEMMA ClientMessageKeeps ==
    ASSUME IInv, ep["client"].rx # <<>>, Head(ep["client"].rx).op = "data",
           OnClientMessage(Parsed(ep["client"]), Head(ep["client"].rx).val),
           UNCHANGED <<flushTimer, peerFin, arrived, wire>>
    PROVE  IInv'
<1> DEFINE v == ep["client"]
           o == ep["remote"]
           m == Head(v.rx).val
           f == Frame("data", m, FALSE)
           u == Parsed(v)
           p == SendFrame(o, f)
           w == wire["remote"]
           seen == Values(emitted["client"])
<1>1. /\ m \in Nat /\ f \in FrameType
      /\ \A x \in seen : x \in Nat /\ x < m
      /\ Moves(v, u) /\ u.readyState = v.readyState
      /\ u.tx = v.tx /\ u.endEmitted = v.endEmitted
      /\ Append(emitted["client"], m) \in Seq(Nat)
      /\ Values(Append(emitted["client"], m)) = seen \cup {m}
      /\ Ahead(In(u), Values(Append(emitted["client"], m)), arrived["client"])
  BY MessageFacts, Sides
<1>2. /\ Sound(o) /\ o = ep[Other("client")]
  BY DEF IInv, Ends, End, Other
<1>3. /\ emitted' = [emitted EXCEPT !["client"] = Append(emitted["client"], m)]
      /\ \/ /\ o.readyState = "OPEN"
            /\ ep' = [client |-> u, remote |-> p]
            /\ UNCHANGED <<queueData, queued>>
         \/ /\ o.readyState # "OPEN"
            /\ ep' = [ep EXCEPT !["client"] = u]
            /\ queueData' = Append(queueData, m)
            /\ queued' = queued \cup {m}
  BY DEF OnClientMessage
<1>4. Both("client", u, p)
  <2>1. CASE o.readyState = "OPEN"
    <3> HIDE DEF u, p
    <3>1. QED
      BY <1>3, <2>1, RecordIsBoth
  <2>2. CASE o.readyState # "OPEN"
    <3>1. p = o
      BY <2>2 DEF SendFrame
    <3>2. ep' = [ep EXCEPT !["client"] = u]
      BY <1>3, <2>2
    <3> HIDE DEF u, p
    <3>3. QED
      BY <1>2, <3>1, <3>2, OneIsBoth, Sides DEF IInv
  <2>3. QED
    BY <2>1, <2>2
<1>5. f.op = "data" /\ f.val = m
  BY DEF Frame
<1> HIDE DEF v, o, m, f
<1>6. /\ Moves(o, p) /\ p.readyState = o.readyState /\ p.endEmitted = o.endEmitted
      /\ p.tx = IF o.readyState = "OPEN" THEN Append(o.tx, f) ELSE o.tx
  BY <1>1, <1>2, SendFrameMoves, SameEndSocket
<1> HIDE DEF u, p
<1>7. /\ ep' \in [End -> Connection] /\ ep'["client"] = u /\ ep'["remote"] = p
      /\ Given \subseteq Given'
      /\ Ends' /\ ClosesTogether'
      /\ \A x \in End : /\ ep'[x].readyState = ep[x].readyState
                        /\ Window(In(ep'[x]), In(ep[x]))
  <2>1. ep'[Other("client")] = ep'["remote"]
    BY DEF Other
  <2>2. QED
    BY <1>1, <1>2, <1>4, <1>6, <2>1, Sides, MessageConnections DEF v
<1>8. Inputs'
  BY <1>1, <1>3, <1>7, OtherFacts, Sides, MessageInputs
<1>9. TypeOK'
  <2>1. queueData' \in Seq(Nat) /\ queued' \subseteq Nat
    <3>1. queueData \in Seq(Nat) /\ queued \subseteq Nat /\ m \in Nat
      BY <1>1 DEF IInv, TypeOK
    <3>2. Append(queueData, m) \in Seq(Nat)
      BY <3>1, AppendValues
    <3>3. QED
      BY <1>3, <3>1, <3>2
  <2>2. QED
    BY <1>1, <1>3, <1>7, <2>1, Sides DEF IInv, TypeOK
<1>10. Out("client")' = Out("client") /\ emitted'["remote"] = emitted["remote"]
  BY <1>1, <1>2, <1>3, <1>7, Sides DEF Out, IInv, TypeOK, v
<1>11. /\ w \in Seq(FrameType) /\ o.tx \in Seq(FrameType) /\ Out("remote") = w \o o.tx
       /\ Out("remote") \in Seq(FrameType)
       /\ Out("remote")' = w \o p.tx
  BY <1>2, <1>7, Sides, OutType DEF Out, IInv, TypeOK, o, Connection
<1>12. Out("remote")' = IF o.readyState = "OPEN" THEN Append(Out("remote"), f)
                        ELSE Out("remote")
  BY <1>1, <1>6, <1>11, AppendFrame
<1>13. emitted'["client"] = Append(emitted["client"], m)
  BY <1>3, Sides DEF IInv, TypeOK
<1>14. Upstream'
  <2> DEFINE s == Out("remote")
             open == ~Closing("remote")
             fired == flushTimer = "fired"
  <2>1. /\ Up(s, queueData, seen, queued, fired, open) /\ s \in Seq(FrameType)
        /\ queueData \in Seq(Nat)
    BY <1>11 DEF IInv, TypeOK, Upstream
  <2>2. \A x \in seen : x \in Nat /\ x < f.val
    BY <1>1, <1>5
  <2>3. open' <=> open
    BY <1>7, Sides DEF Closing
  <2>4. Values(emitted'["client"]) = seen \cup {m}
    BY <1>1, <1>13
  <2> DEFINE t == Out("remote")'
             opens == open'
  <2> HIDE DEF s, seen, t, open, fired, opens
  <2>5. Up(t, queueData', seen \cup {m}, queued', fired, open)
    <3>1. CASE o.readyState = "OPEN"
      <4>1. t = Append(s, f) /\ queueData' = queueData /\ queued' = queued
        BY <1>3, <1>12, <3>1 DEF s, t
      <4>2. Up(Append(s, f), queueData, seen \cup {f.val}, queued, fired, open)
        BY <1>1, <1>5, <2>1, <2>2, UpSent
      <4>3. QED
        BY <1>5, <4>1, <4>2
    <3>2. CASE o.readyState # "OPEN"
      <4>1. /\ t = s /\ queueData' = Append(queueData, m)
            /\ queued' = queued \cup {m}
        BY <1>3, <1>12, <3>2 DEF s, t
      <4>2. Up(s, Append(queueData, m), seen \cup {m}, queued \cup {m}, fired, open)
        BY <1>1, <1>5, <2>1, <2>2, UpQueued
      <4>3. QED
        BY <4>1, <4>2
    <3>3. QED
      BY <3>1, <3>2
  <2>6. Up(t, queueData', Values(emitted'["client"]), queued', fired, opens)
    BY <2>3, <2>4, <2>5 DEF Up, open, opens
  <2>7. QED
    BY <2>6 DEF Upstream, t, fired, opens, open
<1>15. Downstream'
  BY <1>3, <1>7, <1>10, Sides DEF IInv, Downstream
<1>16. Timer'
  BY <1>3, <1>6, <1>7, Sides DEF IInv, Timer, o
<1>17. HonestCodes'
  <2>1. CodesIn(Out("client"), Given') /\ CodesIn(Out("remote"), Given')
    BY <1>7, <1>11, Sides, OutType, CodesGrow DEF IInv, HonestCodes
  <2>2. CodesIn(Out("remote")', Given')
    BY ZenonT(40), <1>1, <1>5, <1>11, <1>12, <2>1, CodesGrow
  <2>3. CodesIn(Out("client")', Given')
    BY <1>10, <2>1
  <2>4. QED
    BY <2>2, <2>3 DEF HonestCodes, End
<1>18. QED
  BY <1>7, <1>8, <1>9, <1>14, <1>15, <1>16, <1>17 DEF IInv

LEMMA ParseFrameKeeps ==
    ASSUME IInv, NEW e \in End, ep[e].rx # <<>>, ParseFrame(e) PROVE IInv'
<1>1. CASE Head(ep[e].rx).op # "data"
  BY <1>1, ControlKeeps
<1>2. CASE Head(ep[e].rx).op = "data" /\ e = "client"
  <2>1. /\ OnClientMessage(Parsed(ep["client"]), Head(ep["client"].rx).val)
        /\ UNCHANGED <<flushTimer, peerFin, arrived, wire>>
    BY <1>2 DEF ParseFrame
  <2>2. QED
    BY <1>2, <2>1, ClientMessageKeeps
<1>3. CASE Head(ep[e].rx).op = "data" /\ e = "remote"
  <2>1. /\ OnRemoteMessage(Parsed(ep["remote"]), Head(ep["remote"].rx).val)
        /\ UNCHANGED <<flushTimer, peerFin, arrived, wire>>
    BY <1>3 DEF ParseFrame
  <2>2. QED
    BY <1>3, <2>1, RemoteMessageKeeps
<1>4. QED
  BY <1>1, <1>2, <1>3 DEF End

-----------------------------------------------------------------------------
(***************************************************************************)
(* 'open', the flush, and what the network takes and brings                *)
(***************************************************************************)

LEMMA RemoteOpensKeeps == ASSUME IInv, RemoteOpens PROVE IInv'
<1> DEFINE v == ep["remote"]
           u == Upgraded(v)
           o == ep["client"]
<1>1. /\ Sound(v) /\ Sound(o) /\ v.readyState = "CONNECTING"
      /\ ep' = [ep EXCEPT !["remote"] = u] /\ o = ep[Other("remote")]
      /\ flushTimer' = "armed"
      /\ UNCHANGED <<queueData, peerFin, arrived, wire, emitted, queued>>
  BY DEF IInv, Ends, End, Other, RemoteOpens, Bookkeeping
<1> HIDE DEF v, o
<1>2. Becomes(v, u, "OPEN") /\ u.endEmitted = v.endEmitted
  BY <1>1, HandshakeMoves, SameEndHandshake
<1> HIDE DEF u
<1>3. ep'["remote"] = u /\ ep'["client"] = o /\ \A e \in End : e = "client" \/ e = "remote"
  BY <1>1, Sides DEF IInv, TypeOK, End, o
<1>4. /\ Sound(u) /\ u.readyState = "OPEN" /\ u.tx = v.tx /\ Window(In(u), In(v))
      /\ Concluded(v) => Concluded(u) /\ u.closeCode = v.closeCode
  BY <1>2 DEF Becomes
<1>5. Given \subseteq Given'
  <2>1. \A e \in End : Concluded(ep[e]) =>
                         Concluded(ep'[e]) /\ ep'[e].closeCode = ep[e].closeCode
    BY <1>3, <1>4 DEF v, o
  <2>2. QED
    BY <2>1, GivenGrows
<1>6. TypeOK'
  <2>1. ep' \in [End -> Connection]
    BY <1>1, <1>4 DEF IInv, TypeOK, Sound
  <2>2. QED
    BY <1>1, <2>1 DEF IInv, TypeOK
<1>7. Ends'
  BY <1>1, <1>2, <1>3, <1>4 DEF IInv, Ends, v, o
<1>8. Inputs'
  <2>1. Ahead(In(u), Values(emitted["remote"]), arrived["remote"])
    <3>1. Ahead(In(v), Values(emitted["remote"]), arrived["remote"])
      BY Sides DEF IInv, Inputs, v
    <3>2. In(u) \in Seq(FrameType) /\ In(v) \in Seq(FrameType)
      BY <1>1, <1>4, InLength
    <3>3. QED
      BY <1>4, <3>1, <3>2, AheadWindow
  <2>2. Ahead(In(o), Values(emitted["client"]), arrived["client"])
    BY Sides DEF IInv, Inputs, o
  <2>3. QED
    BY <1>1, <1>3, <2>1, <2>2 DEF Inputs
<1>9. Out("remote")' = Out("remote") /\ Out("client")' = Out("client")
  BY <1>1, <1>3, <1>4 DEF Out, v, o
<1>10. Downstream'
  BY <1>1, <1>3, <1>9 DEF IInv, Downstream, o
<1>11. Upstream'
  <2>1. /\ ~Closing("remote")' /\ ~Closing("remote")
    BY <1>1, <1>3, <1>4 DEF Closing, v
  <2>2. flushTimer # "fired" /\ flushTimer' # "fired"
    BY <1>1 DEF IInv, Timer, v
  <2>3. Up(Out("remote"), queueData, Values(emitted["client"]), queued, FALSE, TRUE)
    BY <2>1, <2>2 DEF IInv, Upstream, Up
  <2>4. Up(Out("remote")', queueData', Values(emitted'["client"]), queued',
           flushTimer' = "fired", ~Closing("remote")')
    BY <1>1, <1>9, <2>1, <2>2, <2>3 DEF Up
  <2>5. QED
    BY <2>4 DEF Upstream
<1>12. Timer'
  BY <1>1, <1>3, <1>4 DEF IInv, Timer, o
<1>13. ClosesTogether'
  <2>1. \A e \in End : ep[e].readyState # "CLOSED"
    BY <1>1, <1>3, Sides DEF IInv, ClosesTogether, Closing, Other, v
  <2>2. QED
    BY <1>3, <1>4, <2>1, Sides DEF ClosesTogether, o
<1>14. HonestCodes'
  <2>1. \A e \in End : CodesIn(Out(e), Given')
    BY <1>5, OutType, CodesGrow DEF IInv, HonestCodes
  <2>2. QED
    BY <1>3, <1>9, <2>1, Sides DEF HonestCodes
<1>15. QED
  BY <1>6, <1>7, <1>8, <1>10, <1>11, <1>12, <1>13, <1>14 DEF IInv

\* Frames that are no close frames add no code.
LEMMA CodesConcat ==
    ASSUME NEW s \in Seq(FrameType), NEW q \in Seq(FrameType), NEW codes,
           CodesIn(s, codes), \A i \in 1..Len(q) : q[i].op # "close"
    PROVE  CodesIn(s \o q, codes)
<1>1. /\ Len(s) \in Nat /\ Len(q) \in Nat /\ Len(s \o q) = Len(s) + Len(q)
      /\ \A i \in 1..(Len(s) + Len(q)) :
            (s \o q)[i] = IF i <= Len(s) THEN s[i] ELSE q[i - Len(s)]
  BY ConcatFrames, LenProperties
<1>2. \A i \in 1..(Len(s) + Len(q)) : i \in 1..Len(s) \/ (i - Len(s) \in 1..Len(q) /\ ~(i <= Len(s)))
  BY <1>1
<1>3. QED
  BY <1>1, <1>2 DEF CodesIn

LEMMA FrameConcat ==
    ASSUME NEW w \in Seq(FrameType), NEW x \in Seq(FrameType), NEW q \in Seq(FrameType)
    PROVE  w \o (x \o q) = (w \o x) \o q /\ x \o q \in Seq(FrameType)
BY ConcatAssociative, ConcatProperties

\* What is handed over does not touch what a connection keeps.
LEMMA TxKeepsSound ==
    ASSUME NEW v, Sound(v), v.readyState # "CONNECTING", NEW x \in Seq(FrameType)
    PROVE  LET u == [v EXCEPT !.tx = x]
           IN  /\ Moves(v, u) /\ u.readyState = v.readyState /\ u.tx = x
               /\ u.endEmitted = v.endEmitted
<1> DEFINE u == [v EXCEPT !.tx = x]
<1>1. /\ u \in Connection /\ u.tx = x /\ u.readyState = v.readyState
      /\ u.rx = v.rx /\ u.inbuf = v.inbuf /\ u.closeCode = v.closeCode
      /\ u.receiver = v.receiver /\ u.socket = v.socket /\ u.abort = v.abort
      /\ u.closeFrameReceived = v.closeFrameReceived /\ u.endEmitted = v.endEmitted
      /\ u.closeTimer = v.closeTimer
  BY DEF Sound, Connection
<1> HIDE DEF u
<1>2. (Shut(u) <=> Shut(v)) /\ (Concluded(u) <=> Concluded(v))
  BY <1>1 DEF Shut, Concluded, Errored
<1>3. Sound(u)
  BY <1>1, <1>2 DEF Sound
<1>4. QED
  BY <1>1, <1>2, <1>3, MovesByFields DEF u

LEMMA QueueFlushedKeeps == ASSUME IInv, FlushQueue PROVE IInv'
<1> DEFINE v == ep["remote"]
           o == ep["client"]
           q == [i \in DOMAIN queueData |-> Frame("data", queueData[i], FALSE)]
           y == v.tx
           x == y \o q
           u == IF v.readyState # "OPEN" THEN v ELSE [v EXCEPT !.tx = x]
           w == wire["remote"]
           s == Out("remote")
           open == ~Closing("remote")
           seen == Values(emitted["client"])
<1>1. /\ Sound(v) /\ Sound(o) /\ o = ep[Other("remote")]
      /\ ep' = [ep EXCEPT !["remote"] = u]
      /\ queueData' = <<>> /\ flushTimer = "armed" /\ flushTimer' = "fired"
      /\ UNCHANGED <<peerFin, arrived, wire, emitted, queued>>
  <2>1. Sound(v) /\ Sound(o) /\ o = ep[Other("remote")]
    BY DEF IInv, Ends, End, Other
  <2>2. ep' = [ep EXCEPT !["remote"] = u]
    BY DEF FlushQueue, Flushed
  <2>3. /\ queueData' = <<>> /\ flushTimer = "armed" /\ flushTimer' = "fired"
        /\ UNCHANGED <<peerFin, arrived, wire, emitted, queued>>
    BY DEF FlushQueue, Bookkeeping
  <2>4. QED
    BY <2>1, <2>2, <2>3
<1>2. v.readyState # "CONNECTING"
  BY <1>1 DEF IInv, Timer
<1>3. /\ w \in Seq(FrameType) /\ y \in Seq(FrameType) /\ s = w \o y
      /\ s \in Seq(FrameType)
  BY <1>1, Sides, OutType DEF Out, IInv, TypeOK, Sound, Connection
<1>4. /\ q \in Seq(FrameType)
      /\ Up(s \o q, <<>>, seen, queued, TRUE, open)
      /\ Up(s, <<>>, seen, queued, TRUE, FALSE)
  <2>1. Up(s, queueData, seen, queued, FALSE, open) /\ queueData \in Seq(Nat)
    BY <1>1 DEF IInv, Upstream, TypeOK, Up
  <2> HIDE DEF s, seen, open
  <2>2. QED
    BY <1>3, <2>1, UpFlushed
<1>5. \A i \in 1..Len(q) : q[i].op # "close"
  <2>1. Len(queueData) \in Nat /\ DOMAIN queueData = 1..Len(queueData)
    BY LenProperties DEF IInv, TypeOK
  <2>2. q \in [1..Len(queueData) -> FrameType]
    BY <1>4, <2>1, LenProperties
  <2>3. Len(q) = Len(queueData)
    BY <1>4, <2>1, <2>2, LenProperties
  <2>4. QED
    BY <2>1, <2>3 DEF Frame
<1> HIDE DEF q, v, o
<1>6. x \in Seq(FrameType) /\ w \o x = s \o q
  <2> HIDE DEF y, w, s
  <2>1. QED
    BY <1>3, <1>4, FrameConcat
<1> HIDE DEF x
<1>7. /\ Moves(v, u) /\ u.readyState = v.readyState /\ u.endEmitted = v.endEmitted
      /\ u.tx = IF v.readyState # "OPEN" THEN v.tx ELSE x
  BY <1>1, <1>2, <1>6, TxKeepsSound, GoesBy
<1> HIDE DEF u
<1>8. Moves(o, o) /\ Both("remote", u, o)
  BY <1>1, GoesBy, OneIsBoth, Sides DEF IInv
<1>9. /\ ep' \in [End -> Connection] /\ ep'["remote"] = u /\ ep'["client"] = o
      /\ Given \subseteq Given'
      /\ Ends' /\ ClosesTogether'
      /\ \A e \in End : /\ ep'[e].readyState = ep[e].readyState
                        /\ Window(In(ep'[e]), In(ep[e]))
  <2>1. ep'[Other("remote")] = ep'["client"]
    BY DEF Other
  <2>2. QED
    BY <1>1, <1>7, <1>8, <2>1, Sides, MessageConnections DEF v
<1>10. TypeOK'
  BY <1>1, <1>9, EmptySeq DEF IInv, TypeOK
<1>11. Inputs'
  <2>1. ASSUME NEW e \in End PROVE Ahead(In(ep'[e]), Values(emitted[e]), arrived[e])
    <3>1. In(ep[e]) \in Seq(FrameType) /\ In(ep'[e]) \in Seq(FrameType)
      BY <1>9, InLength DEF IInv, Ends
    <3>2. Ahead(In(ep[e]), Values(emitted[e]), arrived[e])
      BY DEF IInv, Inputs
    <3>3. QED
      BY <1>9, <3>1, <3>2, AheadWindow
  <2>2. QED
    BY <1>1, <2>1 DEF Inputs
<1>12. Out("client")' = Out("client")
  BY <1>1, <1>9 DEF Out, o
<1>13. Out("remote")' = IF v.readyState # "OPEN" THEN s ELSE s \o q
  BY <1>1, <1>3, <1>6, <1>7, <1>9 DEF Out
<1>14. Downstream'
  BY <1>1, <1>9, <1>12, Sides DEF IInv, Downstream
<1>15. Upstream'
  <2>1. open' <=> open
    BY <1>9, Sides DEF Closing
  <2>2. v.readyState # "OPEN" => ~open
    BY <1>1, <1>2 DEF Closing, v, Sound, Connection
  <2> DEFINE t == Out("remote")'
             opens == open'
  <2> HIDE DEF s, seen, t, opens, open
  <2>3. Up(t, <<>>, seen, queued, TRUE, open)
    <3>1. CASE v.readyState # "OPEN"
      BY <1>4, <1>13, <2>2, <3>1 DEF Up, t
    <3>2. CASE v.readyState = "OPEN"
      BY <1>4, <1>13, <3>2 DEF t
    <3>3. QED
      BY <3>1, <3>2
  <2>4. Up(t, <<>>, seen, queued, TRUE, opens)
    BY <2>1, <2>3 DEF Up, open, opens
  <2>5. Up(t, queueData', Values(emitted'["client"]), queued', flushTimer' = "fired", opens)
    BY <1>1, <2>4 DEF seen, Up
  <2>6. QED
    BY <2>5 DEF Upstream, t, opens, open
<1>16. Timer'
  BY <1>1, <1>2, <1>7, <1>9, Sides DEF IInv, Timer, v
<1>17. HonestCodes'
  <2>1. CodesIn(Out("client"), Given') /\ CodesIn(s, Given')
    BY <1>3, <1>9, Sides, OutType, CodesGrow DEF IInv, HonestCodes
  <2> HIDE DEF s
  <2>2. CodesIn(Out("remote")', Given')
    BY <1>3, <1>4, <1>5, <1>13, <2>1, CodesConcat
  <2>3. CodesIn(Out("client")', Given')
    BY <1>12, <2>1
  <2>4. QED
    BY <2>2, <2>3 DEF HonestCodes, End
<1>18. QED
  BY <1>9, <1>10, <1>11, <1>14, <1>15, <1>16, <1>17 DEF IInv

\* A frame is written out: what was handed over stays the same.
LEMMA NetWriteKeeps == ASSUME IInv, NEW e \in End, NetWrite(e) PROVE IInv'
<1> DEFINE v == ep[e]
           o == ep[Other(e)]
           u == Written(v)
           w == wire[e]
           x == v.tx
<1>1. /\ Sound(v) /\ Sound(o) /\ v.socket = "up" /\ x # <<>>
      /\ ep' = [ep EXCEPT ![e] = u]
      /\ wire' = [wire EXCEPT ![e] = Append(w, Head(x))]
      /\ UNCHANGED <<queueData, flushTimer, peerFin, arrived, emitted, queued>>
  BY OtherFacts DEF IInv, Ends, NetWrite
<1>2. w \in Seq(FrameType) /\ x \in Seq(FrameType)
  BY <1>1 DEF IInv, TypeOK, Sound, Connection
<1>3. /\ Moves(v, u) /\ u.readyState = v.readyState /\ u.tx = Tail(x)
      /\ u.endEmitted = v.endEmitted
  BY <1>1, WrittenMoves, SameEndSocket
<1>4. Moves(o, o) /\ Both(e, u, o)
  <2> HIDE DEF u
  <2>1. QED
    BY <1>1, GoesBy, OneIsBoth DEF IInv
<1>5. /\ ep' \in [End -> Connection] /\ ep'[e] = u /\ ep'[Other(e)] = o
      /\ Given \subseteq Given'
      /\ Ends' /\ ClosesTogether'
      /\ \A y \in End : /\ ep'[y].readyState = ep[y].readyState
                        /\ Window(In(ep'[y]), In(ep[y]))
  <2> HIDE DEF u
  <2>1. QED
    BY <1>1, <1>3, <1>4, MessageConnections
<1>6. Append(w, Head(x)) \o Tail(x) = w \o x /\ Append(w, Head(x)) \in Seq(FrameType)
  <2> HIDE DEF w, x
  <2>1. Head(x) \in FrameType
    BY <1>1, <1>2, HeadTailProperties
  <2>2. QED
    BY <1>1, <1>2, <2>1, HeadMoves, AppendProperties
<1>7. \A y \in End : Out(y)' = Out(y)
  <2>1. Out(e)' = Out(e)
    BY <1>1, <1>3, <1>5, <1>6 DEF Out, IInv, TypeOK
  <2>2. Out(Other(e))' = Out(Other(e))
    BY <1>1, <1>5, OtherFacts DEF Out, IInv, TypeOK
  <2>3. QED
    BY <2>1, <2>2, OtherFacts
<1>8. TypeOK'
  <2>1. wire' \in [End -> Seq(FrameType)]
    BY <1>1, <1>6 DEF IInv, TypeOK
  <2>2. QED
    BY <1>1, <1>5, <2>1 DEF IInv, TypeOK
<1>9. Inputs'
  <2>1. ASSUME NEW y \in End PROVE Ahead(In(ep'[y]), Values(emitted[y]), arrived[y])
    <3>1. In(ep[y]) \in Seq(FrameType) /\ In(ep'[y]) \in Seq(FrameType)
      BY <1>5, InLength DEF IInv, Ends
    <3>2. Ahead(In(ep[y]), Values(emitted[y]), arrived[y])
      BY DEF IInv, Inputs
    <3>3. QED
      BY <1>5, <3>1, <3>2, AheadWindow
  <2>2. QED
    BY <1>1, <2>1 DEF Inputs
<1>10. Downstream' /\ Upstream'
  BY <1>1, <1>5, <1>7, Sides DEF IInv, Downstream, Upstream, Closing
<1>11. Timer'
  BY <1>1, <1>5, Sides DEF IInv, Timer
<1>12. HonestCodes'
  <2>1. \A y \in End : CodesIn(Out(y), Given')
    BY <1>5, OutType, CodesGrow DEF IInv, HonestCodes
  <2>2. QED
    BY <1>7, <2>1 DEF HonestCodes
<1>13. QED
  BY <1>5, <1>8, <1>9, <1>10, <1>11, <1>12 DEF IInv

\* A frame arrives: messages are numbered in the order they come.
LEMMA NetDataKeeps == ASSUME IInv, NEW e \in End, NetData(e) PROVE IInv'
<1> DEFINE v == ep[e]
           o == ep[Other(e)]
           n == arrived[e]
<1>1. PICK f \in ArrivingFrames(e) : ep' = [ep EXCEPT ![e] = Arrive(v, f)]
  BY DEF NetData
<1>2. /\ Sound(v) /\ Sound(o) /\ Listening(v) /\ ~v.endEmitted
      /\ arrived' = [arrived EXCEPT ![e] = n + 1] /\ n \in Nat
      /\ UNCHANGED <<queueData, flushTimer, peerFin, wire, emitted, queued>>
  BY OtherFacts DEF IInv, Ends, NetData, TypeOK
<1>3. f \in FrameType /\ (f.op = "data" => f.val = n + 1)
  <2>1. \A c \in Codes : c \in Nat
    BY ValidCode, WsBridgeAssumption DEF NoStatus
  <2>2. Deflate \in BOOLEAN
    BY WsBridgeAssumption
  <2>3. \/ \E comp \in BOOLEAN : f = Frame("data", n + 1, comp)
        \/ \E c \in Codes : f = Frame("close", c, FALSE)
        \/ \E op \in {"bad", "ping", "pong"} : f = Frame(op, 0, FALSE)
    BY <2>2 DEF ArrivingFrames
  <2>4. ASSUME NEW op \in {"data", "close", "bad", "ping", "pong"}, NEW val \in Nat,
               NEW comp \in BOOLEAN, op = "data" => val = n + 1, f = Frame(op, val, comp)
        PROVE  f \in FrameType /\ (f.op = "data" => f.val = n + 1)
    BY <2>4 DEF Frame, FrameType
  <2>5. n + 1 \in Nat
    BY <1>2
  <2>6. QED
    BY <2>1, <2>3, <2>4, <2>5
<1> DEFINE u == Arrive(v, f)
<1> HIDE DEF v, o, n
<1>4. /\ Sound(u) /\ u.readyState = v.readyState /\ u.tx = v.tx
      /\ In(u) = Append(In(v), f)
      /\ Concluded(v) => Concluded(u) /\ u.closeCode = v.closeCode
      /\ u.endEmitted = v.endEmitted
  BY <1>2, <1>3, ArriveReads, SameEndSocket
<1>5. ep' = [ep EXCEPT ![e] = u]
  BY <1>1
<1> HIDE DEF u
<1>6. /\ ep'[e] = u /\ ep'[Other(e)] = o /\ Other(e) \in End /\ Other(e) # e
      /\ \A y \in End : y = e \/ y = Other(e)
  BY <1>5, OtherFacts DEF IInv, TypeOK, o
<1>7. \A y \in End : /\ Sound(ep'[y]) /\ ep'[y].readyState = ep[y].readyState
                     /\ ep'[y].tx = ep[y].tx /\ ep'[y].endEmitted = ep[y].endEmitted
                     /\ Concluded(ep[y]) =>
                          Concluded(ep'[y]) /\ ep'[y].closeCode = ep[y].closeCode
  BY <1>2, <1>4, <1>6 DEF v, o
<1>8. TypeOK'
  <2>1. ep' \in [End -> Connection]
    BY <1>4, <1>5 DEF IInv, TypeOK, Sound
  <2>2. arrived' \in [End -> Nat]
    BY <1>2 DEF IInv, TypeOK
  <2>3. QED
    BY <1>2, <2>1, <2>2 DEF IInv, TypeOK
<1>9. Inputs'
  <2>1. Ahead(In(u), Values(emitted[e]), n + 1)
    <3>1. Ahead(In(v), Values(emitted[e]), n) /\ In(v) \in Seq(FrameType)
      BY <1>2, InLength DEF IInv, Inputs, v, n
    <3> DEFINE s == In(v)
    <3> HIDE DEF s
    <3>2. Ahead(Append(s, f), Values(emitted[e]), n + 1)
      BY <1>2, <1>3, <3>1, AheadArrives DEF s
    <3>3. QED
      BY <1>4, <3>2 DEF s
  <2>2. Ahead(In(o), Values(emitted[Other(e)]), arrived[Other(e)])
    BY <1>6 DEF IInv, Inputs, o
  <2>3. arrived'[e] = n + 1 /\ arrived'[Other(e)] = arrived[Other(e)]
    BY <1>2, <1>6 DEF IInv, TypeOK
  <2>4. QED
    BY <1>2, <1>6, <2>1, <2>2, <2>3 DEF Inputs
<1>10. \A y \in End : Out(y)' = Out(y)
  BY <1>2, <1>7 DEF Out
<1>11. Downstream' /\ Upstream'
  BY <1>2, <1>7, <1>10, Sides DEF IInv, Downstream, Upstream, Closing
<1>12. Timer'
  BY <1>2, <1>7, Sides DEF IInv, Timer
<1>13. HonestCodes'
  <2>1. Given \subseteq Given'
    BY <1>7, GivenGrows
  <2>2. \A y \in End : CodesIn(Out(y), Given')
    BY <2>1, OutType, CodesGrow DEF IInv, HonestCodes
  <2>3. QED
    BY <1>10, <2>2 DEF HonestCodes
<1>14. Ends'
  BY <1>2, <1>7 DEF IInv, Ends
<1>15. ClosesTogether'
  BY <1>7, OtherFacts DEF IInv, ClosesTogether, Closing
<1>16. QED
  BY <1>8, <1>9, <1>11, <1>12, <1>13, <1>14, <1>15 DEF IInv

-----------------------------------------------------------------------------
(***************************************************************************)
(* The theorems                                                            *)
(***************************************************************************)

LEMMA InitSound ==
    /\ Sound(Accepted) /\ Sound(Connecting)
    /\ In(Accepted) = <<>> /\ In(Connecting) = <<>>
    /\ Accepted.tx = <<>> /\ Connecting.tx = <<>>
    /\ ~Accepted.endEmitted /\ ~Connecting.endEmitted
    /\ Accepted.readyState = "OPEN" /\ Connecting.readyState = "CONNECTING"
<1> DEFINE v == Connecting
           u == Accepted
<1>1. <<>> \in Seq(FrameType) /\ <<>> \o <<>> = <<>> /\ Abnormal \in Nat
  BY EmptySeq, ConcatEmptySeq DEF Abnormal
<1>2. /\ v \in Connection /\ v.readyState = "CONNECTING" /\ v.socket = "none"
      /\ v.rx = <<>> /\ v.inbuf = <<>> /\ v.tx = <<>> /\ ~v.endEmitted
      /\ v.receiver = "open" /\ v.abort = "no" /\ ~v.closeTimer /\ ~v.closeFrameReceived
  BY <1>1 DEF Connecting, NewConnection, Connection
<1>3. /\ u \in Connection /\ u.readyState = "OPEN" /\ u.socket = "up"
      /\ u.rx = <<>> /\ u.inbuf = <<>> /\ u.tx = <<>> /\ ~u.endEmitted
      /\ u.receiver = "open" /\ u.abort = "no" /\ ~u.closeTimer /\ ~u.closeFrameReceived
  BY <1>1 DEF Accepted, SetSocket, NewConnection, Connection
<1> HIDE DEF v, u
<1>4. Sound(v)
  BY <1>2 DEF Sound, Concluded, Shut, Errored, v
<1>5. Sound(u)
  BY <1>3 DEF Sound, Concluded, Shut, Errored
<1>6. In(v) = <<>> /\ In(u) = <<>>
  BY <1>1, <1>2, <1>3 DEF In
<1>7. QED
  BY <1>2, <1>3, <1>4, <1>5, <1>6 DEF v, u

LEMMA InitInv == Init => IInv
<1> SUFFICES ASSUME Init PROVE IInv
  OBVIOUS
<1>1. /\ ep["client"] = Accepted /\ ep["remote"] = Connecting
      /\ \A e \in End : ep[e] = Accepted \/ ep[e] = Connecting
  BY DEF Init, End
<1>2. <<>> \in Seq(FrameType) /\ <<>> \in Seq(Nat) /\ Len(<<>>) = 0 /\ <<>> \o <<>> = <<>>
  BY EmptySeq, ConcatEmptySeq
<1>3. TypeOK
  <2>1. ep \in [End -> Connection]
    BY InitSound DEF Init, Sound
  <2>2. QED
    BY <1>2, <2>1 DEF Init, TypeOK
<1>4. Ends
  BY <1>1, InitSound DEF Ends
<1>5. Messages(<<>>) = {} /\ Vals(<<>>) = {} /\ Values(<<>>) = {}
  BY <1>2 DEF Messages, Vals, Values
<1>6. \A e \in End : In(ep[e]) = <<>> /\ Out(e) = <<>> /\ emitted[e] = <<>>
  BY <1>1, <1>2, InitSound DEF Init, Out
<1>7. Inputs
  <2>1. \A last : Ahead(<<>>, {}, last)
    BY <1>5 DEF Ahead
  <2>2. QED
    BY <1>5, <1>6, <2>1 DEF Inputs
<1>8. Downstream
  <2>1. \A open : Down(<<>>, {}, open)
    BY <1>5 DEF Down
  <2>2. QED
    BY <1>5, <1>6, <2>1, Sides DEF Downstream
<1>9. Upstream
  <2>1. \A fired, open : Up(<<>>, <<>>, {}, {}, fired, open)
    BY <1>2, <1>5 DEF Up
  <2>2. queueData = <<>> /\ queued = {}
    BY DEF Init
  <2>3. QED
    BY <1>5, <1>6, <2>1, <2>2, Sides DEF Upstream
<1>10. Timer /\ ClosesTogether
  BY <1>1, InitSound DEF Init, Timer, ClosesTogether
<1>11. HonestCodes
  BY <1>2, <1>6 DEF HonestCodes, CodesIn
<1>12. QED
  BY <1>3, <1>4, <1>7, <1>8, <1>9, <1>10, <1>11 DEF IInv

LEMMA NextKeeps == IInv /\ [Next]_vars => IInv'
<1> SUFFICES ASSUME IInv, [Next]_vars PROVE IInv'
  OBVIOUS
<1>1. CASE AbortTick
  BY <1>1, AbortTickKeeps
<1>2. ASSUME NEW e \in End, Parse(e) PROVE IInv'
  BY <1>2, ParseFrameKeeps DEF Parse, CanParse
<1>3. ASSUME NEW e \in End, Flow(e) PROVE IInv'
  BY <1>3, FlowKeeps
<1>4. ASSUME NEW e \in End, Finish(e) PROVE IInv'
  BY <1>4, FinishKeeps
<1>5. CASE Handler
  BY <1>5, RemoteOpensKeeps, RemoteRefusesKeeps, RemoteFailsKeeps, RefusedClosedKeeps,
     QueueFlushedKeeps DEF Handler
<1>6. ASSUME NEW e \in End, Network(e) PROVE IInv'
  <2>1. CASE NetFin(e)
    <3>1. peerFin \subseteq peerFin' /\ peerFin' \subseteq End
      BY <2>1 DEF NetFin, IInv, TypeOK
    <3>2. UNCHANGED <<ep, queueData, flushTimer, arrived, wire, emitted, queued>>
      BY <2>1 DEF NetFin
    <3>3. QED
      BY <3>1, <3>2, FinKeeps
  <2>2. CASE NetData(e)
    BY <2>2, NetDataKeeps
  <2>3. CASE NetWrite(e)
    BY <2>3, NetWriteKeeps
  <2>4. CASE NetEnd(e) \/ NetError(e) \/ NetClose(e) \/ Timeout(e)
    BY <2>4, SocketKeeps
  <2>5. CASE Inflated(e)
    BY <2>5, ParseFrameKeeps DEF Inflated, Inflating
  <2>6. QED
    BY <1>6, <2>1, <2>2, <2>3, <2>4, <2>5 DEF Network
<1>7. CASE UNCHANGED vars
  <2>1. peerFin \subseteq peerFin' /\ peerFin' \subseteq End
    BY <1>7 DEF vars, IInv, TypeOK
  <2>2. QED
    BY <1>7, <2>1, FinKeeps DEF vars
<1>8. QED
  BY <1>1, <1>2, <1>3, <1>4, <1>5, <1>6, <1>7 DEF Next, Turn

THEOREM Invariance == Spec => []IInv
<1>1. Init => IInv
  BY InitInv
<1>2. IInv /\ [Next]_vars => IInv'
  BY NextKeeps
<1>3. QED
  BY <1>1, <1>2, PTL DEF Spec

-----------------------------------------------------------------------------
(***************************************************************************)
(* The peer of a closing connection is told.  A second invariant, on top   *)
(* of IInv: a connection that has its socket and is not OPEN any more has  *)
(* its peer's FIN or has given a close frame to the sender, unless the     *)
(* other one was closed with a code that close() refuses.                  *)
(***************************************************************************)
HasClose(s) == \E i \in 1..Len(s) : s[i].op = "close"

MayArrive(f) == f.op = "close" => f.val = NoStatus \/ IsValidStatusCode(f.val)

\* A closed connection has nothing to parse, and its close code is one that a peer
\* may send, or none.
Good(v) ==
    /\ v.readyState = "CLOSED" => v.rx = <<>>
    /\ v.closeCode \in {NoStatus, Abnormal} \/ IsValidStatusCode(v.closeCode)
    /\ v.socket = "none" => v.closeCode = Abnormal
    /\ \A i \in 1..Len(In(v)) : MayArrive(In(v)[i])

Warned(w, v) ==
    v.socket = "up" => v.readyState = "OPEN" \/ v.endEmitted \/ HasClose(w \o v.tx)

Unsayable(v) == v.readyState = "CLOSED" /\ v.closeCode \in {NoStatus, Abnormal}

PeersTold ==
    \A e \in End : Good(ep[e]) /\ (Warned(wire[e], ep[e]) \/ Unsayable(ep[Other(e)]))

\* v becomes u, and a connection that stops being OPEN says so.
Tells(v, u) ==
    /\ v.endEmitted => u.endEmitted
    /\ u.socket = "up" =>
          /\ v.socket = "up" \/ u.readyState = "OPEN"
          /\ u.tx = v.tx \/ \E f \in FrameType : u.tx = Append(v.tx, f)
          /\ v.readyState = "OPEN" /\ u.readyState # "OPEN" =>
                \/ u.endEmitted
                \/ \E f \in FrameType : f.op = "close" /\ u.tx = Append(v.tx, f)

\* The fields Tells is about.
Same(v, u) ==
    /\ u.socket = v.socket /\ u.readyState = v.readyState
    /\ u.tx = v.tx /\ u.endEmitted = v.endEmitted

LEMMA SameTells ==
    /\ \A v, u : Same(v, u) => Tells(v, u)
    /\ \A v, m, u : Tells(v, m) /\ Same(m, u) => Tells(v, u)
    /\ \A v, m, u : Same(v, m) /\ Tells(m, u) => Tells(v, u)
BY DEF Same, Tells

LEMMA WarnedKeeps ==
    ASSUME NEW w \in Seq(FrameType), NEW v \in Connection, NEW u \in Connection,
           Tells(v, u), Warned(w, v)
    PROVE  Warned(w, u)
<1> DEFINE x == v.tx
           y == u.tx
<1>1. x \in Seq(FrameType) /\ y \in Seq(FrameType)
  BY DEF Connection
<1> SUFFICES ASSUME u.socket = "up", u.readyState # "OPEN", ~u.endEmitted
             PROVE  HasClose(w \o y)
  BY DEF Warned
<1>2. ASSUME NEW f \in FrameType, y = Append(x, f), HasClose(w \o x) \/ f.op = "close"
      PROVE  HasClose(w \o y)
  <2> HIDE DEF x, y
  <2> DEFINE s == w \o x
  <2>1. s \in Seq(FrameType) /\ w \o y = Append(s, f)
    BY <1>1, <1>2, AppendFrame, ConcatProperties
  <2> HIDE DEF s
  <2>2. /\ Len(s) \in Nat /\ Len(Append(s, f)) = Len(s) + 1
        /\ \A i \in 1..Len(s) : Append(s, f)[i] = s[i]
        /\ Append(s, f)[Len(s) + 1] = f
    BY <2>1, AppendProperties, LenProperties
  <2>3. CASE HasClose(s)
    <3>1. PICK i \in 1..Len(s) : s[i].op = "close"
      BY <2>3 DEF HasClose
    <3>2. i \in 1..Len(Append(s, f)) /\ Append(s, f)[i].op = "close"
      BY <2>2, <3>1
    <3>3. QED
      BY <2>1, <3>2 DEF HasClose
  <2>4. CASE f.op = "close"
    <3>1. Len(s) + 1 \in 1..Len(Append(s, f)) /\ Append(s, f)[Len(s) + 1].op = "close"
      BY <2>2, <2>4
    <3>2. QED
      BY <2>1, <3>1 DEF HasClose
  <2>5. QED
    BY <1>2, <2>3, <2>4 DEF s
<1>3. CASE v.readyState = "OPEN"
  BY <1>2, <1>3 DEF Tells
<1>4. CASE v.readyState # "OPEN"
  <2>1. HasClose(w \o x)
    BY <1>4 DEF Tells, Warned
  <2>2. QED
    BY <1>2, <2>1 DEF Tells
<1>5. QED
  BY <1>3, <1>4

LEMMA InputKeeps ==
    ASSUME NEW v, NEW u, Sound(v), Sound(u), Window(In(u), In(v)),
           \A i \in 1..Len(In(v)) : MayArrive(In(v)[i])
    PROVE  \A i \in 1..Len(In(u)) : MayArrive(In(u)[i])
<1> SUFFICES ASSUME NEW i \in 1..Len(In(u)) PROVE MayArrive(In(u)[i])
  OBVIOUS
<1>1. Len(In(v)) \in Nat /\ Len(In(u)) \in Nat
  BY InLength
<1>2. PICK k \in 0..Len(In(v)) : /\ k + Len(In(u)) <= Len(In(v))
                                /\ \A j \in 1..Len(In(u)) : In(u)[j] = In(v)[k + j]
  BY DEF Window
<1>3. k + i \in 1..Len(In(v)) /\ In(u)[i] = In(v)[k + i]
  BY <1>1, <1>2
<1>4. QED
  BY <1>3

\* Nothing new to parse, and the close code stays.
LEMMA GoodKeeps ==
    ASSUME NEW v, NEW u, Good(v), Sound(v), Sound(u), Window(In(u), In(v)),
           u.closeCode = v.closeCode, u.socket = "none" => v.socket = "none",
           u.readyState = "CLOSED" => u.rx = <<>>
    PROVE  Good(u)
BY InputKeeps DEF Good

\* v becomes u, on which the listeners of the other connection are called, and keeps
\* what makes it good.
Calm(v, u) ==
    /\ Moves(v, u)
    /\ u.closeCode = v.closeCode
    /\ u.socket = "none" => v.socket = "none"
    /\ v.readyState = "CLOSED" => u = v

LEMMA CalmIsGood ==
    ASSUME NEW v, NEW u, Sound(v), Good(v), Calm(v, u)
    PROVE  Good(u)
<1>1. u.readyState = "CLOSED" => v.readyState = "CLOSED" /\ u = v
  BY DEF Calm, Moves
<1>2. u.readyState = "CLOSED" => u.rx = <<>>
  BY <1>1 DEF Good
<1>3. QED
  BY <1>2, GoodKeeps DEF Calm, Moves

LEMMA CloseTells ==
    ASSUME NEW v, Sound(v), NEW code \in Nat
    PROVE  /\ Calm(v, Close(v, code))
           /\ ~CloseThrows(v, code) => Tells(v, Close(v, code))
           /\ v.readyState \in {"CLOSING", "CLOSED"} => Same(v, Close(v, code))
<1>1. v \in Connection /\ Moves(v, Close(v, code))
  BY CloseMoves DEF Sound
<1>2. CASE v.readyState = "CONNECTING"
  <2>1. v.socket = "none"
    BY <1>2 DEF Sound, Connecting, NewConnection
  <2>2. /\ Close(v, code).socket = "none" /\ Close(v, code).closeCode = v.closeCode
        /\ Close(v, code).endEmitted = v.endEmitted
    BY <1>1, <1>2, <2>1 DEF Close, AbortRequest, Connection
  <2>3. QED
    BY <1>1, <1>2, <2>1, <2>2 DEF Calm, Tells
<1>3. CASE v.readyState = "OPEN"
  <2> DEFINE u == Close(v, code)
             f == CloseFrame(code)
  <2>1. /\ u.socket = v.socket /\ u.closeCode = v.closeCode /\ u.endEmitted = v.endEmitted
        /\ ~CloseThrows(v, code) => u.tx = Append(v.tx, f)
    BY <1>1, <1>3 DEF Close, Connection
  <2>2. f \in FrameType /\ f.op = "close"
    BY DEF CloseFrame, Frame, FrameType, NoStatus
  <2> HIDE DEF u, f
  <2>3. ~CloseThrows(v, code) => Tells(v, u)
    BY <2>1, <2>2 DEF Tells
  <2>4. QED
    BY <1>1, <1>3, <2>1, <2>3 DEF Calm, u
<1>4. CASE v.readyState \in {"CLOSING", "CLOSED"}
  <2> DEFINE u == Close(v, code)
  <2>1. /\ Same(v, u) /\ u.closeCode = v.closeCode
        /\ v.readyState = "CLOSED" => u = v
    BY <1>1, <1>4 DEF Close, Connection, Same
  <2> HIDE DEF u
  <2>2. Calm(v, u)
    BY <1>1, <2>1 DEF Calm, Same, u
  <2>3. QED
    BY <2>1, <2>2, SameTells DEF u
<1>5. QED
  BY <1>1, <1>2, <1>3, <1>4 DEF Connection

LEMMA CalmThrough ==
    ASSUME NEW v, NEW m, NEW u, Sound(v), Calm(v, m), Calm(m, u)
    PROVE  Calm(v, u)
<1>1. Moves(v, u)
  BY MovesThrough DEF Calm
<1>2. v.readyState = "CLOSED" => u = v
  BY DEF Calm
<1>3. QED
  BY <1>1, <1>2 DEF Calm

\* 'close' and 'error' of the other connection.
LEMMA ListenersTell ==
    ASSUME NEW o, Sound(o), NEW code \in Nat
    PROVE  /\ Calm(o, OnClose(o, code))
           /\ ~CloseThrows(o, code) => Tells(o, OnClose(o, code))
           /\ Calm(o, OnError(o)) /\ Tells(o, OnError(o))
           /\ Calm(o, OnClose(OnError(o), code)) /\ Tells(o, OnClose(OnError(o), code))
<1>1. NoCode \in Nat /\ \A x : ~CloseThrows(x, NoCode)
  BY DEF NoCode, CloseThrows
<1>2. Calm(o, OnClose(o, code)) /\ (~CloseThrows(o, code) => Tells(o, OnClose(o, code)))
  <2>1. CASE ~CloseThrows(o, code)
    BY <2>1, CloseTells DEF OnClose
  <2>2. CASE CloseThrows(o, code)
    <3> DEFINE m == Close(o, code)
    <3>1. Calm(o, m) /\ Sound(m)
      BY CloseTells DEF Calm, Moves
    <3> HIDE DEF m
    <3>2. Calm(m, Close(m, NoCode))
      BY <1>1, <3>1, CloseTells
    <3>3. Calm(o, Close(m, NoCode))
      BY <3>1, <3>2, CalmThrough
    <3>4. QED
      BY <2>2, <3>3 DEF OnClose, m
  <2>3. QED
    BY <2>1, <2>2
<1> DEFINE m == OnError(o)
<1>3. Calm(o, m) /\ Tells(o, m) /\ Sound(m) /\ m.readyState \in {"CLOSING", "CLOSED"}
  BY <1>1, CloseTells, OnErrorMoves DEF OnError, Calm, Moves
<1> HIDE DEF m
<1>4. OnClose(m, code) = Close(m, code)
  BY <1>3 DEF OnClose, CloseThrows
<1>5. Calm(m, Close(m, code)) /\ Same(m, Close(m, code))
  BY <1>3, CloseTells
<1>6. Calm(o, Close(m, code)) /\ Tells(o, Close(m, code))
  BY <1>3, <1>5, CalmThrough, SameTells
<1>7. QED
  BY <1>2, <1>3, <1>4, <1>6 DEF m

LEMMA SendTells ==
    ASSUME NEW v, Sound(v), NEW f \in FrameType
    PROVE  Calm(v, SendFrame(v, f)) /\ Tells(v, SendFrame(v, f))
<1> DEFINE u == SendFrame(v, f)
<1>1. v \in Connection /\ Moves(v, u) /\ u.readyState = v.readyState
  BY SendFrameMoves DEF Sound
<1>2. /\ u.socket = v.socket /\ u.closeCode = v.closeCode /\ u.endEmitted = v.endEmitted
      /\ u.tx = v.tx \/ u.tx = Append(v.tx, f)
      /\ v.readyState = "CLOSED" => u = v
  BY <1>1 DEF SendFrame, Connection
<1> HIDE DEF u
<1>3. QED
  BY <1>1, <1>2 DEF Calm, Tells, u

LEMMA ParsedTells ==
    ASSUME NEW v, Sound(v), v.rx # <<>>
    PROVE  /\ Same(v, Parsed(v)) /\ Parsed(v).closeCode = v.closeCode
           /\ Tells(v, ReceiverOnPing(v)) /\ ReceiverOnPing(v).closeCode = v.closeCode
           /\ ReceiverOnPing(v).socket = v.socket
<1> DEFINE m == Parsed(v)
           f == Frame("pong", Head(v.rx).val, FALSE)
<1>1. Same(v, m) /\ m.closeCode = v.closeCode /\ Sound(m)
  <2>1. Moves(v, m) /\ v \in Connection
    BY ParsedMoves DEF Sound
  <2>2. Same(v, m) /\ m.closeCode = v.closeCode
    BY <2>1 DEF Parsed, Connection, Same
  <2>3. QED
    BY <2>1, <2>2 DEF Moves
<1>2. f \in FrameType
  <2>1. Head(v.rx) \in FrameType
    BY HeadTailProperties DEF Sound, Connection
  <2>2. QED
    BY <2>1 DEF Frame, FrameType
<1>3. ReceiverOnPing(v) = SendFrame(m, f)
  BY DEF ReceiverOnPing
<1> HIDE DEF m, f
<1>4. Tells(m, SendFrame(m, f)) /\ Calm(m, SendFrame(m, f))
  BY <1>1, <1>2, SendTells
<1>5. SendFrame(m, f).socket = m.socket
  BY <1>1 DEF SendFrame, Sound, Connection
<1>6. QED
  BY <1>1, <1>3, <1>4, <1>5, SameTells DEF m, Same, Calm

LEMMA StoppedSame ==
    ASSUME NEW v, Sound(v), NEW r \in {"finished", "errored"},
           NEW b \in BOOLEAN, NEW c \in Nat
    PROVE  Same(v, Stopped(v, b, c, r)) /\ Stopped(v, b, c, r).closeCode = c
BY DEF Stopped, StopListening, Sound, Connection, Same

\* The code of a close frame takes the place of 1006.
LEMMA EndedIsGood ==
    ASSUME NEW v, NEW u, Sound(v), Good(v), Moves(v, u), v.readyState # "CLOSED",
           u.socket # "none", u.closeCode = NoStatus \/ IsValidStatusCode(u.closeCode)
    PROVE  Good(u)
<1>1. u.readyState # "CLOSED" /\ Sound(u) /\ Window(In(u), In(v))
  BY DEF Moves
<1>2. ASSUME NEW i \in 1..Len(In(u)) PROVE MayArrive(In(u)[i])
  BY <1>1, <1>2, InputKeeps DEF Good
<1>3. QED
  BY <1>1, <1>2 DEF Good

\* A frame that ends the stream is answered.
LEMMA RefusalTells ==
    ASSUME NEW v, Sound(v), Good(v), v.rx # <<>>
    PROVE  /\ Head(v.rx).op = "close" =>
                Tells(v, ReceiverOnConclude(v)) /\ Good(ReceiverOnConclude(v))
           /\ Tells(v, ReceiverOnError(v)) /\ Good(ReceiverOnError(v))
<1>1. /\ v.socket # "none" /\ v.readyState # "CLOSED"
      /\ v.closeFrameReceived \in BOOLEAN /\ v.closeCode \in Nat
      /\ v.rx \in Seq(FrameType) /\ v.inbuf \in Seq(FrameType)
  BY DEF Sound, Connection, Good
<1> DEFINE f == Head(v.rx)
<1>2. f \in FrameType /\ f.val \in Nat
  <2>1. f \in FrameType
    BY <1>1, HeadTailProperties
  <2> HIDE DEF f
  <2>2. QED
    BY <2>1 DEF FrameType
<1>3. MayArrive(f)
  <2>1. In(v)[1] = f /\ 1 \in 1..Len(In(v))
    BY <1>1, ParsedMoves
  <2>2. QED
    BY <2>1 DEF Good
<1>4. ASSUME f.op = "close"
      PROVE  Tells(v, ReceiverOnConclude(v)) /\ Good(ReceiverOnConclude(v))
  <2> DEFINE c == f.val
             k == IF c = NoStatus THEN NoCode ELSE c
             s == Stopped(v, TRUE, c, "finished")
             u == ReceiverOnConclude(v)
  <2>1. u = IF v.socket = "closed" THEN s ELSE Close(s, k)
    BY DEF ReceiverOnConclude, Stopped
  <2>2. c \in Nat /\ (c = NoStatus \/ IsValidStatusCode(c))
    BY <1>2, <1>3, <1>4 DEF MayArrive
  <2>3. k \in Nat /\ (k = NoCode \/ IsValidStatusCode(k))
    BY <2>2, NoCodeIsInvalid
  <2> HIDE DEF f, c, k, u
  <2>4. Moves(v, s) /\ Same(v, s) /\ s.closeCode = c /\ Sound(s)
    <3>1. TRUE \in BOOLEAN /\ "finished" \in {"finished", "errored"} /\ c \in Nat
      BY <2>2
    <3>2. Moves(v, s)
      BY <3>1, StoppedMoves
    <3>3. Same(v, s) /\ s.closeCode = c
      BY <3>1, StoppedSame
    <3>4. QED
      BY <3>2, <3>3 DEF Moves
  <2>5. Moves(v, u)
    BY ReceiverOnConcludeMoves DEF u
  <2> HIDE DEF s
  <2>6. CASE v.socket = "closed"
    <3>1. Tells(v, u) /\ u.socket # "none" /\ u.closeCode = c
      BY <1>1, <2>1, <2>4, <2>6, SameTells DEF Same
    <3>2. QED
      BY <1>1, <2>2, <2>5, <3>1, EndedIsGood DEF u
  <2>7. CASE v.socket # "closed"
    <3>1. u = Close(s, k) /\ ~CloseThrows(s, k)
      BY <2>1, <2>3, <2>7 DEF CloseThrows
    <3>2. Tells(s, u) /\ Calm(s, u)
      BY <2>3, <2>4, <3>1, CloseTells
    <3>3. Tells(v, u) /\ u.socket # "none" /\ u.closeCode = c
      BY <1>1, <2>4, <3>2, SameTells DEF Same, Calm
    <3>4. QED
      BY <1>1, <2>2, <2>5, <3>3, EndedIsGood DEF u
  <2>8. QED
    BY <2>6, <2>7
<1>5. Tells(v, ReceiverOnError(v)) /\ Good(ReceiverOnError(v))
  <2> DEFINE c == v.closeCode
             s == Stopped(v, v.closeFrameReceived, c, "errored")
             u == ReceiverOnError(v)
  <2>1. u = IF v.socket = "closed" THEN s ELSE Close(s, ProtocolCode)
    <3>1. [v EXCEPT !.receiver = "errored", !.rx = <<>>]
             = [v EXCEPT !.closeFrameReceived = v.closeFrameReceived,
                         !.closeCode = v.closeCode, !.receiver = "errored", !.rx = <<>>]
      BY DEF Sound, Connection
    <3>2. QED
      BY <3>1 DEF ReceiverOnError, Stopped
  <2>2. ProtocolCode \in Nat /\ IsValidStatusCode(ProtocolCode)
    BY DEF ProtocolCode, IsValidStatusCode, NoStatus, Abnormal
  <2>3. Moves(v, s) /\ Same(v, s) /\ s.closeCode = c /\ Sound(s)
    BY <1>1, StoppedMoves, StoppedSame DEF Moves
  <2>4. Moves(v, u)
    BY ReceiverOnErrorMoves
  <2> HIDE DEF s, u
  <2>5. Tells(v, u) /\ u.socket # "none" /\ u.closeCode = c
    <3>1. CASE v.socket = "closed"
      BY <1>1, <2>1, <2>3, <3>1, SameTells DEF Same
    <3>2. CASE v.socket # "closed"
      <4>1. u = Close(s, ProtocolCode) /\ ~CloseThrows(s, ProtocolCode)
        BY <2>1, <2>2, <3>2 DEF CloseThrows
      <4>2. Tells(s, u) /\ Calm(s, u)
        BY <2>2, <2>3, <4>1, CloseTells
      <4>3. QED
        BY <1>1, <2>3, <4>2, SameTells DEF Same, Calm
    <3>3. QED
      BY <3>1, <3>2
  <2>6. u.readyState # "CLOSED" /\ Sound(u) /\ Window(In(u), In(v))
    BY <1>1, <2>4 DEF Moves
  <2>7. Good(u)
    BY <2>5, <2>6, GoodKeeps
  <2>8. QED
    BY <2>5, <2>7 DEF u
<1>6. QED
  BY <1>4, <1>5

\* v becomes u: what makes it good stays, and a code that may not be sent.
Stays(v, u) ==
    /\ Sound(u) /\ Good(u)
    /\ Unsayable(v) => Unsayable(u)

LEMMA StaysBy ==
    ASSUME NEW v, NEW u, Sound(v), Good(v)
    PROVE  /\ Stays(v, v) /\ Tells(v, v)
           /\ Calm(v, u) => Stays(v, u)
           /\ Moves(v, u) /\ v.readyState # "CLOSED" /\ Good(u) => Stays(v, u)
           /\ (/\ Moves(v, u) /\ v.readyState # "CLOSED" /\ u.closeCode = v.closeCode
               /\ u.socket = "none" => v.socket = "none") => Stays(v, u)
<1>1. Stays(v, v) /\ Tells(v, v)
  BY DEF Stays, Tells
<1>2. Calm(v, u) => Stays(v, u)
  <2>1. Calm(v, u) => Good(u) /\ Sound(u)
    BY CalmIsGood DEF Calm, Moves
  <2>2. Calm(v, u) /\ Unsayable(v) => Unsayable(u)
    BY DEF Calm, Unsayable
  <2>3. QED
    BY <2>1, <2>2 DEF Stays
<1>3. Moves(v, u) /\ v.readyState # "CLOSED" /\ Good(u) => Stays(v, u)
  BY DEF Stays, Moves, Unsayable
<1>4. ASSUME Moves(v, u), v.readyState # "CLOSED", u.closeCode = v.closeCode,
             u.socket = "none" => v.socket = "none"
      PROVE  Good(u)
  BY <1>4, GoodKeeps DEF Moves
<1>5. QED
  BY <1>1, <1>2, <1>3, <1>4

\* A connection that has its socket is not closed, and stays as it is but for its
\* buffers and the way it ends.
LEMMA SocketTells ==
    ASSUME NEW v, Sound(v), Good(v), v.socket \in {"up", "destroyed"}
    PROVE  /\ CanFlow(v) => Stays(v, FlowOne(v)) /\ Tells(v, FlowOne(v))
           /\ v.socket = "up" /\ v.inbuf = <<>>
                => Stays(v, SocketOnEnd(v)) /\ Tells(v, SocketOnEnd(v))
           /\ v.socket = "up"
                => Stays(v, SocketOnError(v)) /\ Tells(v, SocketOnError(v))
           /\ v.socket = "up" /\ v.closeTimer
                => Stays(v, CloseTimeout(v)) /\ Tells(v, CloseTimeout(v))
           /\ MayEmitClose(v) => Stays(v, SocketOnClose(v)) /\ Tells(v, SocketOnClose(v))
<1>1. v \in Connection /\ v.readyState # "CLOSED"
  BY DEF Sound
<1>2. ASSUME NEW u, Moves(v, u), u.closeCode = v.closeCode, u.socket # "none",
             u.endEmitted = v.endEmitted, u.socket # "up" \/ Same(v, u)
      PROVE  Stays(v, u) /\ Tells(v, u)
  <2>1. Stays(v, u)
    BY <1>1, <1>2, StaysBy
  <2>2. Tells(v, u)
    BY <1>2 DEF Tells, Same
  <2>3. QED
    BY <2>1, <2>2
<1>3. ASSUME CanFlow(v) PROVE Stays(v, FlowOne(v)) /\ Tells(v, FlowOne(v))
  <2>1. /\ FlowOne(v).closeCode = v.closeCode /\ Same(v, FlowOne(v))
    BY <1>1 DEF FlowOne, SocketOnData, Connection, Same
  <2>2. Moves(v, FlowOne(v))
    BY <1>3, FlowOneMoves
  <2>3. v.socket # "none"
    OBVIOUS
  <2>4. QED
    BY <1>2, <2>1, <2>2, <2>3 DEF Same
<1>4. ASSUME v.socket = "up", v.inbuf = <<>>
      PROVE  Stays(v, SocketOnEnd(v)) /\ Tells(v, SocketOnEnd(v))
  <2> DEFINE u == SocketOnEnd(v)
  <2>1. Moves(v, u) /\ u.tx = v.tx /\ u.endEmitted
    BY <1>4, SocketOnEndMoves
  <2>2. u.closeCode = v.closeCode /\ u.socket = v.socket
    BY <1>1 DEF SocketOnEnd, EndReceiver, Connection
  <2> HIDE DEF u
  <2>3. Stays(v, u)
    BY <1>1, <1>4, <2>1, <2>2, StaysBy
  <2>4. Tells(v, u)
    BY <1>4, <2>1, <2>2 DEF Tells
  <2>5. QED
    BY <2>3, <2>4 DEF u
<1>5. ASSUME v.socket = "up" PROVE Stays(v, SocketOnError(v)) /\ Tells(v, SocketOnError(v))
  <2> DEFINE u == SocketOnError(v)
  <2>1. Moves(v, u) /\ u.endEmitted = v.endEmitted
    BY <1>5, DestroyedMoves, SameEndSocket
  <2>2. u.closeCode = v.closeCode /\ u.socket = "destroyed"
    BY <1>1 DEF SocketOnError, Connection
  <2> HIDE DEF u
  <2>3. QED
    BY <1>2, <2>1, <2>2 DEF u
<1>6. ASSUME v.socket = "up", v.closeTimer
      PROVE  Stays(v, CloseTimeout(v)) /\ Tells(v, CloseTimeout(v))
  <2> DEFINE u == CloseTimeout(v)
  <2>1. Moves(v, u) /\ u.endEmitted = v.endEmitted
    BY <1>6, DestroyedMoves, SameEndSocket
  <2>2. u.closeCode = v.closeCode /\ u.socket = "destroyed"
    BY <1>1 DEF CloseTimeout, Connection
  <2> HIDE DEF u
  <2>3. QED
    BY <1>2, <2>1, <2>2 DEF u
<1>7. ASSUME MayEmitClose(v) PROVE Stays(v, SocketOnClose(v)) /\ Tells(v, SocketOnClose(v))
  <2> DEFINE u == SocketOnClose(v)
  <2>1. Moves(v, u) /\ u.endEmitted = v.endEmitted
    BY <1>7, SocketOnCloseMoves, SameEndSocket
  <2>2. u.closeCode = v.closeCode /\ u.socket = "closed"
    BY <1>1 DEF SocketOnClose, EndReceiver, Connection
  <2> HIDE DEF u
  <2>3. QED
    BY <1>2, <2>1, <2>2 DEF u
<1>8. QED
  BY <1>3, <1>4, <1>5, <1>6, <1>7

\* The opening handshake, and 'close'.
LEMMA HandshakeTells ==
    ASSUME NEW v, Sound(v), Good(v)
    PROVE  /\ v.readyState = "CONNECTING" =>
                /\ Stays(v, Upgraded(v)) /\ Tells(v, Upgraded(v))
                /\ Stays(v, UpgradeRefused(v)) /\ Tells(v, UpgradeRefused(v))
                /\ Stays(v, AbortRequest(v)) /\ Tells(v, AbortRequest(v))
           /\ v.abort # "no" =>
                /\ Stays(v, [v EXCEPT !.abort = "close"])
                /\ Tells(v, [v EXCEPT !.abort = "close"])
           /\ v.abort # "no" \/ v.readyState = "CONNECTING" =>
                /\ Stays(v, HandshakeClosed(v)) /\ Tells(v, HandshakeClosed(v))
           /\ MayFinish(v) =>
                /\ Stays(v, EmitClose(v)) /\ Tells(v, EmitClose(v))
                /\ EmitClose(v).closeCode = v.closeCode /\ EmitClose(v).readyState = "CLOSED"
<1>1. /\ v \in Connection
      /\ v.readyState = "CONNECTING" => v.socket = "none"
      /\ v.abort # "no" => v.socket = "none" /\ v.readyState = "CLOSING"
      /\ v.socket = "none" => v.rx = <<>>
  BY DEF Sound, Connecting, NewConnection
<1>2. ASSUME NEW u, Moves(v, u), v.readyState # "CLOSED", v.socket = "none",
             u.closeCode = v.closeCode, u.socket = "none", u.endEmitted = v.endEmitted
      PROVE  Stays(v, u) /\ Tells(v, u)
  <2>1. Stays(v, u)
    BY <1>2, StaysBy
  <2>2. Tells(v, u)
    BY <1>2 DEF Tells
  <2>3. QED
    BY <2>1, <2>2
<1>3. ASSUME v.readyState = "CONNECTING"
      PROVE  Stays(v, Upgraded(v)) /\ Tells(v, Upgraded(v))
  <2> DEFINE u == Upgraded(v)
  <2>1. /\ u.closeCode = v.closeCode /\ u.tx = v.tx /\ u.endEmitted = v.endEmitted
        /\ u.readyState = "OPEN" /\ u.socket = "up"
    BY <1>1, <1>3 DEF Upgraded, SetSocket, Connection
  <2>2. Sound(u) /\ Window(In(u), In(v))
    BY <1>3, HandshakeMoves DEF Becomes
  <2> HIDE DEF u
  <2>3. Good(u)
    BY <2>1, <2>2, GoodKeeps
  <2>4. Stays(v, u)
    BY <1>3, <2>2, <2>3 DEF Stays, Unsayable
  <2>5. Tells(v, u)
    BY <1>3, <2>1 DEF Tells
  <2>6. QED
    BY <2>4, <2>5 DEF u
<1>4. ASSUME v.readyState = "CONNECTING"
      PROVE  /\ Stays(v, UpgradeRefused(v)) /\ Tells(v, UpgradeRefused(v))
             /\ Stays(v, AbortRequest(v)) /\ Tells(v, AbortRequest(v))
  <2>1. /\ UpgradeRefused(v).closeCode = v.closeCode /\ UpgradeRefused(v).socket = v.socket
        /\ AbortRequest(v).closeCode = v.closeCode /\ AbortRequest(v).socket = v.socket
    BY <1>1 DEF UpgradeRefused, AbortRequest, Connection
  <2>2. /\ Moves(v, UpgradeRefused(v)) /\ UpgradeRefused(v).endEmitted = v.endEmitted
        /\ Moves(v, AbortRequest(v)) /\ AbortRequest(v).endEmitted = v.endEmitted
    BY <1>4, HandshakeMoves, SameEndHandshake
  <2>3. v.socket = "none" /\ v.readyState # "CLOSED"
    BY <1>1, <1>4
  <2>4. Stays(v, UpgradeRefused(v)) /\ Tells(v, UpgradeRefused(v))
    BY <1>2, <2>1, <2>2, <2>3
  <2>5. Stays(v, AbortRequest(v)) /\ Tells(v, AbortRequest(v))
    BY <1>2, <2>1, <2>2, <2>3
  <2>6. QED
    BY <2>4, <2>5
<1>5. ASSUME v.abort # "no"
      PROVE  /\ Stays(v, [v EXCEPT !.abort = "close"])
             /\ Tells(v, [v EXCEPT !.abort = "close"])
  <2> DEFINE u == [v EXCEPT !.abort = "close"]
  <2>1. u.closeCode = v.closeCode /\ u.socket = v.socket
    BY <1>1 DEF Connection
  <2>2. Moves(v, u) /\ u.endEmitted = v.endEmitted
    BY <1>5, AbortMoves, SameEndHandshake
  <2> HIDE DEF u
  <2>3. QED
    BY <1>1, <1>2, <1>5, <2>1, <2>2 DEF u
<1>6. ASSUME v.abort # "no" \/ v.readyState = "CONNECTING"
      PROVE  Stays(v, HandshakeClosed(v)) /\ Tells(v, HandshakeClosed(v))
  <2> DEFINE u == HandshakeClosed(v)
  <2>1. u.closeCode = v.closeCode /\ u.socket = "none" /\ u.rx = <<>>
    BY <1>1, <1>6 DEF HandshakeClosed, Connection
  <2>2. Sound(u) /\ Window(In(u), In(v)) /\ u.endEmitted = v.endEmitted
    BY <1>6, HandshakeMoves, AbortMoves, SameEndHandshake DEF Becomes
  <2>3. v.socket = "none" /\ v.readyState # "CLOSED"
    BY <1>1, <1>6
  <2> HIDE DEF u
  <2>4. Good(u)
    BY <2>1, <2>2, <2>3, GoodKeeps
  <2>5. Stays(v, u)
    BY <2>2, <2>3, <2>4 DEF Stays, Unsayable
  <2>6. Tells(v, u)
    BY <2>1, <2>2 DEF Tells
  <2>7. QED
    BY <2>5, <2>6 DEF u
<1>7. ASSUME MayFinish(v)
      PROVE  /\ Stays(v, EmitClose(v)) /\ Tells(v, EmitClose(v))
             /\ EmitClose(v).closeCode = v.closeCode /\ EmitClose(v).readyState = "CLOSED"
  <2> DEFINE u == EmitClose(v)
  <2>1. /\ u.closeCode = v.closeCode /\ u.socket = "closed" /\ u.rx = v.rx
        /\ u.readyState = "CLOSED"
    BY <1>1, <1>7 DEF EmitClose, MayFinish, Connection
  <2>2. Sound(u) /\ Window(In(u), In(v)) /\ Concluded(v) /\ u.endEmitted = v.endEmitted
    BY <1>7, EmitCloseBecomes, SameEndHandshake DEF Becomes
  <2>3. v.rx = <<>> /\ v.readyState # "CLOSED"
    BY <1>7, <2>2 DEF Sound, MayFinish
  <2> HIDE DEF u
  <2>4. Good(u)
    BY <2>1, <2>2, <2>3, GoodKeeps
  <2>5. Stays(v, u)
    BY <2>2, <2>3, <2>4 DEF Stays, Unsayable
  <2>6. Tells(v, u)
    BY <2>1, <2>2 DEF Tells
  <2>7. QED
    BY <2>1, <2>5, <2>6 DEF u
<1>8. QED
  BY <1>3, <1>4, <1>5, <1>6, <1>7

-----------------------------------------------------------------------------
(***************************************************************************)
(* The steps                                                               *)
(***************************************************************************)

LEMMA ToldFacts ==
    ASSUME IInv, PeersTold, NEW e \in End
    PROVE  /\ Sound(ep[e]) /\ Good(ep[e]) /\ ep[e] \in Connection
           /\ Sound(ep[Other(e)]) /\ Good(ep[Other(e)])
           /\ wire[e] \in Seq(FrameType)
BY OtherFacts DEF IInv, Ends, TypeOK, PeersTold, Sound

\* One connection goes to u, the other one to p; if p does not say that it closes, u
\* is closed with a code that close() refuses.
LEMMA BothTold ==
    ASSUME IInv, PeersTold, NEW e \in End, NEW u, NEW p, Both(e, u, p), wire' = wire,
           Stays(ep[e], u), Stays(ep[Other(e)], p), Tells(ep[e], u),
           Tells(ep[Other(e)], p) \/ Unsayable(u)
    PROVE  PeersTold'
<1> DEFINE x == Other(e)
<1>1. x \in End /\ Other(x) = e /\ x # e /\ \A y \in End : y = e \/ y = x
  BY OtherFacts
<1>2. ep'[e] = u /\ ep'[x] = p
  BY <1>1 DEF Both
<1>3. /\ Good(u) /\ Good(p) /\ u \in Connection /\ p \in Connection
      /\ Unsayable(ep[e]) => Unsayable(u)
      /\ Unsayable(ep[x]) => Unsayable(p)
  BY DEF Stays, Sound
<1>4. /\ ep[e] \in Connection /\ ep[x] \in Connection
      /\ wire[e] \in Seq(FrameType) /\ wire[x] \in Seq(FrameType)
      /\ Warned(wire[e], ep[e]) \/ Unsayable(ep[x])
      /\ Warned(wire[x], ep[x]) \/ Unsayable(ep[e])
  BY <1>1, ToldFacts DEF PeersTold
<1> HIDE DEF x
<1>5. Warned(wire[e], u) \/ Unsayable(p)
  BY <1>3, <1>4, WarnedKeeps
<1>6. Warned(wire[x], p) \/ Unsayable(u)
  BY <1>3, <1>4, WarnedKeeps DEF x
<1>7. Good(ep'[e]) /\ (Warned(wire'[e], ep'[e]) \/ Unsayable(ep'[Other(e)]))
  BY <1>2, <1>3, <1>5 DEF x
<1>8. Good(ep'[x]) /\ (Warned(wire'[x], ep'[x]) \/ Unsayable(ep'[Other(x)]))
  BY <1>1, <1>2, <1>3, <1>6
<1>9. \A y \in End : Good(ep'[y]) /\ (Warned(wire'[y], ep'[y]) \/ Unsayable(ep'[Other(y)]))
  BY <1>1, <1>7, <1>8
<1>10. QED
  BY <1>9 DEF PeersTold

LEMMA OneTold ==
    ASSUME IInv, PeersTold, NEW e \in End, NEW u, ep' = [ep EXCEPT ![e] = u],
           wire' = wire, Stays(ep[e], u), Tells(ep[e], u)
    PROVE  PeersTold'
<1> DEFINE o == ep[Other(e)]
<1>1. Both(e, u, o)
  BY OneIsBoth DEF IInv
<1>2. Stays(o, o) /\ Tells(o, o)
  BY ToldFacts, StaysBy
<1>3. QED
  BY <1>1, <1>2, BothTold

\* 'close' with code c: if o.close(c) throws, nothing is said, and c is 1005 or 1006.
LEMMA FinishTold == ASSUME IInv, PeersTold, NEW e \in End, Finish(e) PROVE PeersTold'
<1> DEFINE v == ep[e]
           o == ep[Other(e)]
           c == v.closeCode
           u == EmitClose(v)
           p == OnClose(o, c)
<1>1. /\ Sound(v) /\ Sound(o) /\ Good(v) /\ Good(o) /\ MayFinish(v)
      /\ Both(e, u, p) /\ c \in Nat /\ wire' = wire
  BY ToldFacts DEF Finish, Bookkeeping, Sound, Connection
<1> HIDE DEF v, o
<1>2. Stays(v, u) /\ Tells(v, u) /\ u.closeCode = c /\ u.readyState = "CLOSED"
  BY <1>1, HandshakeTells
<1>3. c \in {NoStatus, Abnormal} \/ IsValidStatusCode(c)
  BY <1>1 DEF Good
<1> HIDE DEF c, u
<1>4. Calm(o, p) /\ (~CloseThrows(o, c) => Tells(o, p))
  BY <1>1, ListenersTell
<1>5. CloseThrows(o, c) => Unsayable(u)
  BY <1>2, <1>3 DEF CloseThrows, Unsayable
<1> HIDE DEF p
<1>6. Stays(o, p)
  BY <1>1, <1>4, StaysBy
<1>7. QED
  BY <1>1, <1>2, <1>4, <1>5, <1>6, BothTold DEF v, o

LEMMA ErrorAndCloseTold ==
    ASSUME IInv, PeersTold, ErrorAndClose, wire' = wire,
           ep.remote.abort # "no" \/ ep.remote.readyState = "CONNECTING"
    PROVE  PeersTold'
<1> DEFINE v == ep["remote"]
           o == ep["client"]
           u == HandshakeClosed(v)
           p == OnClose(OnError(o), Abnormal)
<1>1. /\ Sound(v) /\ Sound(o) /\ Good(v) /\ Good(o) /\ o = ep[Other("remote")]
      /\ Both("remote", u, p) /\ (v.abort # "no" \/ v.readyState = "CONNECTING")
  <2>1. Other("remote") = "client"
    BY DEF Other
  <2>2. QED
    BY <2>1, ToldFacts, Sides DEF ErrorAndClose
<1>2. Abnormal \in Nat
  BY DEF Abnormal
<1> HIDE DEF v, o
<1>3. Stays(v, u) /\ Tells(v, u)
  BY <1>1, HandshakeTells
<1>4. Calm(o, p) /\ Tells(o, p)
  BY <1>1, <1>2, ListenersTell
<1> HIDE DEF u, p
<1>5. Stays(o, p)
  BY <1>1, <1>4, StaysBy
<1>6. QED
  BY <1>1, <1>3, <1>4, <1>5, BothTold, Sides DEF v, o

LEMMA AbortTickTold == ASSUME IInv, PeersTold, AbortTick PROVE PeersTold'
<1>1. wire' = wire
  BY DEF AbortTick, Bookkeeping
<1>2. CASE ep.remote.abort = "tick" /\ ErrorAndClose
  BY <1>1, <1>2, ErrorAndCloseTold
<1>3. CASE /\ ep.remote.abort = "error"
           /\ Both("remote", [ep.remote EXCEPT !.abort = "close"], OnError(ep.client))
  <2> DEFINE v == ep["remote"]
             o == ep["client"]
             u == [v EXCEPT !.abort = "close"]
             p == OnError(o)
  <2>1. /\ Sound(v) /\ Sound(o) /\ Good(v) /\ Good(o) /\ o = ep[Other("remote")]
        /\ Both("remote", u, p) /\ v.abort # "no"
    <3>1. Other("remote") = "client"
      BY DEF Other
    <3>2. QED
      BY <1>3, <3>1, ToldFacts, Sides
  <2> HIDE DEF v, o
  <2>2. Stays(v, u) /\ Tells(v, u)
    BY <2>1, HandshakeTells
  <2>3. Calm(o, p) /\ Tells(o, p)
    <3>1. NoCode \in Nat
      BY DEF NoCode
    <3>2. QED
      BY <2>1, <3>1, ListenersTell
  <2> HIDE DEF u, p
  <2>4. Stays(o, p)
    BY <2>1, <2>3, StaysBy
  <2>5. QED
    BY <1>1, <2>1, <2>2, <2>3, <2>4, BothTold, Sides DEF v, o
<1>4. QED
  BY <1>2, <1>3 DEF AbortTick

LEMMA RefusedClosedTold == ASSUME IInv, PeersTold, RefusedClosed PROVE PeersTold'
<1> DEFINE v == ep["remote"]
           o == ep["client"]
           u == HandshakeClosed(v)
           p == OnClose(o, Abnormal)
<1>1. /\ Sound(v) /\ Sound(o) /\ Good(v) /\ Good(o) /\ o = ep[Other("remote")]
      /\ Both("remote", u, p) /\ v.abort # "no" /\ wire' = wire
  <2>1. Other("remote") = "client"
    BY DEF Other
  <2>2. QED
    BY <2>1, ToldFacts, Sides DEF RefusedClosed, Bookkeeping
<1>2. Abnormal \in Nat
  BY DEF Abnormal
<1> HIDE DEF v, o
<1>3. Stays(v, u) /\ Tells(v, u)
  BY <1>1, HandshakeTells
<1>4. Unsayable(u)
  <2>1. /\ v.closeCode = Abnormal /\ v \in Connection
    BY <1>1 DEF Sound, Good
  <2>2. QED
    BY <2>1 DEF HandshakeClosed, Connection, Unsayable
<1>5. Calm(o, p)
  BY <1>1, <1>2, ListenersTell
<1> HIDE DEF u, p
<1>6. Stays(o, p)
  BY <1>1, <1>5, StaysBy
<1>7. QED
  BY <1>1, <1>3, <1>4, <1>6, BothTold, Sides DEF v, o

\* The frames of one connection's socket, and wsRemote's handshake.
LEMMA OneStepTold ==
    ASSUME IInv, PeersTold,
           \/ RemoteOpens \/ RemoteRefuses
           \/ \E e \in End : Flow(e) \/ NetEnd(e) \/ NetError(e) \/ NetClose(e) \/ Timeout(e)
    PROVE  PeersTold'
<1>1. CASE RemoteOpens \/ RemoteRefuses
  <2> DEFINE v == ep["remote"]
  <2>1. /\ Sound(v) /\ Good(v) /\ v.readyState = "CONNECTING" /\ wire' = wire
        /\ \E u \in {Upgraded(v), UpgradeRefused(v), AbortRequest(v)} :
              ep' = [ep EXCEPT !["remote"] = u]
    BY <1>1, ToldFacts, Sides DEF RemoteOpens, RemoteRefuses, Bookkeeping
  <2> HIDE DEF v
  <2>2. PICK u : Stays(v, u) /\ Tells(v, u) /\ ep' = [ep EXCEPT !["remote"] = u]
    BY <2>1, HandshakeTells
  <2>3. QED
    BY <2>1, <2>2, OneTold, Sides DEF v
<1>2. ASSUME NEW e \in End,
             Flow(e) \/ NetEnd(e) \/ NetError(e) \/ NetClose(e) \/ Timeout(e)
      PROVE  PeersTold'
  <2> DEFINE v == ep[e]
  <2>1. /\ Sound(v) /\ Good(v) /\ wire' = wire
        /\ \/ CanFlow(v) /\ ep' = [ep EXCEPT ![e] = FlowOne(v)]
           \/ v.socket = "up" /\ v.inbuf = <<>> /\ ep' = [ep EXCEPT ![e] = SocketOnEnd(v)]
           \/ v.socket = "up" /\ ep' = [ep EXCEPT ![e] = SocketOnError(v)]
           \/ MayEmitClose(v) /\ ep' = [ep EXCEPT ![e] = SocketOnClose(v)]
           \/ v.socket = "up" /\ v.closeTimer /\ ep' = [ep EXCEPT ![e] = CloseTimeout(v)]
    BY <1>2, ToldFacts DEF Flow, NetEnd, NetError, NetClose, Timeout, Bookkeeping
  <2> HIDE DEF v
  <2>2. CanFlow(v) \/ MayEmitClose(v) => v.socket \in {"up", "destroyed"}
    BY DEF CanFlow, Listening, MayEmitClose
  <2>3. PICK u : Stays(v, u) /\ Tells(v, u) /\ ep' = [ep EXCEPT ![e] = u]
    BY <2>1, <2>2, SocketTells
  <2>4. QED
    BY <2>1, <2>3, OneTold DEF v
<1>3. QED
  BY <1>1, <1>2

LEMMA ParseFrameTold ==
    ASSUME IInv, PeersTold, NEW e \in End, ep[e].rx # <<>>, ParseFrame(e)
    PROVE  PeersTold'
<1> DEFINE v == ep[e]
           o == ep[Other(e)]
           f == Head(v.rx)
           n == f.val
<1>1. /\ Sound(v) /\ Good(v) /\ Sound(o) /\ Good(o) /\ v.rx # <<>>
      /\ v.rx \in Seq(FrameType) /\ v.readyState # "CLOSED" /\ v.socket # "none"
  BY ToldFacts DEF Good, Connection, Sound
<1>2. f \in FrameType
  BY <1>1, HeadTailProperties
<1>3. n \in Nat
  <2> HIDE DEF f
  <2>1. QED
    BY <1>2 DEF FrameType
<1>4. /\ wire' = wire
      /\ \/ \E g \in FrameType : Both(e, Parsed(v), SendFrame(o, g))
         \/ \E g \in FrameType : Both(e, ReceiverOnPing(v), SendFrame(o, g))
         \/ Both(e, Parsed(v), o)
         \/ f.op = "close" /\ Both(e, ReceiverOnConclude(v), o)
         \/ Both(e, ReceiverOnError(v), OnError(o))
  <2>1. wire' = wire
    BY DEF ParseFrame
  <2>2. \A op \in {"data", "ping", "pong"} : Frame(op, n, FALSE) \in FrameType
    <3> HIDE DEF n
    <3>1. QED
      BY <1>3 DEF Frame, FrameType
  <2>3. CASE f.op = "data" /\ e = "client"
    <3>1. /\ o = ep.remote /\ e = "client"
          /\ OnClientMessage(Parsed(v), n)
      BY <2>3 DEF ParseFrame, Other
    <3>2. CASE ep' = [client |-> Parsed(v), remote |-> SendFrame(o, Frame("data", n, FALSE))]
      BY <2>1, <2>2, <3>1, <3>2, RecordIsBoth
    <3>3. CASE ep' = [ep EXCEPT !.client = Parsed(v)]
      <4>1. Both(e, Parsed(v), o)
        BY <3>1, <3>3, OneIsBoth DEF IInv
      <4>2. QED
        BY <2>1, <4>1
    <3>4. QED
      BY <3>1, <3>2, <3>3 DEF OnClientMessage
  <2>4. CASE f.op = "data" /\ e = "remote"
    <3>1. /\ o = ep.client /\ e = "remote"
          /\ OnRemoteMessage(Parsed(v), n)
      BY <2>4 DEF ParseFrame, Other
    <3>2. ep' = [remote |-> Parsed(v), client |-> SendFrame(o, Frame("data", n, FALSE))]
      BY <3>1 DEF OnRemoteMessage
    <3>3. QED
      BY <2>1, <2>2, <3>1, <3>2, RecordIsBoth
  <2>5. CASE f.op # "data"
    <3>1. \/ Both(e, ReceiverOnPing(v), OnControl(o, "ping", n))
          \/ Both(e, Parsed(v), OnControl(o, "pong", n))
          \/ f.op = "close" /\ Both(e, ReceiverOnConclude(v), o)
          \/ Both(e, ReceiverOnError(v), OnError(o))
      BY <2>5 DEF ParseFrame
    <3>2. /\ OnControl(o, "ping", n) = SendFrame(o, Frame("ping", n, FALSE))
          /\ OnControl(o, "pong", n) = SendFrame(o, Frame("pong", n, FALSE))
      BY DEF OnControl
    <3>3. QED
      BY <2>1, <2>2, <3>1, <3>2
  <2>6. QED
    BY <2>3, <2>4, <2>5 DEF End
<1> HIDE DEF v, o, f, n
<1>5. /\ Stays(o, o) /\ Tells(o, o)
      /\ \A g \in FrameType : Stays(o, SendFrame(o, g)) /\ Tells(o, SendFrame(o, g))
  BY <1>1, StaysBy, SendTells
<1>6. Stays(o, OnError(o)) /\ Tells(o, OnError(o))
  <2>1. NoCode \in Nat
    BY DEF NoCode
  <2>2. Calm(o, OnError(o)) /\ Tells(o, OnError(o))
    BY <1>1, <2>1, ListenersTell
  <2>3. QED
    BY <1>1, <2>2, StaysBy
<1>7. /\ Stays(v, Parsed(v)) /\ Tells(v, Parsed(v))
      /\ Stays(v, ReceiverOnPing(v)) /\ Tells(v, ReceiverOnPing(v))
  <2>1. /\ Moves(v, Parsed(v)) /\ Moves(v, ReceiverOnPing(v))
        /\ Same(v, Parsed(v)) /\ Parsed(v).closeCode = v.closeCode
        /\ Tells(v, ReceiverOnPing(v)) /\ ReceiverOnPing(v).closeCode = v.closeCode
        /\ ReceiverOnPing(v).socket = v.socket
    BY <1>1, ParsedMoves, ReceiverOnPingMoves, ParsedTells
  <2>2. Tells(v, Parsed(v)) /\ Parsed(v).socket = v.socket
    BY <2>1, SameTells DEF Same
  <2>3. Stays(v, Parsed(v))
    BY <1>1, <2>1, <2>2, StaysBy
  <2>4. Stays(v, ReceiverOnPing(v))
    BY <1>1, <2>1, StaysBy
  <2>5. QED
    BY <2>1, <2>2, <2>3, <2>4
<1>8. /\ f.op = "close" => Stays(v, ReceiverOnConclude(v)) /\ Tells(v, ReceiverOnConclude(v))
      /\ Stays(v, ReceiverOnError(v)) /\ Tells(v, ReceiverOnError(v))
  <2>1. Moves(v, ReceiverOnConclude(v)) /\ Moves(v, ReceiverOnError(v))
    BY <1>1, ReceiverOnConcludeMoves, ReceiverOnErrorMoves
  <2>2. /\ f.op = "close" => Tells(v, ReceiverOnConclude(v)) /\ Good(ReceiverOnConclude(v))
        /\ Tells(v, ReceiverOnError(v)) /\ Good(ReceiverOnError(v))
    BY <1>1, RefusalTells DEF f
  <2>3. QED
    BY <1>1, <2>1, <2>2, StaysBy
<1>9. PICK u, p : /\ Both(e, u, p) /\ Stays(v, u) /\ Tells(v, u)
                  /\ Stays(o, p) /\ Tells(o, p)
  BY <1>4, <1>5, <1>6, <1>7, <1>8
<1>10. QED
  BY <1>4, <1>9, BothTold DEF v, o

\* wsRemote is OPEN when the queue is given to its sender, or nothing is.
LEMMA FlushQueueTold == ASSUME IInv, PeersTold, FlushQueue PROVE PeersTold'
<1> DEFINE v == ep["remote"]
           y == v.tx
           q == [i \in DOMAIN queueData |-> Frame("data", queueData[i], FALSE)]
           x == y \o q
           u == IF v.readyState # "OPEN" THEN v ELSE [v EXCEPT !.tx = x]
<1>1. /\ Sound(v) /\ Good(v) /\ wire' = wire /\ ep' = [ep EXCEPT !["remote"] = u]
  BY ToldFacts, Sides DEF FlushQueue, Flushed, Bookkeeping
<1>2. CASE v.readyState # "OPEN"
  <2>1. Stays(v, v) /\ Tells(v, v)
    BY <1>1, StaysBy
  <2>2. QED
    BY <1>1, <1>2, <2>1, OneTold, Sides
<1>3. CASE v.readyState = "OPEN"
  <2>1. queueData \in Seq(Nat) /\ y \in Seq(FrameType)
    BY <1>1 DEF IInv, TypeOK, Sound, Connection
  <2>2. x \in Seq(FrameType)
    <3>1. DOMAIN queueData = 1..Len(queueData) /\ Len(queueData) \in Nat
      BY <2>1
    <3>2. \A i \in 1..Len(queueData) : Frame("data", queueData[i], FALSE) \in FrameType
      <4>1. \A i \in 1..Len(queueData) : queueData[i] \in Nat
        BY <2>1, ElementOfSeq
      <4>2. QED
        BY <4>1 DEF Frame, FrameType
    <3>3. q \in [1..Len(queueData) -> FrameType]
      BY <3>1, <3>2
    <3> HIDE DEF q, y
    <3>4. q \in Seq(FrameType)
      BY <3>1, <3>3
    <3>5. QED
      BY <2>1, <3>4, ConcatProperties
  <2> HIDE DEF v, x
  <2> DEFINE r == [v EXCEPT !.tx = x]
  <2>3. /\ Moves(v, r) /\ r.readyState = v.readyState
    BY <1>1, <1>3, <2>2, TxKeepsSound
  <2>4. r.closeCode = v.closeCode /\ r.socket = v.socket /\ u = r
    BY <1>1, <1>3 DEF Sound, Connection
  <2> HIDE DEF u, r
  <2>5. Stays(v, r) /\ Sound(r)
    BY <1>1, <1>3, <2>3, <2>4, StaysBy DEF Moves
  <2>6. ep'["remote"] = r /\ ep'["client"] = ep["client"]
    BY <1>1, <2>4, Sides DEF IInv, TypeOK
  <2>7. Warned(wire["remote"], r)
    BY <1>3, <2>3 DEF Warned
  <2>8. Unsayable(r) <=> Unsayable(v)
    BY <1>3, <2>3 DEF Unsayable
  <2>9. /\ Good(ep["client"])
        /\ Warned(wire["client"], ep["client"]) \/ Unsayable(v)
    BY Sides DEF PeersTold, Other, v
  <2>10. QED
    BY <1>1, <2>5, <2>6, <2>7, <2>8, <2>9 DEF PeersTold, End, Other, Stays
<1>4. QED
  BY <1>2, <1>3

\* What a peer sends has a code that may be sent, or none.
LEMMA ArrivingMayArrive ==
    ASSUME NEW e \in End, NEW f \in ArrivingFrames(e) PROVE MayArrive(f)
<1>1. CASE f.op # "close"
  BY <1>1 DEF MayArrive
<1>2. CASE f.op = "close"
  <2>1. \E c \in Codes : f = Frame("close", c, FALSE)
    BY <1>2 DEF ArrivingFrames, Frame
  <2>2. QED
    BY <2>1, WsBridgeAssumption DEF Frame, MayArrive
<1>3. QED
  BY <1>1, <1>2

LEMMA NetDataTold == ASSUME IInv, PeersTold, NEW e \in End, NetData(e) PROVE PeersTold'
<1> DEFINE v == ep[e]
<1>1. PICK f \in ArrivingFrames(e) : ep' = [ep EXCEPT ![e] = Arrive(v, f)]
  BY DEF NetData
<1> DEFINE u == Arrive(v, f)
<1>2. /\ Sound(v) /\ Good(v) /\ Listening(v) /\ ~v.endEmitted /\ wire' = wire
      /\ v \in Connection /\ v.socket = "up" /\ v.readyState # "CLOSED"
  <2>1. ~v.endEmitted
    BY DEF IInv, Ends, NetData
  <2>2. Sound(v) /\ Good(v) /\ Listening(v) /\ wire' = wire
    BY ToldFacts DEF NetData
  <2>3. QED
    BY <2>1, <2>2 DEF Sound, Listening
<1>3. f \in FrameType /\ MayArrive(f)
  <2>1. \A c \in Codes : c \in Nat
    BY ValidCode, WsBridgeAssumption DEF NoStatus
  <2>2. Deflate \in BOOLEAN /\ arrived[e] + 1 \in Nat
    BY WsBridgeAssumption DEF IInv, TypeOK
  <2>3. \/ \E comp \in BOOLEAN : f = Frame("data", arrived[e] + 1, comp)
        \/ \E c \in Codes : f = Frame("close", c, FALSE)
        \/ \E op \in {"bad", "ping", "pong"} : f = Frame(op, 0, FALSE)
    BY <2>2 DEF ArrivingFrames
  <2>4. \A op \in {"data", "close", "bad", "ping", "pong"} : \A val \in Nat :
           \A comp \in BOOLEAN : Frame(op, val, comp) \in FrameType
    BY DEF Frame, FrameType
  <2>5. f \in FrameType
    BY <2>1, <2>2, <2>3, <2>4
  <2>6. QED
    BY <2>5, ArrivingMayArrive
<1>4. ep' = [ep EXCEPT ![e] = u]
  BY <1>1
<1> HIDE DEF v
<1>5. /\ Sound(u) /\ u.readyState = v.readyState /\ u.tx = v.tx
      /\ In(u) = Append(In(v), f) /\ u.endEmitted = v.endEmitted
  BY <1>2, <1>3, ArriveReads, SameEndSocket
<1>6. u.socket = v.socket /\ u.closeCode = v.closeCode
  BY <1>2 DEF Arrive, SocketOnData, Connection
<1> HIDE DEF u
<1>7. ASSUME NEW i \in 1..Len(In(u)) PROVE MayArrive(In(u)[i])
  <2> DEFINE s == In(v)
  <2>1. s \in Seq(FrameType) /\ \A j \in 1..Len(s) : MayArrive(s[j])
    BY <1>2, InLength DEF Good
  <2> HIDE DEF s
  <2>2. /\ Len(s) \in Nat /\ Len(Append(s, f)) = Len(s) + 1
        /\ \A j \in 1..Len(s) : Append(s, f)[j] = s[j]
        /\ Append(s, f)[Len(s) + 1] = f
    BY <1>3, <2>1, AppendProperties, LenProperties
  <2>3. i \in 1..(Len(s) + 1) /\ In(u) = Append(s, f)
    BY <1>5, <1>7, <2>2 DEF s
  <2>4. i \in 1..Len(s) \/ i = Len(s) + 1
    BY <2>2, <2>3
  <2>5. QED
    BY <1>3, <2>1, <2>2, <2>3, <2>4
<1>8. Good(u)
  BY <1>2, <1>5, <1>6, <1>7 DEF Good
<1>9. Stays(v, u)
  BY <1>2, <1>5, <1>8 DEF Stays, Unsayable
<1>10. Tells(v, u)
  BY <1>5, <1>6, SameTells DEF Same
<1>11. QED
  BY <1>2, <1>4, <1>9, <1>10, OneTold DEF v

\* A frame that is written out stays in what was handed over.
LEMMA NetWriteTold == ASSUME IInv, PeersTold, NEW e \in End, NetWrite(e) PROVE PeersTold'
<1> DEFINE v == ep[e]
           o == ep[Other(e)]
           u == Written(v)
           w == wire[e]
           x == v.tx
           h == Append(w, Head(x))
<1>1. /\ Sound(v) /\ Good(v) /\ v.socket = "up" /\ x # <<>> /\ v.readyState # "CLOSED"
      /\ ep' = [ep EXCEPT ![e] = u]
      /\ wire' = [wire EXCEPT ![e] = h]
      /\ w \in Seq(FrameType) /\ x \in Seq(FrameType) /\ v \in Connection
  BY ToldFacts DEF NetWrite, Sound, Connection
<1>2. /\ Moves(v, u) /\ u.readyState = v.readyState /\ u.tx = Tail(x)
      /\ u.endEmitted = v.endEmitted
  BY <1>1, WrittenMoves, SameEndSocket
<1>3. u.socket = v.socket /\ u.closeCode = v.closeCode
  BY <1>1 DEF Written, Connection
<1>4. h \o Tail(x) = w \o x
  <2> HIDE DEF w, x
  <2>1. Head(x) \in FrameType
    BY <1>1, HeadTailProperties
  <2>2. QED
    BY <1>1, <2>1, HeadMoves, AppendProperties
<1>5. Warned(h, u) <=> Warned(w, v)
  BY <1>2, <1>3, <1>4 DEF Warned
<1> HIDE DEF v, u, h, x
<1>6. Stays(v, u)
  BY <1>1, <1>2, <1>3, StaysBy
<1>7. Unsayable(u) <=> Unsayable(v)
  BY <1>2, <1>3 DEF Unsayable
<1>8. /\ Other(e) \in End /\ Other(e) # e /\ Other(Other(e)) = e
      /\ \A y \in End : y = e \/ y = Other(e)
  BY OtherFacts
<1>9. /\ ep'[e] = u /\ ep'[Other(e)] = o /\ wire'[e] = h /\ wire'[Other(e)] = wire[Other(e)]
  BY <1>1, <1>8 DEF IInv, TypeOK
<1>10. /\ Warned(w, v) \/ Unsayable(o)
       /\ Good(o) /\ (Warned(wire[Other(e)], o) \/ Unsayable(v))
  BY <1>8 DEF PeersTold, v
<1> HIDE DEF o, w
<1>11. Good(ep'[e]) /\ (Warned(wire'[e], ep'[e]) \/ Unsayable(ep'[Other(e)]))
  BY <1>5, <1>6, <1>9, <1>10 DEF Stays
<1>12. Good(ep'[Other(e)])
       /\ (Warned(wire'[Other(e)], ep'[Other(e)]) \/ Unsayable(ep'[Other(Other(e))]))
  BY <1>7, <1>8, <1>9, <1>10
<1>13. \A y \in End : Good(ep'[y]) /\ (Warned(wire'[y], ep'[y]) \/ Unsayable(ep'[Other(y)]))
  BY <1>8, <1>11, <1>12
<1>14. QED
  BY <1>13 DEF PeersTold

LEMMA InitTold == Init => PeersTold
<1> SUFFICES ASSUME Init, NEW e \in End
             PROVE  Good(ep[e]) /\ Warned(wire[e], ep[e])
  BY DEF PeersTold
<1>1. ep[e] \in {Accepted, Connecting}
  BY DEF Init, End
<1>2. \A i \in 1..Len(In(ep[e])) : MayArrive(In(ep[e])[i])
  BY <1>1, InitSound
<1>3. /\ Accepted.readyState = "OPEN" /\ Accepted.socket = "up"
      /\ Accepted.closeCode = Abnormal
      /\ Connecting.readyState = "CONNECTING" /\ Connecting.socket = "none"
      /\ Connecting.closeCode = Abnormal
  BY DEF Accepted, Connecting, SetSocket, NewConnection
<1>4. Good(ep[e])
  BY <1>1, <1>2, <1>3 DEF Good
<1>5. Warned(wire[e], ep[e])
  BY <1>1, <1>3 DEF Warned
<1>6. QED
  BY <1>4, <1>5

LEMMA NextTold == IInv /\ PeersTold /\ [Next]_vars => PeersTold'
<1> SUFFICES ASSUME IInv, PeersTold, [Next]_vars PROVE PeersTold'
  OBVIOUS
<1>1. CASE AbortTick
  BY <1>1, AbortTickTold
<1>2. ASSUME NEW e \in End, Parse(e) PROVE PeersTold'
  BY <1>2, ParseFrameTold DEF Parse, CanParse
<1>3. ASSUME NEW e \in End, Flow(e) PROVE PeersTold'
  BY <1>3, OneStepTold
<1>4. ASSUME NEW e \in End, Finish(e) PROVE PeersTold'
  BY <1>4, FinishTold
<1>5. CASE Handler
  <2>1. CASE RemoteFails
    BY <2>1, ErrorAndCloseTold DEF RemoteFails, Bookkeeping
  <2>2. QED
    BY <1>5, <2>1, OneStepTold, RefusedClosedTold, FlushQueueTold DEF Handler
<1>6. ASSUME NEW e \in End, Network(e) PROVE PeersTold'
  <2>1. CASE NetFin(e)
    BY <2>1 DEF NetFin, PeersTold
  <2>2. CASE NetData(e)
    BY <2>2, NetDataTold
  <2>3. CASE NetWrite(e)
    BY <2>3, NetWriteTold
  <2>4. CASE NetEnd(e) \/ NetError(e) \/ NetClose(e) \/ Timeout(e)
    BY <2>4, OneStepTold
  <2>5. CASE Inflated(e)
    BY <2>5, ParseFrameTold DEF Inflated, Inflating
  <2>6. QED
    BY <1>6, <2>1, <2>2, <2>3, <2>4, <2>5 DEF Network
<1>7. CASE UNCHANGED vars
  BY <1>7 DEF vars, PeersTold
<1>8. QED
  BY <1>1, <1>2, <1>3, <1>4, <1>5, <1>6, <1>7 DEF Next, Turn

\* When one side is closed the other one is closing, and its peer is told: it has a
\* close frame or has sent its FIN, or its socket is gone; unless the code was 1005
\* or 1006, which close() refuses.
THEOREM CloseForwarded == Spec => []CloseIsForwarded
<1>1. Init => IInv /\ PeersTold
  BY InitInv, InitTold
<1>2. IInv /\ PeersTold /\ [Next]_vars => IInv' /\ PeersTold'
  BY NextKeeps, NextTold
<1>3. IInv /\ PeersTold => CloseIsForwarded
  <2> SUFFICES ASSUME IInv, PeersTold, NEW e \in End, ep[e].readyState = "CLOSED"
               PROVE  /\ Closing(Other(e))
                      /\ Told(Other(e)) \/ ep[e].closeCode \in {NoStatus, Abnormal}
    BY DEF CloseIsForwarded
  <2> DEFINE o == ep[Other(e)]
  <2>1. Closing(Other(e))
    BY DEF IInv, ClosesTogether
  <2>2. Other(e) \in End /\ Other(Other(e)) = e
    BY OtherFacts
  <2>3. Warned(wire[Other(e)], o) \/ Unsayable(ep[e])
    BY <2>2 DEF PeersTold
  <2>4. CASE Warned(wire[Other(e)], o)
    BY <2>1, <2>4 DEF Warned, HasClose, Told, Out, Closing
  <2>5. CASE Unsayable(ep[e])
    BY <2>1, <2>5 DEF Unsayable
  <2>6. QED
    BY <2>3, <2>4, <2>5
<1>4. QED
  BY <1>1, <1>2, <1>3, PTL DEF Spec

\* The two connections and the queue always hold what their types say.
THEOREM TypeCorrect == Spec => []TypeOK
<1>1. IInv => TypeOK
  BY DEF IInv
<1>2. QED
  BY <1>1, Invariance, PTL

\* The close code handle() passes on is the one the other side gave, or none, or the
\* answer to a close frame or a protocol error: no code of the bridge's own.
THEOREM HonestClose == Spec => []CloseCodeIsHonest
<1>1. IInv => CloseCodeIsHonest
  <2> SUFFICES ASSUME IInv, NEW e \in End, NEW i \in 1..Len(Out(e)), Out(e)[i].op = "close"
               PROVE  Out(e)[i].val \in {NoStatus, ProtocolCode, ep[e].closeCode,
                                         ep[Other(e)].closeCode}
    BY DEF CloseCodeIsHonest
  <2>1. Out(e)[i].val \in Given
    BY DEF IInv, HonestCodes, CodesIn
  <2>2. QED
    BY <2>1, OtherFacts DEF Given
<1>2. QED
  BY <1>1, Invariance, PTL

\* queueData is never left behind while wsRemote is OPEN: the timer that 'open' armed
\* is still to come, and nothing is queued once it fired.
THEOREM QueueFlushed == Spec => []QueueHasAFlush
<1>1. IInv => QueueHasAFlush
  <2> SUFFICES ASSUME IInv, queueData # <<>>, ep["remote"].readyState # "CONNECTING",
                      flushTimer # "armed"
               PROVE  Closing("remote")
    BY DEF QueueHasAFlush
  <2>1. ep["remote"].readyState # "OPEN"
    BY DEF IInv, Timer, TypeOK
  <2>2. ep["remote"].readyState \in {"CONNECTING", "OPEN", "CLOSING", "CLOSED"}
    BY Sides DEF IInv, TypeOK, Connection
  <2>3. QED
    BY <2>1, <2>2 DEF Closing
<1>2. QED
  BY <1>1, Invariance, PTL

\* The destination's messages reach the client in order, none twice, and all of them
\* while ws is OPEN: ws.send() in the 'message' listener loses none.
THEOREM DownstreamInOrder == Spec => []DownstreamFaithful
<1>1. IInv => DownstreamFaithful
  <2> SUFFICES ASSUME IInv PROVE DownstreamFaithful
    OBVIOUS
  <2>1. Places("client") = Messages(Out("client")) /\ Sent("client") = Vals(Out("client"))
    BY DEF Places, Sent, Messages, Vals
  <2>2. Down(Out("client"), Values(emitted["remote"]), ep["client"].readyState = "OPEN")
    BY DEF IInv, Downstream
  <2>3. QED
    BY <2>1, <2>2 DEF Down, DownstreamFaithful
<1>2. QED
  BY <1>1, Invariance, PTL

LEMMA UpFacts ==
    ASSUME IInv
    PROVE  /\ Places("remote") = Messages(Out("remote"))
           /\ Sent("remote") = Vals(Out("remote"))
           /\ Up(Out("remote"), queueData, Values(emitted["client"]), queued,
                 flushTimer = "fired", ~Closing("remote"))
<1>1. Places("remote") = Messages(Out("remote")) /\ Sent("remote") = Vals(Out("remote"))
  BY DEF Places, Sent, Messages, Vals
<1>2. QED
  BY <1>1 DEF IInv, Upstream

\* The client's messages are sent or queued exactly once each, and none is lost before
\* wsRemote starts to close: send(), queueData.push() and the flush between them.
THEOREM UpstreamExactlyOnce == Spec => []UpstreamOnce
<1>1. IInv => UpstreamOnce
  <2> SUFFICES ASSUME IInv PROVE UpstreamOnce
    OBVIOUS
  <2>1. \A i, j \in Places("remote") :
           Out("remote")[i].val = Out("remote")[j].val => i = j
    BY UpFacts DEF Up
  <2>2. \A i, j \in 1..Len(queueData) : queueData[i] = queueData[j] => i = j
    <3>1. Len(queueData) \in Nat /\ \A i \in 1..Len(queueData) : queueData[i] \in Nat
      BY LenProperties, ElementOfSeq DEF IInv, TypeOK
    <3>2. \A i, j \in 1..Len(queueData) : i < j => queueData[i] < queueData[j]
      BY UpFacts DEF Up
    <3>3. QED
      BY <3>1, <3>2
  <2>3. /\ Sent("remote") \cap Values(queueData) = {}
        /\ ~Closing("remote") =>
              Sent("remote") \cup Values(queueData) = Values(emitted["client"])
    BY UpFacts DEF Up
  <2>4. QED
    BY <2>1, <2>2, <2>3 DEF UpstreamOnce
<1>2. QED
  BY <1>1, Invariance, PTL

\* A message of the client overtakes another only when the slower one waited in
\* queueData and the faster one was sent directly, in the second after 'open'.
THEOREM OvertakingOnlyQueued == Spec => []OvertakesOnlyQueued
<1>1. IInv => OvertakesOnlyQueued
  BY UpFacts DEF Up, OvertakesOnlyQueued
<1>2. QED
  BY <1>1, Invariance, PTL
=============================================================================
