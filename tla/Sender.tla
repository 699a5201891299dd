-------------------------------- MODULE Sender --------------------------------
(***************************************************************************)
(* The Sender of src/ws/lib/sender.js: one per WebSocket connection.  It   *)
(* turns the calls send(), ping(), pong() and close() into frames, has the *)
(* messages that need it compressed by permessage-deflate, one at a time,  *)
(* and queues every call made meanwhile so that frames leave in call order.*)
(*                                                                         *)
(* A frame is a record: what it carries is abstracted to its place in the  *)
(* history of calls; its length counts in _bufferedBytes.                  *)
(***************************************************************************)
EXTENDS Naturals, Sequences

CONSTANTS Size,           \* byte lengths a call's data may have
          Threshold,      \* perMessageDeflate._threshold
          Deflate,        \* permessage-deflate was negotiated
          NoTakeover,     \* params.{client,server}_no_context_takeover
          MaxCalls        \* bound on the number of calls of a behaviour

ASSUME SenderAssumption ==
    /\ Size \subseteq Nat
    /\ Threshold \in Nat
    /\ Deflate \in BOOLEAN
    /\ NoTakeover \in BOOLEAN
    /\ MaxCalls \in Nat

VARIABLES firstFragment,  \* _firstFragment
          compress,       \* _compress, the mode of the message being sent
          bufferedBytes,  \* _bufferedBytes
          deflating,      \* _deflating
          queue,          \* _queue: the frames waiting behind the compression
          current,        \* the frame being compressed: <<f>>, or <<>>
          destroyed,      \* socket.destroyed
          wire,           \* history: frames written to the socket
          failed,         \* history: frames whose callback got an error
          calls           \* history: one frame per call, in call order

vars == <<firstFragment, compress, bufferedBytes, deflating, queue, current,
          destroyed, wire, failed, calls>>

(***************************************************************************)
(* op: "ctl" for close, ping and pong (opcodes 8, 9, 10), "msg" for the    *)
(* first frame of a message (opcodes 1 and 2), "cont" for opcode 0.        *)
(* comp: the payload goes through deflate (the argument of dispatch).      *)
(***************************************************************************)
Frame == [op : {"ctl", "msg", "cont"}, fin : BOOLEAN, rsv1 : BOOLEAN,
          comp : BOOLEAN, size : Size, id : Nat]

TypeOK ==
    /\ firstFragment \in BOOLEAN
    /\ compress \in BOOLEAN
    /\ bufferedBytes \in Nat
    /\ deflating \in BOOLEAN
    /\ queue \in Seq(Frame)
    /\ current \in Seq(Frame)
    /\ destroyed \in BOOLEAN
    /\ wire \in Seq(Frame)
    /\ failed \in Seq(Frame)
    /\ calls \in Seq(Frame)

Init ==
    /\ firstFragment = TRUE
    /\ compress = FALSE
    /\ bufferedBytes = 0
    /\ deflating = FALSE
    /\ queue = <<>>
    /\ current = <<>>
    /\ destroyed = FALSE
    /\ wire = <<>>
    /\ failed = <<>>
    /\ calls = <<>>

\* The bytes of some frames.
Bytes(frames) ==
    LET upTo[n \in 0..Len(frames)] ==
            IF n = 0 THEN 0 ELSE upTo[n - 1] + frames[n].size
    IN  upTo[Len(frames)]

(***************************************************************************)
(* dispatch(): a frame that needs no compression is written, any other     *)
(* occupies the compressor.  `w` is the wire and `b` the byte count the    *)
(* caller has reached so far.                                              *)
(***************************************************************************)
Dispatch(f, w, b) ==
    IF f.comp
    THEN /\ wire' = w
         /\ bufferedBytes' = b + f.size
         /\ deflating' = TRUE
         /\ current' = <<f>>
    ELSE /\ wire' = Append(w, f)
         /\ bufferedBytes' = b
         /\ deflating' = FALSE
         /\ current' = <<>>

\* Mutant of Submit: a frame that needs no compression does not queue.
SubmitPlainAtOnce(f) ==
    /\ calls' = Append(calls, f)
    /\ IF deflating /\ f.comp
       THEN /\ queue' = Append(queue, f)
            /\ bufferedBytes' = bufferedBytes + f.size
            /\ UNCHANGED <<deflating, current, wire>>
       ELSE IF deflating
       THEN /\ wire' = Append(wire, f)
            /\ UNCHANGED <<queue, bufferedBytes, deflating, current>>
       ELSE /\ Dispatch(f, wire, bufferedBytes)
            /\ UNCHANGED queue

\* The tail of send(), ping(), pong() and close(): queue or go ahead.
Submit(f) ==
    /\ calls' = Append(calls, f)
    /\ IF deflating
       THEN /\ queue' = Append(queue, f)
            /\ bufferedBytes' = bufferedBytes + f.size
            /\ UNCHANGED <<deflating, current, wire>>
       ELSE /\ Dispatch(f, wire, bufferedBytes)
            /\ UNCHANGED queue

(***************************************************************************)
(* WebSocket calls the sender while the connection is OPEN only, and it is *)
(* never OPEN once its socket is destroyed (WebSocket!DestroyedNotOpen).   *)
(***************************************************************************)
MayCall == ~destroyed /\ Len(calls) < MaxCalls

\* close(), ping() and pong(): a control frame, never compressed; close() is
\* modelled without the refusal of an invalid status code, see WebSocketOps.
Control(size) ==
    /\ MayCall
    /\ Submit([op |-> "ctl", fin |-> TRUE, rsv1 |-> FALSE, comp |-> FALSE,
               size |-> size, id |-> Len(calls)])
    /\ UNCHANGED <<firstFragment, compress, destroyed, failed>>

\* Mutant of Send: every fragment decides for itself whether it is compressed.
SendFragmentDecides(size, fin, want) ==
    LET mode == IF want /\ Deflate /\ NoTakeover THEN size >= Threshold ELSE want
    IN  /\ MayCall
        /\ want => Deflate
        /\ compress' = mode
        /\ firstFragment' = fin
        /\ Submit([op |-> IF firstFragment THEN "msg" ELSE "cont", fin |-> fin,
                   rsv1 |-> firstFragment /\ mode, comp |-> mode /\ Deflate,
                   size |-> size, id |-> Len(calls)])
        /\ UNCHANGED <<destroyed, failed>>

\* send(data, {fin, compress: want}): the first fragment of a message decides
\* whether the message is compressed, the others follow it.
Send(size, fin, want) ==
    LET wanted == IF want /\ Deflate /\ NoTakeover
                  THEN size >= Threshold ELSE want
        mode   == IF firstFragment THEN wanted ELSE compress
    IN  /\ MayCall
        /\ want => Deflate                          \* WebSocket#send, line 464
        /\ compress' = mode
        /\ firstFragment' = fin
        /\ Submit([op |-> IF firstFragment THEN "msg" ELSE "cont", fin |-> fin,
                   rsv1 |-> firstFragment /\ mode, comp |-> mode /\ Deflate,
                   size |-> size, id |-> Len(calls)])
        /\ UNCHANGED <<destroyed, failed>>

\* Mutants of Dequeue: only one frame is taken from the queue; a frame that goes
\* to the compressor is counted twice.
DequeueOne(w, b) ==
    IF queue = <<>>
    THEN /\ wire' = w
         /\ bufferedBytes' = b
         /\ deflating' = FALSE
         /\ current' = <<>>
         /\ UNCHANGED queue
    ELSE /\ queue' = Tail(queue)
         /\ Dispatch(Head(queue), w, b - Head(queue).size)

DequeueCountsTwice(w, b) ==
    \E n \in 0..Len(queue) :
        /\ \A i \in 1..n : ~queue[i].comp
        /\ n < Len(queue) => queue[n + 1].comp
        /\ LET out  == w \o SubSeq(queue, 1, n)
               left == b - Bytes(SubSeq(queue, 1, n))
           IN  IF n < Len(queue)
               THEN /\ queue' = SubSeq(queue, n + 2, Len(queue))
                    /\ Dispatch(queue[n + 1], out, left)
               ELSE /\ queue' = <<>>
                    /\ wire' = out
                    /\ bufferedBytes' = left
                    /\ deflating' = FALSE
                    /\ current' = <<>>

(***************************************************************************)
(* dequeue(), entered with wire w and byte count b: the longest run of     *)
(* queued frames that need no compression is written, and the frame after  *)
(* it, if any, occupies the compressor.                                    *)
(***************************************************************************)
Dequeue(w, b) ==
    \E n \in 0..Len(queue) :
        /\ \A i \in 1..n : ~queue[i].comp
        /\ n < Len(queue) => queue[n + 1].comp
        /\ LET out  == w \o SubSeq(queue, 1, n)
               left == b - Bytes(SubSeq(queue, 1, n))
           IN  IF n < Len(queue)
               THEN /\ queue' = SubSeq(queue, n + 2, Len(queue))
                    /\ Dispatch(queue[n + 1], out, left - queue[n + 1].size)
               ELSE /\ queue' = <<>>
                    /\ wire' = out
                    /\ bufferedBytes' = left
                    /\ deflating' = FALSE
                    /\ current' = <<>>

\* The compress callback while the socket is alive.
Compressed ==
    /\ current # <<>>
    /\ ~destroyed
    /\ Dequeue(Append(wire, current[1]), bufferedBytes - current[1].size)
    /\ UNCHANGED <<firstFragment, compress, destroyed, failed, calls>>

\* Mutant of CompressedTooLate: the callbacks of the queue are forgotten.
CompressedTooLateForgets ==
    /\ current # <<>>
    /\ destroyed
    /\ failed' = current
    /\ current' = <<>>
    /\ UNCHANGED <<firstFragment, compress, bufferedBytes, deflating, queue,
                   destroyed, wire, calls>>

(***************************************************************************)
(* The compress callback after the socket was destroyed, called by zlib or *)
(* by the cleanup() of emitClose(): every callback gets an error.  The     *)
(* code clears neither _queue nor _deflating.                              *)
(***************************************************************************)
CompressedTooLate ==
    /\ current # <<>>
    /\ destroyed
    /\ failed' = current \o queue
    /\ current' = <<>>
    /\ UNCHANGED <<firstFragment, compress, bufferedBytes, deflating, queue,
                   destroyed, wire, calls>>

\* The socket is destroyed: an error, the close timer or terminate().
Destroy ==
    /\ ~destroyed
    /\ destroyed' = TRUE
    /\ UNCHANGED <<firstFragment, compress, bufferedBytes, deflating, queue,
                   current, wire, failed, calls>>

Next ==
    \/ \E s \in Size : Control(s)
    \/ \E s \in Size, fin \in BOOLEAN, want \in BOOLEAN : Send(s, fin, want)
    \/ Compressed
    \/ CompressedTooLate
    \/ Destroy

\* zlib answers, or cleanup() does in its place; calls are never forced.
Fairness == WF_vars(Compressed \/ CompressedTooLate)

Spec == Init /\ [][Next]_vars /\ Fairness

-----------------------------------------------------------------------------
(***************************************************************************)
(* Properties                                                              *)
(***************************************************************************)

\* Every call is, in call order, either written, being compressed, waiting, or
\* (after the socket died) failed: no frame overtakes another because it needs
\* no compression, none is lost, none is sent twice.
CallOrder ==
    IF failed = <<>> THEN wire \o (current \o queue) = calls
                     ELSE wire \o failed = calls

\* Calls wait only for a compression in progress: dequeue() leaves no frame
\* behind that nothing would ever take out again.
NoIdleQueue == queue # <<>> => deflating

\* One message is compressed at a time, and the flag that queues later calls is
\* up exactly while it is (it stays up when the socket died meanwhile).
OneCompression ==
    /\ Len(current) <= 1
    /\ deflating <=> current # <<>> \/ failed # <<>>
    /\ current # <<>> => current[1].comp

\* _bufferedBytes, which WebSocket#bufferedAmount reports, is the size of what
\* waits: a frame taken from the queue and compressed is counted once.
BufferedExact ==
    bufferedBytes = Bytes(current \o queue) + (IF failed = <<>> THEN 0
                        ELSE failed[1].size)

\* In s, frame k is the data frame before frame i.
Before(s, k, i) ==
    /\ k < i
    /\ s[k].op # "ctl"
    /\ \A m \in (k + 1)..(i - 1) : s[m].op = "ctl"

WellFormed(s) ==
    \A i \in 1..Len(s) : s[i].op # "ctl" =>
        /\ s[i].op = "cont" <=> \E k \in 1..Len(s) : Before(s, k, i) /\ ~s[k].fin
        /\ s[i].rsv1 <=> s[i].op = "msg" /\ s[i].comp
        /\ s[i].op = "cont" =>
              \A k \in 1..Len(s) : Before(s, k, i) => s[k].comp = s[i].comp

\* What the peer's receiver demands of the data frames (receiver.js 187-281):
\* continuation frames exactly after an unfinished frame, RSV1 on the first
\* frame of a compressed message only, and one compression mode per message,
\* although control frames and other calls come between its fragments.
WireWellFormed == WellFormed(wire)

\* Every call is written or its callback is told that it failed: nothing waits
\* for ever behind a compression, with the socket alive or destroyed.
EveryCallEnds ==
    \A n \in 1..MaxCalls : (Len(calls) >= n) ~> (Len(wire) + Len(failed) >= n)
=============================================================================
