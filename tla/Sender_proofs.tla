---------------------------- MODULE Sender_proofs ----------------------------
(***************************************************************************)
(* Proofs about Sender, for every number of calls, every size and every    *)
(* setting of permessage-deflate.                                          *)
(***************************************************************************)
EXTENDS Sender, SequenceTheorems, WellFoundedInduction, TLAPS

\* TypeOK without the byte count.
FrameTypes ==
    /\ firstFragment \in BOOLEAN /\ compress \in BOOLEAN
    /\ deflating \in BOOLEAN /\ destroyed \in BOOLEAN
    /\ queue \in Seq(Frame) /\ current \in Seq(Frame)
    /\ wire \in Seq(Frame) /\ failed \in Seq(Frame) /\ calls \in Seq(Frame)

\* A failed compression is the last one.
FailedIsFinal ==
    failed # <<>> => destroyed /\ current = <<>>

(***************************************************************************)
(* The queue is what the flag says: this is the part of the inductive      *)
(* invariant about order.                                                  *)
(***************************************************************************)
OrderInv ==
    /\ FrameTypes
    /\ CallOrder
    /\ NoIdleQueue
    /\ OneCompression
    /\ FailedIsFinal

LEMMA InitOrderInv == Init => OrderInv
<1> SUFFICES ASSUME Init PROVE OrderInv
  OBVIOUS
<1>1. <<>> \in Seq(Frame) /\ Len(<<>>) = 0
  BY EmptySeq
<1>2. <<>> \o (<<>> \o <<>>) = <<>>
  BY <1>1, ConcatEmptySeq
<1>3. FrameTypes
  BY <1>1 DEF Init, FrameTypes
<1>4. CallOrder
  BY <1>2 DEF Init, CallOrder
<1>5. NoIdleQueue /\ FailedIsFinal
  BY DEF Init, NoIdleQueue, FailedIsFinal
<1>6. OneCompression
  <2>1. Len(current) <= 1
    BY <1>1 DEF Init
  <2>2. current = <<>> /\ failed = <<>> /\ deflating = FALSE
    BY DEF Init
  <2>3. QED
    BY <2>1, <2>2 DEF OneCompression
<1>7. QED
  BY <1>3, <1>4, <1>5, <1>6 DEF OrderInv

\* A sequence of at most one frame is empty or a singleton.
LEMMA AtMostOne ==
    ASSUME NEW s \in Seq(Frame), Len(s) <= 1, s # <<>>
    PROVE  s = <<s[1]>> /\ s[1] \in Frame /\ Len(s) = 1
<1>1. Len(s) = 1
  BY EmptySeq
<1>2. s[1] \in Frame
  BY <1>1, ElementOfSeq
<1>3. QED
  BY <1>1, <1>2, SeqEqual, <<s[1]>> \in Seq(Frame), Len(<<s[1]>>) = 1

\* The frame Submit was given is appended to what is written, being compressed
\* or waiting, whichever way it goes.
LEMMA SubmitKeepsOrder ==
    ASSUME OrderInv, NEW f \in Frame, Submit(f),
           ~destroyed, UNCHANGED <<destroyed, failed>>,
           firstFragment' \in BOOLEAN, compress' \in BOOLEAN
    PROVE  OrderInv'
<1>1. /\ queue \in Seq(Frame) /\ current \in Seq(Frame) /\ wire \in Seq(Frame)
      /\ calls \in Seq(Frame) /\ deflating \in BOOLEAN
  BY DEF OrderInv, FrameTypes
<1>2. failed = <<>> /\ wire \o (current \o queue) = calls
  BY DEF OrderInv, FailedIsFinal, CallOrder
<1>3. calls' = calls \o <<f>> /\ calls' \in Seq(Frame)
  BY <1>1, AppendIsConcat, AppendProperties DEF Submit
<1>4. CASE deflating
  <2>1. /\ queue' = Append(queue, f) /\ deflating' = deflating
        /\ current' = current /\ wire' = wire
    BY <1>4 DEF Submit
  <2>2. queue' = queue \o <<f>> /\ queue' \in Seq(Frame)
    BY <1>1, <2>1, AppendIsConcat, AppendProperties
  <2>3. wire \o (current \o (queue \o <<f>>)) = (wire \o (current \o queue)) \o <<f>>
    BY <1>1, ConcatAssociative, ConcatProperties
  <2>4. QED
    BY <1>1, <1>2, <1>3, <1>4, <2>1, <2>2, <2>3
    DEF OrderInv, FrameTypes, CallOrder, NoIdleQueue, OneCompression, FailedIsFinal
<1>5. CASE ~deflating
  <2>1. queue = <<>> /\ current = <<>>
    BY <1>5 DEF OrderInv, NoIdleQueue, OneCompression
  <2>2. wire = calls
    BY <1>1, <1>2, <2>1, ConcatEmptySeq
  <2>3. queue' = queue /\ Dispatch(f, wire, bufferedBytes)
    BY <1>5 DEF Submit
  <2>4. <<f>> \in Seq(Frame) /\ Len(<<f>>) = 1 /\ <<f>> # <<>> /\ <<f>>[1] = f
    OBVIOUS
  <2>5. CASE f.comp
    <3>1. wire' = wire /\ deflating' = TRUE /\ current' = <<f>>
      BY <2>3, <2>5 DEF Dispatch
    <3>2. wire' \o (current' \o queue') = calls'
      BY <1>1, <1>3, <2>1, <2>2, <2>3, <2>4, <3>1, ConcatEmptySeq
    <3>3. QED
      BY <1>1, <1>2, <1>3, <2>1, <2>3, <2>4, <2>5, <3>1, <3>2
      DEF OrderInv, FrameTypes, CallOrder, NoIdleQueue, OneCompression, FailedIsFinal
  <2>6. CASE ~f.comp
    <3>1. wire' = Append(wire, f) /\ deflating' = FALSE /\ current' = <<>>
      BY <2>3, <2>6 DEF Dispatch
    <3>2. wire' = calls' /\ wire' \in Seq(Frame)
      BY <1>1, <1>3, <2>2, <3>1, AppendIsConcat
    <3>3. wire' \o (current' \o queue') = calls'
      BY <2>1, <2>3, <3>1, <3>2, ConcatEmptySeq
    <3>4. Len(<<>>) = 0 /\ <<>> \in Seq(Frame)
      BY EmptySeq
    <3>5. QED
      BY <1>1, <1>2, <1>3, <2>1, <2>3, <3>1, <3>2, <3>3, <3>4
      DEF OrderInv, FrameTypes, CallOrder, NoIdleQueue, OneCompression, FailedIsFinal
  <2>7. QED
    BY <2>5, <2>6
<1>6. QED
  BY <1>1, <1>4, <1>5

LEMMA ControlKeepsOrder ==
    ASSUME OrderInv, NEW s \in Size, Control(s)
    PROVE  OrderInv'
<1> DEFINE f == [op |-> "ctl", fin |-> TRUE, rsv1 |-> FALSE, comp |-> FALSE,
                 size |-> s, id |-> Len(calls)]
<1>1. f \in Frame
  BY LenProperties DEF Frame, OrderInv, FrameTypes
<1>2. /\ Submit(f) /\ ~destroyed
      /\ UNCHANGED <<firstFragment, compress, destroyed, failed>>
  BY DEF Control, MayCall
<1>3. firstFragment' \in BOOLEAN /\ compress' \in BOOLEAN
  BY <1>2 DEF OrderInv, FrameTypes
<1> HIDE DEF f
<1>4. QED
  BY <1>1, <1>2, <1>3, SubmitKeepsOrder

LEMMA SendKeepsOrder ==
    ASSUME OrderInv, NEW s \in Size, NEW fin \in BOOLEAN, NEW want \in BOOLEAN,
           Send(s, fin, want)
    PROVE  OrderInv'
<1> DEFINE wanted == IF want /\ Deflate /\ NoTakeover THEN s >= Threshold ELSE want
           mode == IF firstFragment THEN wanted ELSE compress
           f == [op |-> IF firstFragment THEN "msg" ELSE "cont", fin |-> fin,
                 rsv1 |-> firstFragment /\ mode, comp |-> mode /\ Deflate,
                 size |-> s, id |-> Len(calls)]
<1>1. firstFragment \in BOOLEAN /\ compress \in BOOLEAN /\ calls \in Seq(Frame)
  BY DEF OrderInv, FrameTypes
<1>2. wanted \in BOOLEAN
  <2>1. CASE want /\ Deflate /\ NoTakeover
    BY <2>1
  <2>2. CASE ~(want /\ Deflate /\ NoTakeover)
    BY <2>2
  <2>3. QED
    BY <2>1, <2>2
<1>3. mode \in BOOLEAN
  BY <1>1, <1>2
<1> HIDE DEF wanted
<1>4. f \in Frame
  BY <1>1, <1>3, SenderAssumption, LenProperties DEF Frame
<1>5. /\ Submit(f) /\ ~destroyed /\ UNCHANGED <<destroyed, failed>>
      /\ firstFragment' = fin /\ compress' = mode
  BY DEF Send, MayCall, wanted
<1> HIDE DEF mode, f
<1>6. QED
  BY <1>3, <1>4, <1>5, SubmitKeepsOrder

\* The run of frames dequeue() writes, the frame it hands to the compressor and
\* what it leaves are the old queue, cut in order.
LEMMA DequeueKeepsOrder ==
    ASSUME FrameTypes, NEW w \in Seq(Frame), NEW b,
           Dequeue(w, b)
    PROVE  /\ queue' \in Seq(Frame) /\ current' \in Seq(Frame)
           /\ wire' \in Seq(Frame) /\ deflating' \in BOOLEAN
           /\ wire' \o (current' \o queue') = w \o queue
           /\ queue' # <<>> => deflating'
           /\ Len(current') <= 1
           /\ deflating' <=> current' # <<>>
           /\ current' # <<>> => current'[1].comp
<1>0. queue \in Seq(Frame) /\ Len(queue) \in Nat
  BY LenProperties DEF FrameTypes
<1>1. PICK n \in 0..Len(queue) :
        /\ n < Len(queue) => queue[n + 1].comp
        /\ LET out  == w \o SubSeq(queue, 1, n)
               left == b - Bytes(SubSeq(queue, 1, n))
           IN  IF n < Len(queue)
               THEN /\ queue' = SubSeq(queue, n + 2, Len(queue))
                    /\ Dispatch(queue[n + 1], out, left - queue[n + 1].size)
               ELSE /\ queue' = <<>>
                    /\ wire' = out
                    /\ bufferedBytes' = left
                    /\ deflating' = FALSE
                    /\ current' = <<>>
  BY DEF Dequeue
<1> DEFINE pre == SubSeq(queue, 1, n)
<1>2. pre \in Seq(Frame) /\ w \o pre \in Seq(Frame)
  <2>1. \A i \in 1..n : queue[i] \in Frame
    BY <1>0, ElementOfSeq
  <2>2. pre \in Seq(Frame)
    BY <1>0, <2>1, SubSeqProperties
  <2>3. QED
    BY <2>2, ConcatProperties
<1>3. CASE n < Len(queue)
  <2> DEFINE post == SubSeq(queue, n + 2, Len(queue))
             h == queue[n + 1]
  <2>1. n + 1 \in 1..Len(queue)
    BY <1>0, <1>3
  <2>2. h \in Frame /\ h.comp
    BY <1>0, <1>1, <1>3, <2>1, ElementOfSeq
  <2>3. post \in Seq(Frame)
    <3>1. \A i \in n + 2 .. Len(queue) : queue[i] \in Frame
      BY <1>0, ElementOfSeq
    <3>2. QED
      BY <1>0, <3>1, SubSeqProperties
  <2>4. queue' = post /\ wire' = w \o pre /\ deflating' = TRUE /\ current' = <<h>>
    BY <1>1, <1>3, <2>2 DEF Dispatch
  <2>5. pre \o SubSeq(queue, n + 1, Len(queue)) = queue
    <3>1. 1 \in 1..Len(queue) + 1 /\ n \in 1 - 1 .. Len(queue)
          /\ Len(queue) \in n..Len(queue)
      BY <1>0
    <3>2. pre \o SubSeq(queue, n + 1, Len(queue)) = SubSeq(queue, 1, Len(queue))
      BY <1>0, <3>1, ConcatAdjacentSubSeq
    <3>3. QED
      BY <1>0, <3>2, SubSeqFull
  <2>6. SubSeq(queue, n + 1, Len(queue)) = <<h>> \o post
    <3>1. Len(queue) \in n + 1 .. Len(queue) /\ (n + 1) + 1 = n + 2
      BY <1>0, <2>1
    <3>2. SubSeq(queue, n + 1, Len(queue)) = <<h>> \o SubSeq(queue, (n + 1) + 1, Len(queue))
      BY <1>0, <2>1, <3>1, SubSeqRecursiveFirst
    <3>3. QED
      BY <3>1, <3>2
  <2>7. <<h>> \in Seq(Frame) /\ Len(<<h>>) = 1 /\ <<h>> # <<>> /\ <<h>>[1] = h
    BY <2>2
  <2> HIDE DEF pre, post, h
  <2>8. (w \o pre) \o (<<h>> \o post) = w \o queue
    <3>1. <<h>> \o post \in Seq(Frame)
      BY <2>3, <2>7, ConcatProperties
    <3>2. (w \o pre) \o (<<h>> \o post) = w \o (pre \o (<<h>> \o post))
      BY SMTT(40), <1>2, <3>1, ConcatAssociative
    <3>3. QED
      BY <2>5, <2>6, <3>2
  <2>9. wire' \o (current' \o queue') = w \o queue
    BY <2>4, <2>8
  <2>10. deflating' \in BOOLEAN /\ deflating' /\ current' # <<>>
    BY <2>4, <2>7
  <2>11. Len(current') <= 1 /\ current'[1].comp /\ current' \in Seq(Frame)
    BY <2>2, <2>4, <2>7
  <2>12. queue' \in Seq(Frame) /\ wire' \in Seq(Frame)
    BY <1>2, <2>3, <2>4
  <2>13. QED
    BY <2>9, <2>10, <2>11, <2>12
<1>4. CASE n = Len(queue)
  <2>1. pre = queue
    BY <1>0, <1>4, SubSeqFull
  <2>2. queue' = <<>> /\ wire' = w \o pre /\ deflating' = FALSE /\ current' = <<>>
    BY <1>0, <1>1, <1>4
  <2>3. <<>> \in Seq(Frame) /\ Len(<<>>) = 0
    BY EmptySeq
  <2>4. wire' \o (current' \o queue') = wire'
    BY <1>2, <2>2, <2>3, ConcatEmptySeq
  <2>5. w \o pre = w \o queue
    BY <2>1
  <2> HIDE DEF pre
  <2>6. wire' \o (current' \o queue') = w \o queue
    BY <2>2, <2>4, <2>5
  <2>7. /\ queue' \in Seq(Frame) /\ current' \in Seq(Frame) /\ wire' \in Seq(Frame)
        /\ Len(current') <= 1
    BY <1>2, <2>2, <2>3
  <2>8. deflating' \in BOOLEAN /\ ~deflating' /\ current' = <<>> /\ queue' = <<>>
    BY <2>2
  <2>9. QED
    BY <2>6, <2>7, <2>8
<1>5. n < Len(queue) \/ n = Len(queue)
  BY <1>0
<1>6. QED
  BY <1>3, <1>4, <1>5

LEMMA CompressedKeepsOrder ==
    ASSUME OrderInv, Compressed
    PROVE  OrderInv'
<1> DEFINE c == current[1]
           w == Append(wire, c)
<1>1. /\ queue \in Seq(Frame) /\ current \in Seq(Frame) /\ wire \in Seq(Frame)
      /\ calls \in Seq(Frame) /\ FrameTypes
  BY DEF OrderInv, FrameTypes
<1>2. current = <<c>> /\ c \in Frame
  BY <1>1, AtMostOne DEF Compressed, OrderInv, OneCompression
<1>3. failed = <<>> /\ wire \o (current \o queue) = calls
  BY DEF OrderInv, FailedIsFinal, CallOrder, Compressed
<1>4. w \in Seq(Frame) /\ w = wire \o <<c>>
  BY <1>1, <1>2, AppendProperties, AppendIsConcat
<1>5. w \o queue = calls
  <2>1. <<c>> \in Seq(Frame)
    BY <1>1, <1>2
  <2>2. (wire \o <<c>>) \o queue = wire \o (<<c>> \o queue)
    BY <1>1, <2>1, ConcatAssociative
  <2>3. current \o queue = <<c>> \o queue
    BY <1>2
  <2>4. QED
    BY <1>3, <1>4, <2>2, <2>3
<1>6. /\ Dequeue(w, bufferedBytes - c.size)
      /\ UNCHANGED <<firstFragment, compress, destroyed, failed, calls>>
  BY DEF Compressed
<1> HIDE DEF c, w
<1>7. /\ queue' \in Seq(Frame) /\ current' \in Seq(Frame)
      /\ wire' \in Seq(Frame) /\ deflating' \in BOOLEAN
      /\ wire' \o (current' \o queue') = w \o queue
      /\ queue' # <<>> => deflating'
      /\ Len(current') <= 1
      /\ deflating' <=> current' # <<>>
      /\ current' # <<>> => current'[1].comp
  BY <1>1, <1>4, <1>6, DequeueKeepsOrder
<1>8. QED
  BY <1>3, <1>5, <1>6, <1>7
  DEF OrderInv, FrameTypes, CallOrder, NoIdleQueue, OneCompression, FailedIsFinal

LEMMA TooLateKeepsOrder ==
    ASSUME OrderInv, CompressedTooLate
    PROVE  OrderInv'
<1>1. /\ queue \in Seq(Frame) /\ current \in Seq(Frame) /\ wire \in Seq(Frame)
  BY DEF OrderInv, FrameTypes
<1>2. current # <<>> /\ failed = <<>> /\ destroyed
  BY DEF OrderInv, FailedIsFinal, CompressedTooLate
<1>3. /\ failed' = current \o queue /\ current' = <<>>
      /\ UNCHANGED <<firstFragment, compress, deflating, queue, destroyed, wire, calls>>
  BY DEF CompressedTooLate
<1>4. failed' # <<>> /\ failed' \in Seq(Frame)
  BY <1>1, <1>2, <1>3, ConcatEqualIffEmpty, ConcatProperties
<1>5. wire' \o failed' = calls'
  BY <1>2, <1>3 DEF OrderInv, CallOrder
<1>6. <<>> \in Seq(Frame) /\ Len(<<>>) = 0
  BY EmptySeq
<1>7. QED
  BY <1>2, <1>3, <1>4, <1>5, <1>6
  DEF OrderInv, FrameTypes, CallOrder, NoIdleQueue, OneCompression, FailedIsFinal

LEMMA OrderInvariant == Spec => []OrderInv
<1>1. OrderInv /\ [Next]_vars => OrderInv'
  <2> SUFFICES ASSUME OrderInv, [Next]_vars PROVE OrderInv'
    OBVIOUS
  <2>1. ASSUME NEW s \in Size, Control(s) PROVE OrderInv'
    BY <2>1, ControlKeepsOrder
  <2>2. ASSUME NEW s \in Size, NEW fin \in BOOLEAN, NEW want \in BOOLEAN,
               Send(s, fin, want)
        PROVE  OrderInv'
    BY <2>2, SendKeepsOrder
  <2>3. CASE Compressed
    BY <2>3, CompressedKeepsOrder
  <2>4. CASE CompressedTooLate
    BY <2>4, TooLateKeepsOrder
  <2>5. CASE Destroy
    BY <2>5 DEF Destroy, OrderInv, FrameTypes, CallOrder, NoIdleQueue,
                OneCompression, FailedIsFinal
  <2>6. CASE UNCHANGED vars
    BY <2>6 DEF vars, OrderInv, FrameTypes, CallOrder, NoIdleQueue,
                OneCompression, FailedIsFinal
  <2>7. QED
    BY <2>1, <2>2, <2>3, <2>4, <2>5, <2>6 DEF Next
<1>2. QED
  BY InitOrderInv, <1>1, PTL DEF Spec

\* Frames leave in call order, none lost, none sent twice, however compression,
\* control frames and the death of the socket interleave.
THEOREM SenderKeepsOrder == Spec => []CallOrder
<1>1. OrderInv => CallOrder
  BY DEF OrderInv
<1>2. QED
  BY OrderInvariant, <1>1, PTL

\* Nothing waits without a compression that will take it out of the queue.
THEOREM QueueIsServed == Spec => []NoIdleQueue
<1>1. OrderInv => NoIdleQueue
  BY DEF OrderInv
<1>2. QED
  BY OrderInvariant, <1>1, PTL

\* At most one message is in the compressor, and _deflating says so.
THEOREM OneAtATime == Spec => []OneCompression
<1>1. OrderInv => OneCompression
  BY DEF OrderInv
<1>2. QED
  BY OrderInvariant, <1>1, PTL

\* Where the calls leave the message: a message is open (firstFragment is down)
\* exactly after an unfinished fragment, and compress is that fragment's mode.
OpenAt(s, first, mode) ==
    /\ \A k \in 1..Len(s) : Before(s, k, Len(s) + 1) =>
          /\ s[k].fin = first
          /\ ~first => s[k].comp = (mode /\ Deflate)
    /\ ~first => \E k \in 1..Len(s) : Before(s, k, Len(s) + 1)

(***************************************************************************)
(* The wire alone is not inductive: what the next fragment may be depends  *)
(* on the frames still in the queue.  The history of all calls is.         *)
(***************************************************************************)
FragInv == WellFormed(calls) /\ OpenAt(calls, firstFragment, compress)

\* The frames before the last do not notice that it was appended.
LEMMA BeforeAppend ==
    ASSUME NEW s \in Seq(Frame), NEW f \in Frame,
           NEW k \in 1..Len(s), NEW i \in 1..(Len(s) + 1)
    PROVE  Before(Append(s, f), k, i) <=> Before(s, k, i)
<1> DEFINE t == Append(s, f)
<1>1. Len(s) \in Nat /\ \A m \in 1..Len(s) : t[m] = s[m]
  BY AppendProperties, LenProperties
<1>2. \A m \in (k + 1)..(i - 1) : m \in 1..Len(s)
  BY <1>1
<1> HIDE DEF t
<1>3. Before(t, k, i) <=> Before(s, k, i)
  BY <1>1, <1>2 DEF Before
<1>4. QED
  BY <1>3 DEF t

\* A frame that fits the calls made so far keeps them well formed.
LEMMA AppendWellFormed ==
    ASSUME NEW s \in Seq(Frame), NEW f \in Frame, WellFormed(s),
           f.op # "ctl" =>
              /\ f.op = "cont" <=>
                    \E k \in 1..Len(s) : Before(s, k, Len(s) + 1) /\ ~s[k].fin
              /\ f.rsv1 <=> f.op = "msg" /\ f.comp
              /\ f.op = "cont" => \A k \in 1..Len(s) :
                    Before(s, k, Len(s) + 1) => s[k].comp = f.comp
    PROVE  WellFormed(Append(s, f))
<1> DEFINE t == Append(s, f)
           n == Len(s)
<1>1. /\ n \in Nat /\ Len(t) = n + 1 /\ t[n + 1] = f
      /\ \A m \in 1..n : t[m] = s[m]
  BY AppendProperties, LenProperties
<1>2. \A k \in 1..n, i \in 1..(n + 1) : Before(t, k, i) <=> Before(s, k, i)
  BY BeforeAppend
<1>3. \A i \in 1..(n + 1) : ~Before(t, n + 1, i)
  BY <1>1 DEF Before
<1>4. \A k \in 1..(n + 1) : k \in 1..n \/ k = n + 1
  BY <1>1
<1> HIDE DEF t
<1>5. SUFFICES ASSUME NEW i \in 1..(n + 1), t[i].op # "ctl"
               PROVE  /\ t[i].op = "cont" <=>
                            \E k \in 1..(n + 1) : Before(t, k, i) /\ ~t[k].fin
                      /\ t[i].rsv1 <=> t[i].op = "msg" /\ t[i].comp
                      /\ t[i].op = "cont" => \A k \in 1..(n + 1) :
                            Before(t, k, i) => t[k].comp = t[i].comp
  BY <1>1 DEF WellFormed, t
<1>6. \A k \in 1..(n + 1) : Before(t, k, i) =>
         k \in 1..n /\ Before(s, k, i) /\ t[k] = s[k]
  BY <1>1, <1>2, <1>3, <1>4
<1>7. \A k \in 1..n : Before(s, k, i) =>
         k \in 1..(n + 1) /\ Before(t, k, i) /\ t[k] = s[k]
  BY <1>1, <1>2, <1>4
<1>8. CASE i \in 1..n
  <2>1. t[i] = s[i] /\ s[i].op # "ctl"
    BY <1>1, <1>5, <1>8
  <2>2. /\ s[i].op = "cont" <=> \E k \in 1..n : Before(s, k, i) /\ ~s[k].fin
        /\ s[i].rsv1 <=> s[i].op = "msg" /\ s[i].comp
        /\ s[i].op = "cont" => \A k \in 1..n : Before(s, k, i) => s[k].comp = s[i].comp
    BY <1>8, <2>1 DEF WellFormed
  <2> HIDE DEF n
  <2>3. QED
    BY <1>6, <1>7, <2>1, <2>2
<1>9. CASE i = n + 1
  <2>1. t[i] = f /\ f.op # "ctl"
    BY <1>1, <1>5, <1>9
  <2>2. /\ f.op = "cont" <=> \E k \in 1..n : Before(s, k, i) /\ ~s[k].fin
        /\ f.rsv1 <=> f.op = "msg" /\ f.comp
        /\ f.op = "cont" => \A k \in 1..n : Before(s, k, i) => s[k].comp = f.comp
    BY <1>9, <2>1
  <2> HIDE DEF n
  <2>3. QED
    BY <1>6, <1>7, <2>1, <2>2
<1>10. QED
  BY <1>4, <1>5, <1>8, <1>9

\* A prefix of a well-formed sequence of frames is well formed.
LEMMA PrefixWellFormed ==
    ASSUME NEW s \in Seq(Frame), NEW r \in Seq(Frame), WellFormed(s \o r)
    PROVE  WellFormed(s)
<1> DEFINE t == s \o r
           n == Len(s)
<1>1. n \in Nat /\ Len(r) \in Nat /\ Len(t) = n + Len(r)
  BY ConcatProperties, LenProperties
<1>2. \A m \in 1..n : m \in 1..Len(t) /\ t[m] = s[m]
  BY <1>1, ConcatProperties
<1> HIDE DEF t
<1>3. \A k \in 1..n, i \in 1..n : Before(t, k, i) <=> Before(s, k, i)
  <2> TAKE k \in 1..n, i \in 1..n
  <2>1. \A m \in (k + 1)..(i - 1) : m \in 1..n
    BY <1>1
  <2>2. QED
    BY <1>2, <2>1 DEF Before
<1>4. \A i \in 1..n, k \in 1..Len(t) : Before(t, k, i) => k \in 1..n
  BY <1>1 DEF Before
<1>5. SUFFICES ASSUME NEW i \in 1..n, s[i].op # "ctl"
               PROVE  /\ s[i].op = "cont" <=>
                            \E k \in 1..n : Before(s, k, i) /\ ~s[k].fin
                      /\ s[i].rsv1 <=> s[i].op = "msg" /\ s[i].comp
                      /\ s[i].op = "cont" => \A k \in 1..n :
                            Before(s, k, i) => s[k].comp = s[i].comp
  BY DEF WellFormed
<1>6. i \in 1..Len(t) /\ t[i] = s[i]
  BY <1>2
<1>7. /\ t[i].op = "cont" <=> \E k \in 1..Len(t) : Before(t, k, i) /\ ~t[k].fin
      /\ t[i].rsv1 <=> t[i].op = "msg" /\ t[i].comp
      /\ t[i].op = "cont" => \A k \in 1..Len(t) : Before(t, k, i) => t[k].comp = t[i].comp
  BY <1>5, <1>6 DEF WellFormed, t
<1> HIDE DEF n
<1>8. QED
  BY <1>2, <1>3, <1>4, <1>6, <1>7

LEMMA InitFragInv == Init => FragInv
<1> SUFFICES ASSUME Init PROVE FragInv
  OBVIOUS
<1>1. calls = <<>> /\ Len(calls) = 0 /\ firstFragment = TRUE
  BY EmptySeq DEF Init
<1>2. 1..Len(calls) = {}
  BY <1>1
<1>3. QED
  BY <1>1, <1>2 DEF FragInv, WellFormed, OpenAt

\* A control frame leaves the message open or closed, as it was.
LEMMA ControlKeepsFrag ==
    ASSUME OrderInv, FragInv, NEW z \in Size, Control(z)
    PROVE  FragInv'
<1> DEFINE f == [op |-> "ctl", fin |-> TRUE, rsv1 |-> FALSE, comp |-> FALSE,
                 size |-> z, id |-> Len(calls)]
           n == Len(calls)
           t == Append(calls, f)
<1>1. calls \in Seq(Frame) /\ f \in Frame /\ f.op = "ctl"
  BY LenProperties DEF Frame, OrderInv, FrameTypes
<1>2. calls' = t /\ firstFragment' = firstFragment /\ compress' = compress
  BY DEF Control, Submit
<1> HIDE DEF f
<1>3. WellFormed(t)
  BY <1>1, AppendWellFormed DEF FragInv
<1>4. /\ n \in Nat /\ Len(t) = n + 1 /\ t[n + 1] = f
      /\ \A m \in 1..n : t[m] = calls[m]
  BY <1>1, AppendProperties, LenProperties
<1>5. \A k \in 1..n : Before(t, k, n + 1) <=> Before(calls, k, n + 1)
  BY <1>1, <1>4, BeforeAppend
<1> HIDE DEF t
<1>6. \A k \in 1..(n + 1) : Before(t, k, n + 2) =>
         k \in 1..n /\ Before(calls, k, n + 1) /\ t[k] = calls[k]
  BY <1>1, <1>4, <1>5 DEF Before
<1>7. \A k \in 1..n : Before(calls, k, n + 1) =>
         k \in 1..(n + 1) /\ Before(t, k, n + 2)
  <2> SUFFICES ASSUME NEW k \in 1..n, Before(t, k, n + 1)
               PROVE  k \in 1..(n + 1) /\ Before(t, k, n + 2)
    BY <1>5
  <2>1. \A m \in (k + 1)..(n + 2 - 1) : m = n + 1 \/ m \in (k + 1)..(n + 1 - 1)
    BY <1>4
  <2>2. QED
    BY <1>1, <1>4, <2>1 DEF Before
<1>8. OpenAt(calls, firstFragment, compress)
  BY DEF FragInv
<1>9. OpenAt(t, firstFragment, compress)
  <2>1. Len(t) + 1 = n + 2 /\ Len(t) = n + 1
    BY <1>4
  <2>2. /\ \A k \in 1..n : Before(calls, k, n + 1) =>
              /\ calls[k].fin = firstFragment
              /\ ~firstFragment => calls[k].comp = (compress /\ Deflate)
        /\ ~firstFragment => \E k \in 1..n : Before(calls, k, n + 1)
    BY <1>8 DEF OpenAt
  <2> HIDE DEF n
  <2>3. QED
    BY <1>6, <1>7, <2>1, <2>2 DEF OpenAt
<1>10. QED
  BY <1>2, <1>3, <1>9 DEF FragInv

\* A data frame continues the open message in its mode, or starts one.
LEMMA SendKeepsFrag ==
    ASSUME OrderInv, FragInv, NEW z \in Size, NEW fin \in BOOLEAN,
           NEW want \in BOOLEAN, Send(z, fin, want)
    PROVE  FragInv'
<1> DEFINE wanted == IF want /\ Deflate /\ NoTakeover THEN z >= Threshold ELSE want
           mode == IF firstFragment THEN wanted ELSE compress
           f == [op |-> IF firstFragment THEN "msg" ELSE "cont", fin |-> fin,
                 rsv1 |-> firstFragment /\ mode, comp |-> mode /\ Deflate,
                 size |-> z, id |-> Len(calls)]
           n == Len(calls)
           t == Append(calls, f)
<1>1. firstFragment \in BOOLEAN /\ compress \in BOOLEAN /\ calls \in Seq(Frame)
  BY DEF OrderInv, FrameTypes
<1>2. calls' = t /\ firstFragment' = fin /\ compress' = mode /\ (want => Deflate)
  BY DEF Send, Submit
<1>3. wanted \in BOOLEAN /\ (wanted => Deflate)
  <2>1. CASE want /\ Deflate /\ NoTakeover
    BY <2>1
  <2>2. CASE ~(want /\ Deflate /\ NoTakeover)
    BY <1>2, <2>2
  <2>3. QED
    BY <2>1, <2>2
<1> HIDE DEF wanted
<1>4. mode \in BOOLEAN
  BY <1>1, <1>3
<1>5. f \in Frame
  BY <1>1, <1>4, SenderAssumption, LenProperties DEF Frame
<1>6. /\ f.op = (IF firstFragment THEN "msg" ELSE "cont") /\ f.fin = fin
      /\ f.rsv1 = (firstFragment /\ mode) /\ f.comp = (mode /\ Deflate)
  OBVIOUS
<1>7. firstFragment => (mode => Deflate)
  BY <1>3
<1>8. ~firstFragment => mode = compress
  OBVIOUS
<1> HIDE DEF mode, f
<1>9. WellFormed(calls) /\ OpenAt(calls, firstFragment, compress)
  BY DEF FragInv
<1>10. WellFormed(t)
  <2>1. f.op # "ctl"
    BY <1>6
  <2>2. f.op = "cont" <=> \E k \in 1..n : Before(calls, k, n + 1) /\ ~calls[k].fin
    BY <1>1, <1>6, <1>9 DEF OpenAt
  <2>3. f.rsv1 <=> f.op = "msg" /\ f.comp
    BY <1>1, <1>4, <1>6, <1>7, SenderAssumption
  <2>4. f.op = "cont" => \A k \in 1..n :
           Before(calls, k, n + 1) => calls[k].comp = f.comp
    BY <1>1, <1>6, <1>8, <1>9 DEF OpenAt
  <2>5. QED
    BY <1>1, <1>5, <1>9, <2>1, <2>2, <2>3, <2>4, AppendWellFormed
<1>11. /\ n \in Nat /\ Len(t) = n + 1 /\ t[n + 1] = f
  BY <1>1, <1>5, AppendProperties, LenProperties
<1> HIDE DEF t
<1>12. \A k \in 1..(n + 1) : Before(t, k, n + 2) => k = n + 1
  BY <1>6, <1>11 DEF Before
<1>13. Before(t, n + 1, n + 2)
  BY <1>6, <1>11 DEF Before
<1>14. OpenAt(t, fin, mode)
  <2>1. Len(t) + 1 = n + 2 /\ Len(t) = n + 1 /\ n + 1 \in 1..(n + 1)
    BY <1>11
  <2> HIDE DEF n
  <2>2. QED
    BY <1>6, <1>11, <1>12, <1>13, <2>1 DEF OpenAt
<1>15. QED
  BY <1>2, <1>10, <1>14 DEF FragInv

LEMMA FragInvariant == Spec => []FragInv
<1>1. OrderInv /\ FragInv /\ [Next]_vars => FragInv'
  <2> SUFFICES ASSUME OrderInv, FragInv, [Next]_vars PROVE FragInv'
    OBVIOUS
  <2>1. ASSUME NEW z \in Size, Control(z) PROVE FragInv'
    BY <2>1, ControlKeepsFrag
  <2>2. ASSUME NEW z \in Size, NEW fin \in BOOLEAN, NEW want \in BOOLEAN,
               Send(z, fin, want)
        PROVE  FragInv'
    BY <2>2, SendKeepsFrag
  <2>3. CASE UNCHANGED <<firstFragment, compress, calls>>
    BY <2>3 DEF FragInv
  <2>4. Compressed \/ CompressedTooLate \/ Destroy \/ UNCHANGED vars
           => UNCHANGED <<firstFragment, compress, calls>>
    BY DEF Compressed, CompressedTooLate, Destroy, vars
  <2>5. QED
    BY <2>1, <2>2, <2>3, <2>4 DEF Next
<1>2. QED
  BY InitFragInv, OrderInvariant, <1>1, PTL DEF Spec

\* What the peer's receiver demands of the data frames holds of the wire, for
\* every interleaving of fragments, control frames and compressions.
THEOREM WireIsWellFormed == Spec => []WireWellFormed
<1>1. OrderInv /\ FragInv => WireWellFormed
  <2> SUFFICES ASSUME OrderInv, FragInv PROVE WellFormed(wire)
    BY DEF WireWellFormed
  <2>1. /\ wire \in Seq(Frame) /\ failed \in Seq(Frame)
        /\ current \o queue \in Seq(Frame)
    BY ConcatProperties DEF OrderInv, FrameTypes
  <2>2. calls = wire \o failed \/ calls = wire \o (current \o queue)
    BY DEF OrderInv, CallOrder
  <2>3. WellFormed(calls)
    BY DEF FragInv
  <2>4. QED
    BY <2>1, <2>2, <2>3, PrefixWellFormed
<1>2. QED
  BY OrderInvariant, FragInvariant, <1>1, PTL

-----------------------------------------------------------------------------
\* g counts the bytes of the first frames of s.
Counts(g, s) ==
    /\ g \in [0..Len(s) -> Nat]
    /\ g[0] = 0
    /\ \A n \in 1..Len(s) : g[n] = g[n - 1] + s[n].size

\* A set of numbers has a least one: the induction the proofs below rest on.
LEMMA LeastNumber ==
    ASSUME NEW T \in SUBSET Nat, T # {}
    PROVE  \E m \in T : \A y \in T : m <= y
<1> DEFINE R == OpToRel(<, Nat)
<1>1. IsWellFoundedOn(R, Nat)
  BY NatLessThanWellFounded
<1>2. \A x, y \in Nat : <<y, x>> \in R <=> y < x
  BY DEF OpToRel
<1> HIDE DEF R
<1>3. PICK m \in T : \A y \in T : <<y, m>> \notin R
  BY <1>1, WFMin
<1>4. m \in Nat /\ \A y \in T : y \in Nat /\ ~(y < m)
  BY <1>2, <1>3
<1>5. QED
  BY <1>3, <1>4

LEMMA CountsUnique ==
    ASSUME NEW s \in Seq(Frame), NEW g, NEW h, Counts(g, s), Counts(h, s)
    PROVE  g[Len(s)] = h[Len(s)]
<1> DEFINE l == Len(s)
           T == {n \in 0..l : g[n] # h[n]}
<1>1. l \in Nat
  BY LenProperties
<1>2. SUFFICES ASSUME T # {} PROVE FALSE
  BY <1>1
<1>3. PICK m \in T : \A y \in T : m <= y
  <2>1. T \in SUBSET Nat
    OBVIOUS
  <2> HIDE DEF T
  <2>2. QED
    BY <1>2, <2>1, LeastNumber
<1>4. m \in 1..l /\ m - 1 \in 0..l /\ m - 1 \notin T
  BY <1>1, <1>3 DEF Counts
<1>5. g[m] = g[m - 1] + s[m].size /\ h[m] = h[m - 1] + s[m].size
  BY <1>4 DEF Counts
<1>6. QED
  BY <1>3, <1>4, <1>5

LEMMA SizeIsNat == ASSUME NEW s \in Seq(Frame), NEW n \in 1..Len(s)
                   PROVE  s[n].size \in Nat
<1>1. s[n] \in Frame
  BY ElementOfSeq
<1>2. QED
  BY <1>1, SenderAssumption DEF Frame

\* Every sequence of frames can be counted.
LEMMA CountsExist ==
    ASSUME NEW s \in Seq(Frame)
    PROVE  \E g : Counts(g, s)
<1> DEFINE l == Len(s)
           Upto(g, k) == /\ g \in [0..l -> Nat] /\ g[0] = 0
                         /\ \A n \in 1..k : g[n] = g[n - 1] + s[n].size
           T == {k \in 0..l : ~\E g : Upto(g, k)}
<1>1. l \in Nat
  BY LenProperties
<1>2. SUFFICES ASSUME T # {} PROVE FALSE
  <2>1. l \in 0..l
    BY <1>1
  <2>2. \A g : Upto(g, l) => Counts(g, s)
    BY DEF Counts
  <2> HIDE DEF Upto, l
  <2>3. QED
    BY <2>1, <2>2
<1>3. PICK m \in T : \A y \in T : m <= y
  <2>1. T \in SUBSET Nat
    OBVIOUS
  <2> HIDE DEF T
  <2>2. QED
    BY <1>2, <2>1, LeastNumber
<1>4. m # 0
  <2>1. Upto([n \in 0..l |-> 0], 0)
    BY <1>1
  <2>2. QED
    BY <1>1, <1>3, <2>1
<1>5. m \in 1..l /\ m - 1 \in 0..l /\ m - 1 \notin T
  <2>1. m \in 0..l /\ m \in 1..l /\ m - 1 \in 0..l /\ ~(m <= m - 1)
    BY <1>1, <1>3, <1>4
  <2> HIDE DEF T
  <2>2. QED
    BY <1>3, <2>1
<1>6. PICK g : Upto(g, m - 1)
  BY <1>5
<1> DEFINE h == [g EXCEPT ![m] = g[m - 1] + s[m].size]
<1>7. s[m].size \in Nat /\ g[m - 1] \in Nat
  BY <1>5, <1>6, SizeIsNat
<1>8. h \in [0..l -> Nat] /\ h[0] = 0
  BY <1>1, <1>5, <1>6, <1>7
<1>9. \A n \in 1..m : h[n] = h[n - 1] + s[n].size
  BY <1>1, <1>5, <1>6, <1>7
<1>10. Upto(h, m)
  BY <1>8, <1>9
<1> HIDE DEF Upto, h
<1>11. QED
  BY <1>3, <1>10

LEMMA BytesIs ==
    ASSUME NEW s \in Seq(Frame), NEW g, Counts(g, s)
    PROVE  Bytes(s) = g[Len(s)] /\ Bytes(s) \in Nat
<1> DEFINE l == Len(s)
           Step(f) == [n \in 0..l |-> IF n = 0 THEN 0 ELSE f[n - 1] + s[n].size]
           f == CHOOSE x : x = Step(x)
<1>1. l \in Nat
  BY LenProperties
<1>2. g = Step(g)
  BY <1>1 DEF Counts
<1>3. f = Step(f)
  <2> HIDE DEF Step
  <2>1. QED
    BY <1>2
<1>4. Bytes(s) = f[l]
  BY DEF Bytes
<1> HIDE DEF f
<1> DEFINE T == {n \in 0..l : f[n] # g[n]}
<1>5. T = {}
  <2> SUFFICES ASSUME T # {} PROVE FALSE
    OBVIOUS
  <2>1. PICK m \in T : \A y \in T : m <= y
    <3>1. T \in SUBSET Nat
      OBVIOUS
    <3> HIDE DEF T
    <3>2. QED
      BY <3>1, LeastNumber
  <2>2. f[0] = 0 /\ g[0] = 0
    BY <1>1, <1>2, <1>3
  <2>3. m # 0
    BY <2>1, <2>2
  <2>4. m - 1 \in 0..l /\ m - 1 \notin T /\ m \in 0..l
    BY <1>1, <2>1, <2>3
  <2>5. f[m] = f[m - 1] + s[m].size /\ g[m] = g[m - 1] + s[m].size
    BY <1>2, <1>3, <2>3, <2>4
  <2>6. QED
    BY <2>1, <2>4, <2>5
<1>6. QED
  BY <1>1, <1>4, <1>5 DEF Counts
\* No frames have no bytes, one frame has its own.
LEMMA BytesOfFew ==
    /\ Bytes(<<>>) = 0
    /\ \A f \in Frame : Bytes(<<f>>) = f.size /\ f.size \in Nat
<1>1. Bytes(<<>>) = 0
  <2>1. <<>> \in Seq(Frame) /\ Len(<<>>) = 0
    BY EmptySeq
  <2>2. PICK g : Counts(g, <<>>)
    BY <2>1, CountsExist
  <2>3. Bytes(<<>>) = g[Len(<<>>)]
    BY <2>1, <2>2, BytesIs
  <2>4. QED
    BY <2>1, <2>2, <2>3 DEF Counts
<1>2. ASSUME NEW f \in Frame PROVE Bytes(<<f>>) = f.size /\ f.size \in Nat
  <2> DEFINE s == <<f>>
  <2>1. s \in Seq(Frame) /\ Len(s) = 1 /\ s[1] = f
    OBVIOUS
  <2> HIDE DEF s
  <2>2. PICK g : Counts(g, s)
    BY <2>1, CountsExist
  <2>3. Bytes(s) = g[1]
    BY <2>1, <2>2, BytesIs
  <2>4. g[0] = 0 /\ g[1] = g[1 - 1] + s[1].size /\ s[1].size \in Nat
    <3>1. 1 \in 1..Len(s)
      BY <2>1
    <3>2. s[1].size \in Nat
      BY <2>1, <3>1, SizeIsNat
    <3>3. QED
      BY <2>2, <3>1, <3>2 DEF Counts
  <2>5. Bytes(s) = f.size /\ f.size \in Nat
    BY <2>1, <2>3, <2>4
  <2>6. QED
    BY <2>5 DEF s
<1>3. QED
  BY <1>1, <1>2

\* The bytes of two sequences of frames are added.
LEMMA BytesOfConcat ==
    ASSUME NEW s \in Seq(Frame), NEW r \in Seq(Frame)
    PROVE  /\ Bytes(s \o r) = Bytes(s) + Bytes(r)
           /\ Bytes(s) \in Nat /\ Bytes(r) \in Nat
<1> DEFINE t == s \o r
           n == Len(s)
           m == Len(r)
<1>1. PICK g : Counts(g, s)
  BY CountsExist
<1>2. PICK h : Counts(h, r)
  BY CountsExist
<1>3. /\ Bytes(s) = g[n] /\ Bytes(s) \in Nat
      /\ Bytes(r) = h[m] /\ Bytes(r) \in Nat
  BY <1>1, <1>2, BytesIs
<1>4. /\ n \in Nat /\ m \in Nat /\ Len(t) = n + m /\ t \in Seq(Frame)
      /\ \A i \in 1..(n + m) : t[i] = IF i <= n THEN s[i] ELSE r[i - n]
  BY ConcatProperties, LenProperties
<1>5. /\ g \in [0..n -> Nat] /\ g[0] = 0
      /\ \A i \in 1..n : g[i] = g[i - 1] + s[i].size
  BY <1>1 DEF Counts
<1>6. /\ h \in [0..m -> Nat] /\ h[0] = 0
      /\ \A i \in 1..m : h[i] = h[i - 1] + r[i].size
  BY <1>2 DEF Counts
<1> HIDE DEF t, n, m
<1> DEFINE k == [i \in 0..(n + m) |-> IF i <= n THEN g[i] ELSE g[n] + h[i - n]]
<1>7. k \in [0..(n + m) -> Nat] /\ k[0] = 0 /\ k[n + m] = g[n] + h[m]
  <2>1. \A i \in 0..(n + m) : k[i] \in Nat
    <3> TAKE i \in 0..(n + m)
    <3>1. CASE i <= n
      BY <1>4, <1>5, <3>1
    <3>2. CASE ~(i <= n)
      <4>1. i - n \in 0..m /\ n \in 0..n
        BY <1>4, <3>2
      <4>2. g[n] \in Nat /\ h[i - n] \in Nat
        BY <1>5, <1>6, <4>1
      <4>3. k[i] = g[n] + h[i - n]
        BY <3>2
      <4>4. QED
        BY <4>2, <4>3
    <3>3. QED
      BY <3>1, <3>2
  <2>2. k[0] = 0
    BY <1>4, <1>5
  <2>3. k[n + m] = g[n] + h[m]
    <3>1. n \in 0..n /\ g[n] \in Nat
      BY <1>4, <1>5
    <3>2. CASE m = 0
      BY <1>4, <1>6, <3>1, <3>2
    <3>3. CASE m # 0
      BY <1>4, <3>3
    <3>4. QED
      BY <3>2, <3>3
  <2>4. QED
    BY <2>1, <2>2, <2>3
<1>8. \A i \in 1..(n + m) : k[i] = k[i - 1] + t[i].size
  <2> TAKE i \in 1..(n + m)
  <2>1. i \in 0..(n + m) /\ i - 1 \in 0..(n + m)
    BY <1>4
  <2>2. CASE i <= n
    <3>1. i \in 1..n /\ i - 1 <= n
      BY <1>4, <2>2
    <3>2. QED
      BY <1>4, <1>5, <2>1, <2>2, <3>1
  <2>3. CASE i = n + 1
    <3>1. t[i] = r[1] /\ 1 \in 1..m /\ r[1].size \in Nat
      <4>1. 1 \in 1..m /\ ~(i <= n) /\ i - n = 1
        BY <1>4, <2>3
      <4>2. r[1].size \in Nat
        BY <4>1, SizeIsNat DEF m
      <4>3. QED
        BY <1>4, <4>1, <4>2
    <3>2. k[i] = g[n] + h[1] /\ k[i - 1] = g[n]
      BY <1>4, <2>1, <2>3
    <3>3. h[1] = h[1 - 1] + r[1].size /\ h[1 - 1] = 0
      BY <1>6, <3>1
    <3>4. g[n] \in Nat
      BY <1>4, <1>5
    <3>5. QED
      BY <3>1, <3>2, <3>3, <3>4
  <2>4. CASE i > n + 1
    <3>1. /\ t[i] = r[i - n] /\ i - n \in 1..m /\ r[i - n].size \in Nat
      <4>1. i - n \in 1..m /\ ~(i <= n)
        BY <1>4, <2>4
      <4>2. r[i - n].size \in Nat
        BY <4>1, SizeIsNat DEF m
      <4>3. QED
        BY <1>4, <4>1, <4>2
    <3>2. k[i] = g[n] + h[i - n] /\ k[i - 1] = g[n] + h[(i - 1) - n]
      BY <1>4, <2>1, <2>4
    <3>3. /\ h[i - n] = h[(i - n) - 1] + r[i - n].size
          /\ (i - n) - 1 = (i - 1) - n /\ (i - 1) - n \in 0..m
      BY <1>4, <1>6, <2>4, <3>1
    <3>4. g[n] \in Nat /\ h[(i - 1) - n] \in Nat
      BY <1>4, <1>5, <1>6, <3>3
    <3>5. QED
      BY <3>1, <3>2, <3>3, <3>4
  <2>5. QED
    BY <1>4, <2>2, <2>3, <2>4
<1> HIDE DEF k
<1>9. Counts(k, t)
  BY <1>4, <1>7, <1>8 DEF Counts
<1>10. Bytes(t) = k[n + m]
  BY <1>4, <1>9, BytesIs
<1>11. Bytes(t) = Bytes(s) + Bytes(r)
  BY <1>3, <1>7, <1>10 DEF n, m
<1>12. QED
  BY <1>3, <1>11 DEF t

(***************************************************************************)
(* The byte count needs the order: which frames wait, and that they wait   *)
(* only behind a compression.                                              *)
(***************************************************************************)
LEMMA BytesAreNat == ASSUME NEW s \in Seq(Frame) PROVE Bytes(s) \in Nat
  BY BytesOfConcat

LEMMA BufferedAlive ==
    ASSUME FrameTypes, failed = <<>>
    PROVE  BufferedExact <=> bufferedBytes = Bytes(current \o queue)
<1>1. current \o queue \in Seq(Frame)
  BY ConcatProperties DEF FrameTypes
<1>2. Bytes(current \o queue) \in Nat
  BY <1>1, BytesAreNat
<1>3. QED
  BY <1>2 DEF BufferedExact

LEMMA InitBuffered == Init => BufferedExact
<1> SUFFICES ASSUME Init PROVE BufferedExact
  OBVIOUS
<1>1. <<>> \o <<>> = <<>>
  BY EmptySeq, ConcatEmptySeq
<1>2. bufferedBytes = 0 /\ current \o queue = <<>> /\ failed = <<>>
  BY <1>1 DEF Init
<1>3. QED
  BY <1>2, BytesOfFew DEF BufferedExact

LEMMA SubmitKeepsBuffered ==
    ASSUME OrderInv, BufferedExact, NEW f \in Frame, Submit(f), ~destroyed,
           failed' = failed
    PROVE  BufferedExact'
<1>1. queue \in Seq(Frame) /\ current \in Seq(Frame) /\ deflating \in BOOLEAN
  BY DEF OrderInv, FrameTypes
<1>2. failed = <<>> /\ bufferedBytes = Bytes(current \o queue)
  BY BufferedAlive DEF OrderInv, FailedIsFinal
<1>3. Bytes(<<f>>) = f.size /\ f.size \in Nat /\ <<f>> \in Seq(Frame)
  BY BytesOfFew
<1>4. SUFFICES bufferedBytes' = Bytes(current' \o queue') /\ bufferedBytes' \in Nat
  BY <1>2 DEF BufferedExact
<1>5. CASE deflating
  <2>1. /\ queue' = queue \o <<f>> /\ current' = current
        /\ bufferedBytes' = bufferedBytes + f.size
    BY <1>1, <1>5, AppendIsConcat DEF Submit
  <2>2. current \o (queue \o <<f>>) = (current \o queue) \o <<f>>
    BY <1>1, <1>3, ConcatAssociative
  <2>3. current \o queue \in Seq(Frame)
    BY <1>1, ConcatProperties
  <2>4. Bytes((current \o queue) \o <<f>>) = Bytes(current \o queue) + Bytes(<<f>>)
    BY <1>3, <2>3, BytesOfConcat
  <2>5. Bytes(current \o queue) \in Nat
    BY <2>3, BytesAreNat
  <2>6. Bytes(current' \o queue') = Bytes(current \o queue) + f.size
    BY <1>3, <2>1, <2>2, <2>4
  <2>7. QED
    BY <1>2, <1>3, <2>1, <2>5, <2>6
<1>6. CASE ~deflating
  <2>1. queue = <<>> /\ current = <<>>
    BY <1>6 DEF OrderInv, NoIdleQueue, OneCompression
  <2>2. bufferedBytes = 0
    BY <1>2, <2>1, BytesOfFew, EmptySeq, ConcatEmptySeq
  <2>3. queue' = <<>> /\ Dispatch(f, wire, bufferedBytes)
    BY <1>6, <2>1 DEF Submit
  <2>4. CASE f.comp
    <3>1. bufferedBytes' = 0 + f.size /\ current' = <<f>>
      BY <2>2, <2>3, <2>4 DEF Dispatch
    <3>2. current' \o queue' = <<f>>
      BY <1>3, <2>3, <3>1, ConcatEmptySeq
    <3>3. Bytes(current' \o queue') = f.size
      BY <1>3, <3>2
    <3>4. QED
      BY <1>3, <3>1, <3>3
  <2>5. CASE ~f.comp
    <3>1. bufferedBytes' = 0 /\ current' = <<>>
      BY <2>2, <2>3, <2>5 DEF Dispatch
    <3>2. current' \o queue' = <<>>
      BY <2>3, <3>1, EmptySeq, ConcatEmptySeq
    <3>3. QED
      BY <3>1, <3>2, BytesOfFew
  <2>6. QED
    BY <2>4, <2>5
<1>7. QED
  BY <1>1, <1>5, <1>6

LEMMA ControlKeepsBuffered ==
    ASSUME OrderInv, BufferedExact, NEW z \in Size, Control(z)
    PROVE  BufferedExact'
<1> DEFINE f == [op |-> "ctl", fin |-> TRUE, rsv1 |-> FALSE, comp |-> FALSE,
                 size |-> z, id |-> Len(calls)]
<1>1. f \in Frame
  BY LenProperties DEF Frame, OrderInv, FrameTypes
<1>2. Submit(f) /\ ~destroyed /\ failed' = failed
  BY DEF Control, MayCall
<1> HIDE DEF f
<1>3. QED
  BY <1>1, <1>2, SubmitKeepsBuffered

LEMMA SendKeepsBuffered ==
    ASSUME OrderInv, BufferedExact, NEW z \in Size, NEW fin \in BOOLEAN,
           NEW want \in BOOLEAN, Send(z, fin, want)
    PROVE  BufferedExact'
<1> DEFINE wanted == IF want /\ Deflate /\ NoTakeover THEN z >= Threshold ELSE want
           mode == IF firstFragment THEN wanted ELSE compress
           f == [op |-> IF firstFragment THEN "msg" ELSE "cont", fin |-> fin,
                 rsv1 |-> firstFragment /\ mode, comp |-> mode /\ Deflate,
                 size |-> z, id |-> Len(calls)]
<1>1. firstFragment \in BOOLEAN /\ compress \in BOOLEAN /\ calls \in Seq(Frame)
  BY DEF OrderInv, FrameTypes
<1>2. wanted \in BOOLEAN
  <2>1. CASE want /\ Deflate /\ NoTakeover
    BY <2>1
  <2>2. CASE ~(want /\ Deflate /\ NoTakeover)
    BY <2>2
  <2>3. QED
    BY <2>1, <2>2
<1>3. Submit(f) /\ ~destroyed /\ failed' = failed
  BY DEF Send, MayCall
<1> HIDE DEF wanted
<1>4. mode \in BOOLEAN
  BY <1>1, <1>2
<1>5. f \in Frame
  BY <1>1, <1>4, SenderAssumption, LenProperties DEF Frame
<1> HIDE DEF mode, f
<1>6. QED
  BY <1>3, <1>5, SubmitKeepsBuffered

\* What dequeue() writes is taken off the count, and what it hands to the
\* compressor stays in it.
LEMMA DequeueCounts ==
    ASSUME FrameTypes, NEW w \in Seq(Frame), NEW b, b = Bytes(queue),
           Dequeue(w, b)
    PROVE  bufferedBytes' = Bytes(current' \o queue')
<1>0. queue \in Seq(Frame) /\ Len(queue) \in Nat
  BY LenProperties DEF FrameTypes
<1>1. PICK n \in 0..Len(queue) :
        /\ n < Len(queue) => queue[n + 1].comp
        /\ LET out  == w \o SubSeq(queue, 1, n)
               left == b - Bytes(SubSeq(queue, 1, n))
           IN  IF n < Len(queue)
               THEN /\ queue' = SubSeq(queue, n + 2, Len(queue))
                    /\ Dispatch(queue[n + 1], out, left - queue[n + 1].size)
               ELSE /\ queue' = <<>>
                    /\ wire' = out
                    /\ bufferedBytes' = left
                    /\ deflating' = FALSE
                    /\ current' = <<>>
  BY DEF Dequeue
<1> DEFINE pre == SubSeq(queue, 1, n)
<1>2. pre \in Seq(Frame)
  <2>1. \A i \in 1..n : queue[i] \in Frame
    BY <1>0, ElementOfSeq
  <2>2. QED
    BY <1>0, <2>1, SubSeqProperties
<1>3. CASE n < Len(queue)
  <2> DEFINE post == SubSeq(queue, n + 2, Len(queue))
             h == queue[n + 1]
  <2>1. n + 1 \in 1..Len(queue)
    BY <1>0, <1>3
  <2>2. h \in Frame /\ h.comp
    BY <1>0, <1>1, <1>3, <2>1, ElementOfSeq
  <2>3. post \in Seq(Frame)
    <3>1. \A i \in n + 2 .. Len(queue) : queue[i] \in Frame
      BY <1>0, ElementOfSeq
    <3>2. QED
      BY <1>0, <3>1, SubSeqProperties
  <2>4. /\ queue' = post /\ current' = <<h>>
        /\ bufferedBytes' = ((b - Bytes(pre)) - h.size) + h.size
    BY <1>1, <1>3, <2>2 DEF Dispatch
  <2>5. pre \o SubSeq(queue, n + 1, Len(queue)) = queue
    <3>1. 1 \in 1..Len(queue) + 1 /\ n \in 1 - 1 .. Len(queue)
          /\ Len(queue) \in n..Len(queue)
      BY <1>0
    <3>2. pre \o SubSeq(queue, n + 1, Len(queue)) = SubSeq(queue, 1, Len(queue))
      BY <1>0, <3>1, ConcatAdjacentSubSeq
    <3>3. QED
      BY <1>0, <3>2, SubSeqFull
  <2>6. SubSeq(queue, n + 1, Len(queue)) = <<h>> \o post
    <3>1. Len(queue) \in n + 1 .. Len(queue) /\ (n + 1) + 1 = n + 2
      BY <1>0, <2>1
    <3>2. SubSeq(queue, n + 1, Len(queue)) = <<h>> \o SubSeq(queue, (n + 1) + 1, Len(queue))
      BY <1>0, <2>1, <3>1, SubSeqRecursiveFirst
    <3>3. QED
      BY <3>1, <3>2
  <2>7. <<h>> \in Seq(Frame) /\ h.size \in Nat
    <3>1. h.size \in Nat
      BY <2>2, BytesOfFew
    <3> HIDE DEF h
    <3>2. QED
      BY <2>2, <3>1
  <2> HIDE DEF pre, post, h
  <2>8. <<h>> \o post \in Seq(Frame)
    BY <2>3, <2>7, ConcatProperties
  <2>9. Bytes(queue) = Bytes(pre) + Bytes(<<h>> \o post)
    BY ZenonT(40), <1>2, <2>5, <2>6, <2>8, BytesOfConcat
  <2>10. Bytes(pre) \in Nat /\ Bytes(<<h>> \o post) \in Nat
    BY <1>2, <2>8, BytesOfConcat
  <2>11. QED
    BY <2>4, <2>7, <2>9, <2>10
<1>4. CASE n = Len(queue)
  <2>1. pre = queue
    BY <1>0, <1>4, SubSeqFull
  <2>2. queue' = <<>> /\ current' = <<>> /\ bufferedBytes' = b - Bytes(pre)
    BY <1>0, <1>1, <1>4
  <2>3. current' \o queue' = <<>>
    BY <2>2, EmptySeq, ConcatEmptySeq
  <2> HIDE DEF pre
  <2>4. Bytes(queue) \in Nat
    BY <1>0, BytesOfConcat
  <2>5. QED
    BY <2>1, <2>2, <2>3, <2>4, BytesOfFew
<1>5. n < Len(queue) \/ n = Len(queue)
  BY <1>0
<1>6. QED
  BY <1>3, <1>4, <1>5

LEMMA CompressedKeepsBuffered ==
    ASSUME OrderInv, BufferedExact, Compressed
    PROVE  BufferedExact'
<1> DEFINE c == current[1]
           w == Append(wire, c)
           b == bufferedBytes - c.size
<1>1. /\ queue \in Seq(Frame) /\ current \in Seq(Frame) /\ wire \in Seq(Frame)
      /\ FrameTypes
  BY DEF OrderInv, FrameTypes
<1>2. current = <<c>> /\ c \in Frame
  BY <1>1, AtMostOne DEF Compressed, OrderInv, OneCompression
<1>3. failed = <<>> /\ failed' = failed /\ Dequeue(w, b)
  BY DEF OrderInv, FailedIsFinal, Compressed
<1>4. w \in Seq(Frame)
  BY <1>1, <1>2, AppendProperties
<1>5. b = Bytes(queue)
  <2>1. bufferedBytes = Bytes(current \o queue)
    BY <1>1, <1>3, BufferedAlive
  <2>2. Bytes(current \o queue) = Bytes(current) + Bytes(queue) /\ Bytes(queue) \in Nat
    BY <1>1, BytesOfConcat
  <2>3. Bytes(current) = c.size /\ c.size \in Nat
    BY <1>2, BytesOfFew
  <2>4. QED
    BY <2>1, <2>2, <2>3
<1> HIDE DEF w, b
<1>6. bufferedBytes' = Bytes(current' \o queue')
  BY <1>1, <1>3, <1>4, <1>5, DequeueCounts
<1>7. Bytes(current' \o queue') \in Nat
  <2>1. OrderInv'
    BY CompressedKeepsOrder
  <2>2. current' \in Seq(Frame) /\ queue' \in Seq(Frame)
    BY <2>1 DEF OrderInv, FrameTypes
  <2>3. QED
    BY <2>2, ConcatProperties, BytesAreNat
<1>8. QED
  BY <1>3, <1>6, <1>7 DEF BufferedExact

LEMMA TooLateKeepsBuffered ==
    ASSUME OrderInv, BufferedExact, CompressedTooLate
    PROVE  BufferedExact'
<1>1. queue \in Seq(Frame) /\ current \in Seq(Frame)
  BY DEF OrderInv, FrameTypes
<1>2. current # <<>> /\ failed = <<>>
  BY DEF OrderInv, FailedIsFinal, CompressedTooLate
<1>3. current = <<current[1]>> /\ current[1] \in Frame /\ Len(current) = 1
  BY <1>1, <1>2, AtMostOne DEF OrderInv, OneCompression
<1>4. /\ failed' = current \o queue /\ current' = <<>> /\ queue' = queue
      /\ bufferedBytes' = bufferedBytes
  BY DEF CompressedTooLate
<1>5. failed' # <<>> /\ failed'[1] = current[1]
  <2>1. current \o queue # <<>>
    BY <1>1, <1>2, ConcatEqualIffEmpty
  <2>2. Len(queue) \in Nat /\ 1 \in 1..(Len(current) + Len(queue)) /\ 1 <= Len(current)
    BY <1>1, <1>3, LenProperties
  <2>3. QED
    BY <1>1, <1>4, <2>1, <2>2, ConcatProperties
<1>6. /\ Bytes(current \o queue) = Bytes(current) + Bytes(queue)
      /\ Bytes(current) \in Nat /\ Bytes(queue) \in Nat
  BY <1>1, BytesOfConcat
<1>7. Bytes(current) = current[1].size
  BY <1>3, BytesOfFew
<1>8. current' \o queue' = queue
  BY <1>1, <1>4, ConcatEmptySeq
<1>9. bufferedBytes = Bytes(current \o queue)
  BY <1>2, BufferedAlive DEF OrderInv
<1>10. QED
  BY <1>4, <1>5, <1>6, <1>7, <1>8, <1>9 DEF BufferedExact

LEMMA BufferedInvariant == Spec => []BufferedExact
<1>1. OrderInv /\ BufferedExact /\ [Next]_vars => BufferedExact'
  <2> SUFFICES ASSUME OrderInv, BufferedExact, [Next]_vars PROVE BufferedExact'
    OBVIOUS
  <2>1. ASSUME NEW z \in Size, Control(z) PROVE BufferedExact'
    BY <2>1, ControlKeepsBuffered
  <2>2. ASSUME NEW z \in Size, NEW fin \in BOOLEAN, NEW want \in BOOLEAN,
               Send(z, fin, want)
        PROVE  BufferedExact'
    BY <2>2, SendKeepsBuffered
  <2>3. CASE Compressed
    BY <2>3, CompressedKeepsBuffered
  <2>4. CASE CompressedTooLate
    BY <2>4, TooLateKeepsBuffered
  <2>5. CASE Destroy \/ UNCHANGED vars
    BY <2>5 DEF Destroy, vars, BufferedExact
  <2>6. QED
    BY <2>1, <2>2, <2>3, <2>4, <2>5 DEF Next
<1>2. QED
  BY InitBuffered, OrderInvariant, <1>1, PTL DEF Spec

\* bufferedAmount counts what waits, and each byte of it once, whichever way the
\* frames went and whether or not the socket is alive.
THEOREM BufferedIsExact == Spec => []BufferedExact
  BY BufferedInvariant

\* Every variable has its type: the byte count never goes below zero, although
\* dequeue() subtracts from it.
THEOREM TypeCorrect == Spec => []TypeOK
<1>1. OrderInv /\ BufferedExact => TypeOK
  <2> SUFFICES ASSUME OrderInv, BufferedExact PROVE TypeOK
    OBVIOUS
  <2>1. FrameTypes
    BY DEF OrderInv
  <2>2. Bytes(current \o queue) \in Nat
    <3>1. current \o queue \in Seq(Frame)
      BY <2>1, ConcatProperties DEF FrameTypes
    <3>2. QED
      BY <3>1, BytesOfConcat
  <2>3. failed # <<>> => failed[1].size \in Nat
    <3> SUFFICES ASSUME failed # <<>> PROVE failed[1].size \in Nat
      OBVIOUS
    <3>1. failed \in Seq(Frame)
      BY <2>1 DEF FrameTypes
    <3>2. Len(failed) \in Nat /\ Len(failed) # 0
      BY <3>1, LenProperties, EmptySeq
    <3>3. 1 \in 1..Len(failed)
      BY <3>2
    <3>4. QED
      BY <3>1, <3>3, SizeIsNat
  <2>4. bufferedBytes \in Nat
    BY <2>2, <2>3 DEF BufferedExact
  <2>5. QED
    BY <2>1, <2>4 DEF FrameTypes, TypeOK
<1>2. QED
  BY OrderInvariant, BufferedInvariant, <1>1, PTL
=============================================================================
