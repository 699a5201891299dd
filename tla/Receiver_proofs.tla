---------------------------- MODULE Receiver_proofs ----------------------------
(***************************************************************************)
(* Proofs about Receiver, for every stream of frames and every way to cut  *)
(* it into chunks.                                                         *)
(***************************************************************************)
EXTENDS Receiver, SequenceTheorems, WellFoundedInduction, TLAPS

(***************************************************************************)
(* The inductive invariant, first part: who owes the Writable an answer,   *)
(* what is known of the frame in hand, and where its bytes are. The second *)
(* part, Reading, says what the parser has made of the frames before it.   *)
(***************************************************************************)

\* The close frame was read: what comes after it is dropped.
Concluded == opcode = 8 /\ state = "GET_INFO"

\* The loop runs in a parser that can still read.
Running ==
    loop => failed = 0 /\ state # "INFLATING" /\ ~Concluded

\* The header that was read is that of the frame in hand.
InHand ==
    failed = 0 /\ state # "GET_INFO" =>
        /\ frame \in 1..MaxFrames
        /\ payloadLength = wire[frame].length
        /\ masked = wire[frame].masked
        /\ state = "GET_PAYLOAD_LENGTH_16" => wire[frame].form = 16
        /\ state = "GET_PAYLOAD_LENGTH_64" => wire[frame].form = 64
        /\ state = "GET_MASK" => wire[frame].masked
        /\ state = "INFLATING" => opcode \notin Control

\* The bytes of the stream the parser has consumed.
Consumed ==
    CASE state \in {"GET_INFO", "INFLATING"} -> Bytes(frame)
      [] state \in {"GET_PAYLOAD_LENGTH_16", "GET_PAYLOAD_LENGTH_64"} -> Bytes(frame - 1) + 2
      [] state = "GET_MASK" -> Bytes(frame - 1) + 2 + ExtendedLength(wire[frame])
      [] state = "GET_DATA" -> Bytes(frame) - wire[frame].length

\* Every byte of the stream is consumed, buffered, waiting in a chunk or on its way.
Counted ==
    failed = 0 /\ ~Concluded =>
        Consumed + bufferedBytes + SumOfFirst(queue, Len(queue)) + unsent = Bytes(MaxFrames)

IInv == TypeOK /\ EveryChunkAnsweredOnce /\ Running /\ InHand /\ Counted

-----------------------------------------------------------------------------
(***************************************************************************)
(* Sums of sequences of numbers                                            *)
(***************************************************************************)

\* Every set of numbers that is not empty has a least one.
LEMMA LeastNumber ==
    ASSUME NEW T \in SUBSET Nat, T # {}
    PROVE  \E m \in T : \A y \in T : m <= y
<1> DEFINE R == OpToRel(<, Nat)
<1>1. IsWellFoundedOn(R, Nat)
  BY NatLessThanWellFounded
<1>2. \A x, y \in Nat : <<y, x>> \in R <=> y < x
  BY DEF OpToRel
<1> HIDE DEF R
<1>3. PICK m \in T : \A y \in T : <<y, m>> \notin R
  BY <1>1, WFMin
<1>4. m \in Nat /\ \A y \in T : y \in Nat /\ ~(y < m)
  BY <1>2, <1>3
<1>5. QED
  BY <1>3, <1>4

\* g counts the first n numbers of f.
Counts(g, f, n) ==
    /\ g \in [0..n -> Int]
    /\ g[0] = 0
    /\ \A i \in 1..n : g[i] = g[i - 1] + f[i]

LEMMA CountsUnique ==
    ASSUME NEW f, NEW n \in Nat, NEW g, NEW h, Counts(g, f, n), Counts(h, f, n),
           NEW i \in 0..n
    PROVE  g[i] = h[i]
<1> DEFINE T == {k \in 0..n : g[k] # h[k]}
<1>1. SUFFICES ASSUME T # {} PROVE FALSE
  OBVIOUS
<1>2. PICK m \in T : \A y \in T : m <= y
  <2>1. T \in SUBSET Nat
    OBVIOUS
  <2> HIDE DEF T
  <2>2. QED
    BY <1>1, <2>1, LeastNumber
<1>3. m \in 1..n /\ m - 1 \in 0..n /\ m - 1 \notin T
  BY <1>2 DEF Counts
<1>4. g[m] = g[m - 1] + f[m] /\ h[m] = h[m - 1] + f[m]
  BY <1>3 DEF Counts
<1>5. QED
  BY <1>2, <1>3, <1>4

\* Numbers can be counted.
LEMMA CountsExist ==
    ASSUME NEW n \in Nat, NEW f \in [1..n -> Nat]
    PROVE  \E g \in [0..n -> Nat] : Counts(g, f, n)
<1> DEFINE Upto(g, k) == /\ g \in [0..n -> Nat] /\ g[0] = 0
                         /\ \A i \in 1..k : g[i] = g[i - 1] + f[i]
           T == {k \in 0..n : ~\E g : Upto(g, k)}
<1>1. SUFFICES ASSUME T # {} PROVE FALSE
  <2>1. n \in 0..n
    OBVIOUS
  <2>2. \A g : Upto(g, n) => g \in [0..n -> Nat] /\ Counts(g, f, n)
    BY DEF Counts
  <2> HIDE DEF Upto
  <2>3. QED
    BY <2>1, <2>2
<1>2. PICK m \in T : \A y \in T : m <= y
  <2>1. T \in SUBSET Nat
    OBVIOUS
  <2> HIDE DEF T
  <2>2. QED
    BY <1>1, <2>1, LeastNumber
<1>3. m # 0
  <2>1. Upto([i \in 0..n |-> 0], 0)
    OBVIOUS
  <2>2. QED
    BY <1>2, <2>1
<1>4. m \in 1..n /\ m - 1 \in 0..n /\ m - 1 \notin T
  <2>1. m \in 0..n /\ m \in 1..n /\ m - 1 \in 0..n /\ ~(m <= m - 1)
    BY <1>2, <1>3
  <2> HIDE DEF T
  <2>2. QED
    BY <1>2, <2>1
<1>5. PICK g : Upto(g, m - 1)
  BY <1>4
<1> DEFINE h == [g EXCEPT ![m] = g[m - 1] + f[m]]
<1>6. f[m] \in Nat /\ g[m - 1] \in Nat
  BY <1>4, <1>5
<1>7. h \in [0..n -> Nat] /\ h[0] = 0
  BY <1>4, <1>5, <1>6, SMTT(40)
<1>8. ASSUME NEW i \in 1..m PROVE h[i] = h[i - 1] + f[i]
  <2>1. CASE i = m
    BY <1>4, <1>5, <1>6, <2>1
  <2>2. CASE i \in 1..(m - 1)
    <3>1. i # m /\ i - 1 # m /\ i \in 0..n /\ i - 1 \in 0..n
      BY <1>4, <2>2
    <3>2. g[i] = g[i - 1] + f[i]
      BY <1>5, <2>2
    <3>3. QED
      BY <1>5, <3>1, <3>2
  <2>3. QED
    BY <1>4, <2>1, <2>2
<1>9. Upto(h, m)
  BY <1>7, <1>8
<1> HIDE DEF Upto, h
<1>10. QED
  BY <1>2, <1>9

\* What counts the numbers gives their sum.
LEMMA SumCounts ==
    ASSUME NEW n \in Nat, NEW f, NEW g, Counts(g, f, n), NEW k \in 0..n
    PROVE  SumOfFirst(f, k) = g[k]
<1> DEFINE Eq(h) == h = [i \in 0..k |-> IF i = 0 THEN 0 ELSE h[i - 1] + f[i]]
           u == [i \in 0..k |-> g[i]]
           upTo == CHOOSE h : Eq(h)
<1>1. u \in [0..k -> Int] /\ Counts(u, f, k)
  BY DEF Counts
<1>2. Eq(u)
  BY <1>1 DEF Counts
<1>0. k \in Nat /\ 0 \in 0..k
  OBVIOUS
<1> HIDE DEF u
<1>3. \A h : Eq(h) => \A i \in 0..k : h[i] = u[i]
  <2> SUFFICES ASSUME NEW h, Eq(h), NEW i \in 0..k, h[i] # u[i] PROVE FALSE
    OBVIOUS
  <2> DEFINE T == {j \in 0..k : h[j] # u[j]}
  <2>1. PICK m \in T : \A y \in T : m <= y
    <3>0. i \in T
      OBVIOUS
    <3>1. T \in SUBSET Nat /\ T # {}
      BY <3>0
    <3> HIDE DEF T
    <3>2. QED
      BY <3>1, LeastNumber
  <2>2. h[0] = 0 /\ u[0] = 0
    <3>1. h[0] = 0
      BY <1>0
    <3>2. u[0] = 0
      BY <1>0, <1>1 DEF Counts
    <3>3. QED
      BY <3>1, <3>2
  <2>3. m # 0
    BY <2>1, <2>2
  <2>4. m \in 0..k /\ m - 1 \in 0..k /\ m - 1 \notin T
    BY <2>1, <2>3
  <2>5. h[m] = h[m - 1] + f[m]
    BY <2>3, <2>4
  <2>6. u[m] = u[m - 1] + f[m]
    BY <1>1, <2>3, <2>4 DEF Counts
  <2>7. QED
    BY <2>1, <2>4, <2>5, <2>6
<1>4. Eq(upTo)
  BY <1>2
<1>5. SumOfFirst(f, k) = upTo[k]
  BY DEF SumOfFirst
<1> HIDE DEF upTo, Eq
<1>6. SumOfFirst(f, k) = u[k]
  BY <1>0, <1>3, <1>4, <1>5
<1>7. QED
  BY <1>6 DEF u

\* A sum is a number that grows by one summand at a time.
LEMMA Sums ==
    ASSUME NEW n \in Nat, NEW f \in [1..n -> Nat]
    PROVE  /\ SumOfFirst(f, 0) = 0
           /\ \A k \in 0..n : SumOfFirst(f, k) \in Nat
           /\ \A k \in 1..n : SumOfFirst(f, k) = SumOfFirst(f, k - 1) + f[k]
<1>1. PICK g \in [0..n -> Nat] : Counts(g, f, n)
  BY CountsExist
<1>2. \A k \in 0..n : SumOfFirst(f, k) = g[k]
  BY <1>1, SumCounts
<1>3. QED
  BY <1>1, <1>2 DEF Counts

\* One more chunk waits, and the first one is taken.
LEMMA SumOfAppend ==
    ASSUME NEW q \in Seq(Nat), NEW n \in Nat
    PROVE  SumOfFirst(Append(q, n), Len(Append(q, n))) = SumOfFirst(q, Len(q)) + n
<1> DEFINE a == Append(q, n)
           l == Len(q)
<1>1. /\ l \in Nat /\ q \in [1..l -> Nat] /\ a \in Seq(Nat) /\ Len(a) = l + 1
      /\ a[l + 1] = n /\ \A i \in 1..l : a[i] = q[i]
  BY AppendProperties, LenProperties
<1>2. a \in [1..(l + 1) -> Nat]
  BY <1>1, LenProperties
<1> HIDE DEF a, l
<1>3. PICK g \in [0..l -> Nat] : Counts(g, q, l)
  BY <1>1, CountsExist
<1>4. Counts(g, a, l)
  BY <1>1, <1>3 DEF Counts
<1>5. SumOfFirst(q, l) = g[l] /\ SumOfFirst(a, l) = g[l]
  BY <1>1, <1>3, <1>4, SumCounts
<1>6. SumOfFirst(a, l + 1) = SumOfFirst(a, (l + 1) - 1) + a[l + 1]
  <2>1. l + 1 \in Nat /\ l + 1 \in 1..(l + 1)
    BY <1>1
  <2>2. QED
    BY <1>2, <2>1, Sums
<1>7. (l + 1) - 1 = l
  BY <1>1
<1>8. SumOfFirst(a, Len(a)) = SumOfFirst(q, l) + n
  BY <1>1, <1>5, <1>6, <1>7
<1>9. QED
  BY <1>8 DEF a, l

LEMMA SumOfTail ==
    ASSUME NEW q \in Seq(Nat), q # <<>>
    PROVE  /\ Head(q) \in Nat
           /\ SumOfFirst(Tail(q), Len(Tail(q))) = SumOfFirst(q, Len(q)) - Head(q)
<1> DEFINE t == Tail(q)
           l == Len(q)
           d == Head(q)
<1>1. /\ l \in Nat /\ l >= 1 /\ q \in [1..l -> Nat] /\ d = q[1] /\ d \in Nat
      /\ Len(t) = l - 1 /\ \A i \in 1..(l - 1) : t[i] = q[i + 1]
  BY HeadTailProperties, LenProperties, EmptySeq
<1> HIDE DEF t, l, d
<1>2. PICK g \in [0..l -> Nat] : Counts(g, q, l)
  BY <1>1, CountsExist
<1> DEFINE h == [i \in 0..(l - 1) |-> g[i + 1] - d]
<1>3. Counts(h, t, l - 1)
  <2>1. h \in [0..(l - 1) -> Int]
    <3>1. \A i \in 0..(l - 1) : g[i + 1] - d \in Int
      <4> TAKE i \in 0..(l - 1)
      <4>1. i + 1 \in 0..l
        BY <1>1
      <4>2. g[i + 1] \in Nat
        BY <4>1
      <4>3. QED
        BY <1>1, <4>2
    <3>2. QED
      BY <3>1
  <2>2. h[0] = 0
    <3>1. g[1] = g[0] + q[1] /\ g[0] = 0 /\ 0 \in 0..(l - 1)
      BY <1>1, <1>2 DEF Counts
    <3>2. QED
      BY <1>1, <3>1
  <2>3. ASSUME NEW i \in 1..(l - 1) PROVE h[i] = h[i - 1] + t[i]
    <3>1. /\ i \in 0..(l - 1) /\ i - 1 \in 0..(l - 1) /\ i + 1 \in 1..l
          /\ (i - 1) + 1 = i /\ (i + 1) - 1 = i /\ i \in 0..l /\ i + 1 \in 0..l
      BY <1>1
    <3>2. h[i] = g[i + 1] - d /\ h[i - 1] = g[i] - d
      BY <3>1
    <3>3. g[i + 1] = g[i] + q[i + 1] /\ q[i + 1] \in Nat
      BY <1>1, <1>2, <3>1 DEF Counts
    <3>4. g[i] \in Nat /\ t[i] = q[i + 1]
      BY <1>1, <3>1
    <3> HIDE DEF h
    <3>5. QED
      BY <1>1, <3>2, <3>3, <3>4, SMTT(40)
  <2> HIDE DEF h
  <2>4. QED
    BY <2>1, <2>2, <2>3 DEF Counts
<1>4. h[l - 1] = g[l] - d
  <2>1. l - 1 \in 0..(l - 1) /\ (l - 1) + 1 = l
    BY <1>1
  <2>2. QED
    BY <2>1
<1> HIDE DEF h
<1>5. SumOfFirst(t, l - 1) = h[l - 1]
  <2>1. l - 1 \in Nat /\ l - 1 \in 0..(l - 1)
    BY <1>1
  <2>2. QED
    BY <1>3, <2>1, SumCounts
<1>6. SumOfFirst(q, l) = g[l]
  <2>1. l \in 0..l
    BY <1>1
  <2>2. QED
    BY <1>1, <1>2, <2>1, SumCounts
<1>7. SumOfFirst(t, Len(t)) = SumOfFirst(q, l) - d
  BY <1>1, <1>4, <1>5, <1>6
<1>8. QED
  BY <1>1, <1>7 DEF t, l, d

LEMMA SumOfNone == SumOfFirst(<<>>, Len(<<>>)) = 0
<1>1. <<>> \in [1..0 -> Nat] /\ Len(<<>>) = 0
  BY EmptySeq
<1>2. QED
  BY <1>1, Sums

\* The bytes of the frames up to one of them.
LEMMA BytesUpTo ==
    ASSUME TypeOK
    PROVE  /\ Bytes(0) = 0
           /\ \A n \in 0..MaxFrames : Bytes(n) \in Nat
           /\ \A n \in 1..MaxFrames : /\ Bytes(n) = Bytes(n - 1) + Size(wire[n])
                                      /\ wire[n] \in Frame
                                      /\ wire[n].length \in Nat /\ wire[n].inflated \in Nat
                                      /\ wire[n].code \in Nat
                                      /\ ExtendedLength(wire[n]) \in Nat
                                      /\ Mask(wire[n]) \in {0, 4}
<1> DEFINE sizes == [i \in 1..MaxFrames |-> Size(wire[i])]
<1>1. MaxFrames \in Nat
  BY BoundsAssumption
<1>2. \A n \in 1..MaxFrames : /\ wire[n] \in Frame
                              /\ wire[n].length \in Nat /\ wire[n].inflated \in Nat
                              /\ wire[n].code \in Nat
                              /\ ExtendedLength(wire[n]) \in Nat
                              /\ Mask(wire[n]) \in {0, 4}
  <2> TAKE n \in 1..MaxFrames
  <2>0. wire \in [1..MaxFrames -> Frames]
    BY DEF TypeOK
  <2>1. wire[n] \in Frame
    BY <2>0, FramesAssumption
  <2> DEFINE f == wire[n]
  <2>2. /\ f.form \in {7, 16, 64} /\ f.masked \in BOOLEAN /\ f.code \in Nat
        /\ f.length \in 0..9 /\ f.inflated \in 0..9
    BY <2>1 DEF Frame, Unsafe, Corrupt
  <2> HIDE DEF f
  <2>3. f.length \in Nat /\ f.inflated \in Nat
    BY <2>2
  <2>4. ExtendedLength(f) \in Nat
    BY <2>2 DEF ExtendedLength
  <2>5. Mask(f) \in {0, 4}
    BY <2>2 DEF Mask
  <2>6. QED
    BY <2>1, <2>2, <2>3, <2>4, <2>5 DEF f
<1>3. sizes \in [1..MaxFrames -> Nat]
  BY <1>2 DEF Size
<1>4. \A n : Bytes(n) = SumOfFirst(sizes, n)
  BY DEF Bytes
<1>5. \A n \in 1..MaxFrames : sizes[n] = Size(wire[n])
  OBVIOUS
<1> HIDE DEF sizes
<1>6. QED
  BY <1>1, <1>2, <1>3, <1>4, <1>5, Sums

-----------------------------------------------------------------------------
(***************************************************************************)
(* The types, in three parts                                               *)
(***************************************************************************)
States == {"GET_INFO", "GET_PAYLOAD_LENGTH_16", "GET_PAYLOAD_LENGTH_64",
           "GET_MASK", "GET_DATA", "INFLATING"}

WritableTypes ==
    /\ unsent \in Nat /\ bufferedBytes \in Nat
    /\ queue \in Seq(1..MaxChunk)
    /\ ended \in BOOLEAN /\ loop \in BOOLEAN
    /\ failed \in {0, 1002, 1007, 1009}
    /\ owed \in {0, 1}

HeaderTypes ==
    /\ wire \in [1..MaxFrames -> Frames]
    /\ frame \in 0..MaxFrames
    /\ state \in States
    /\ fin \in BOOLEAN /\ masked \in BOOLEAN /\ compressed \in BOOLEAN
    /\ payloadLength \in Nat
    /\ opcode \in {0, 1, 2} \cup Control
    /\ fragmented \in {0, 1, 2}

Events == [type : {"message", "control", "conclude"}, parts : Seq(1..MaxFrames),
           length : Nat, code : Nat]

MessageTypes ==
    /\ totalPayloadLength \in Nat /\ messageLength \in Nat
    /\ fragments \in Seq(1..MaxFrames)
    /\ emitted \in Seq(Events)

LEMMA TypesApart == TypeOK <=> WritableTypes /\ HeaderTypes /\ MessageTypes
  BY DEF TypeOK, WritableTypes, HeaderTypes, MessageTypes, Events, States

LEMMA TypesApartNext == TypeOK' <=> WritableTypes' /\ HeaderTypes' /\ MessageTypes'
  BY DEF TypeOK, WritableTypes, HeaderTypes, MessageTypes, Events, States

\* The peer's frames stay what they are, and so do their bytes.
LEMMA SameBytes ==
    ASSUME wire' = wire
    PROVE  \A n : Bytes(n)' = Bytes(n)
  BY DEF Bytes

\* What is consumed after a step.
LEMMA ConsumedNext ==
    ASSUME wire' = wire, state' \in States
    PROVE  /\ state' \in {"GET_INFO", "INFLATING"} => Consumed' = Bytes(frame')
           /\ state' \in {"GET_PAYLOAD_LENGTH_16", "GET_PAYLOAD_LENGTH_64"} =>
                  Consumed' = Bytes(frame' - 1) + 2
           /\ state' = "GET_MASK" =>
                  Consumed' = Bytes(frame' - 1) + 2 + ExtendedLength(wire[frame'])
           /\ state' = "GET_DATA" => Consumed' = Bytes(frame') - wire[frame'].length
  BY DEF Consumed, Bytes, States

-----------------------------------------------------------------------------
(***************************************************************************)
(* How a turn of the loop, or the callback of zlib, ends                   *)
(***************************************************************************)
Errors == {1002, 1007, 1009}

\* The chunk is answered, the error is given, or the loop goes on; the chunk is owed
\* an answer exactly in the last case.
Outcome ==
    \/ Callback /\ state' # "INFLATING"
    \/ \E code \in Errors : Fail(code)
    \/ \E next \in States \ {"INFLATING"} :
           GoOn(next) /\ (next = "GET_INFO" => opcode' # 8)

LEMMA OutcomeAnswers ==
    ASSUME IInv, loop \/ Inflating, Outcome
    PROVE  /\ EveryChunkAnsweredOnce' /\ Running'
           /\ loop' \in BOOLEAN /\ owed' \in {0, 1}
           /\ failed' \in {0} \cup Errors
           /\ queue' \in Seq(1..MaxChunk)
           /\ failed' = 0 => queue' = queue
<1>1. owed = 1 /\ failed = 0
  BY DEF IInv, EveryChunkAnsweredOnce, Running, Inflating
<1>2. queue \in Seq(1..MaxChunk) /\ <<>> \in Seq(1..MaxChunk)
  BY EmptySeq, TypesApart DEF IInv, WritableTypes
<1>3. CASE Callback /\ state' # "INFLATING"
  <2>1. loop' = FALSE /\ owed' = 0 /\ failed' = 0 /\ queue' = queue
    BY <1>1, <1>3 DEF Callback
  <2>2. EveryChunkAnsweredOnce'
    BY <1>3, <2>1 DEF EveryChunkAnsweredOnce, Inflating
  <2>3. Running'
    BY <2>1 DEF Running
  <2>4. QED
    BY <1>2, <2>1, <2>2, <2>3
<1>4. CASE \E code \in Errors : Fail(code)
  <2>1. loop' = FALSE /\ owed' = 0 /\ failed' \in Errors /\ queue' = <<>>
    BY <1>1, <1>4 DEF Fail
  <2>2. failed' # 0
    BY <2>1 DEF Errors
  <2>3. EveryChunkAnsweredOnce'
    BY <2>1, <2>2 DEF EveryChunkAnsweredOnce, Inflating
  <2>4. Running'
    BY <2>1 DEF Running
  <2>5. QED
    BY <1>2, <2>1, <2>2, <2>3, <2>4
<1>5. CASE \E next \in States \ {"INFLATING"} :
               GoOn(next) /\ (next = "GET_INFO" => opcode' # 8)
  <2>1. /\ loop' = TRUE /\ owed' = 1 /\ failed' = 0 /\ queue' = queue
        /\ state' # "INFLATING" /\ (state' = "GET_INFO" => opcode' # 8)
    BY <1>1, <1>5 DEF GoOn
  <2>2. EveryChunkAnsweredOnce'
    BY <2>1 DEF EveryChunkAnsweredOnce, Inflating
  <2>3. Running'
    BY <2>1 DEF Running, Concluded
  <2>4. QED
    BY <1>2, <2>1, <2>2, <2>3
<1>6. QED
  BY <1>3, <1>4, <1>5 DEF Outcome

LEMMA ChunksAreNumbers ==
    ASSUME NEW q \in Seq(1..MaxChunk)
    PROVE  q \in Seq(Nat) /\ Len(q) \in Nat /\ q \in [1..Len(q) -> Nat]
<1>1. MaxChunk \in Nat
  BY BoundsAssumption
<1>2. q \in [1..Len(q) -> 1..MaxChunk] /\ Len(q) \in Nat
  BY LenProperties
<1>3. q \in [1..Len(q) -> Nat]
  BY <1>1, <1>2
<1>4. q \in Seq(Nat)
  BY <1>2, <1>3, SeqDef
<1>5. QED
  BY <1>2, <1>3, <1>4

LEMMA SumIsNumber ==
    ASSUME NEW q \in Seq(1..MaxChunk)
    PROVE  SumOfFirst(q, Len(q)) \in Nat
<1>1. Len(q) \in Nat /\ q \in [1..Len(q) -> Nat] /\ Len(q) \in 0..Len(q)
  BY ChunksAreNumbers
<1>2. QED
  BY <1>1, Sums

\* The loop moves bytes from the buffer to what it has consumed.
LEMMA CountedOn ==
    ASSUME IInv, failed = 0, ~Concluded, wire' = wire, unsent' = unsent, queue' = queue,
           NEW n \in Nat, Consumed \in Nat, Consumed' = Consumed + n,
           bufferedBytes >= n, bufferedBytes' = bufferedBytes - n
    PROVE  Counted'
<1>1. /\ Bytes(MaxFrames) \in Nat /\ unsent \in Nat /\ bufferedBytes \in Nat
      /\ queue \in Seq(1..MaxChunk) /\ MaxFrames \in Nat
  BY BytesUpTo, TypesApart, BoundsAssumption DEF IInv, WritableTypes
<1> DEFINE waiting == SumOfFirst(queue, Len(queue))
<1>2. waiting \in Nat
  BY <1>1, SumIsNumber
<1>3. Consumed + bufferedBytes + waiting + unsent = Bytes(MaxFrames)
  BY DEF IInv, Counted
<1>4. waiting' = waiting /\ Bytes(MaxFrames)' = Bytes(MaxFrames)
  BY SameBytes
<1> HIDE DEF waiting
<1>5. Consumed' + bufferedBytes' + waiting' + unsent' = Bytes(MaxFrames)'
  BY <1>1, <1>2, <1>3, <1>4
<1>6. QED
  BY <1>5 DEF Counted, waiting

\* What is consumed while the parser lives, and how the steps of a frame add up to it.
LEMMA ConsumedNow ==
    ASSUME IInv, failed = 0
    PROVE  /\ frame \in 0..MaxFrames /\ Consumed \in Nat
           /\ state = "GET_INFO" => Consumed = Bytes(frame)
           /\ state # "GET_INFO" =>
                  /\ frame \in 1..MaxFrames /\ frame - 1 \in 0..MaxFrames
                  /\ Bytes(frame) = Bytes(frame - 1) + Size(wire[frame])
                  /\ Bytes(frame - 1) \in Nat /\ Bytes(frame) \in Nat
           /\ state \in {"GET_PAYLOAD_LENGTH_16", "GET_PAYLOAD_LENGTH_64"} =>
                  Consumed = Bytes(frame - 1) + 2
           /\ state = "GET_MASK" =>
                  Consumed = Bytes(frame - 1) + 2 + ExtendedLength(wire[frame])
           /\ state = "GET_DATA" => Consumed = Bytes(frame) - wire[frame].length
           /\ state = "INFLATING" => Consumed = Bytes(frame)
<1>1. /\ frame \in 0..MaxFrames /\ MaxFrames \in Nat /\ state \in States
  BY TypesApart, BoundsAssumption DEF IInv, HeaderTypes
<1>2. state # "GET_INFO" => frame \in 1..MaxFrames /\ frame - 1 \in 0..MaxFrames
  BY <1>1 DEF IInv, InHand
<1>3. /\ \A n \in 0..MaxFrames : Bytes(n) \in Nat
      /\ \A n \in 1..MaxFrames : /\ Bytes(n) = Bytes(n - 1) + Size(wire[n])
                                 /\ ExtendedLength(wire[n]) \in Nat
                                 /\ wire[n].length \in Nat
                                 /\ Mask(wire[n]) \in {0, 4}
  BY BytesUpTo DEF IInv
<1>4. CASE state = "GET_INFO"
  BY <1>1, <1>3, <1>4 DEF Consumed
<1>5. CASE state \in {"GET_PAYLOAD_LENGTH_16", "GET_PAYLOAD_LENGTH_64"}
  BY <1>1, <1>2, <1>3, <1>5 DEF Consumed
<1>6. CASE state = "GET_MASK"
  BY <1>1, <1>2, <1>3, <1>6 DEF Consumed
<1>7. CASE state = "GET_DATA"
  <2> DEFINE f == wire[frame]
  <2>1. /\ Bytes(frame) = Bytes(frame - 1) + Size(f) /\ Bytes(frame - 1) \in Nat
        /\ ExtendedLength(f) \in Nat /\ f.length \in Nat /\ Mask(f) \in {0, 4}
        /\ Bytes(frame) \in Nat
    BY <1>2, <1>3, <1>7
  <2>2. Size(f) = 2 + ExtendedLength(f) + Mask(f) + f.length
    BY DEF Size
  <2> HIDE DEF f
  <2>3. Bytes(frame) - f.length \in Nat
    BY <2>1, <2>2
  <2>4. Consumed = Bytes(frame) - f.length
    BY <1>7 DEF Consumed, f
  <2>5. QED
    BY <1>1, <1>2, <1>7, <2>1, <2>3, <2>4 DEF f
<1>8. CASE state = "INFLATING"
  BY <1>1, <1>2, <1>3, <1>8 DEF Consumed
<1>9. QED
  BY <1>1, <1>4, <1>5, <1>6, <1>7, <1>8 DEF States

-----------------------------------------------------------------------------
(***************************************************************************)
(* The Writable                                                            *)
(***************************************************************************)

\* A step that leaves the parser's fields alone, but for the buffer.
LEMMA ParserStays ==
    ASSUME IInv, UNCHANGED Parser
    PROVE  /\ HeaderTypes' /\ MessageTypes'
           /\ failed' = failed => InHand' /\ Consumed' = Consumed /\ (Concluded' <=> Concluded)
           /\ \A n : Bytes(n)' = Bytes(n)
<1>1. UNCHANGED <<wire, frame, state, payloadLength, opcode, fin, masked, compressed,
                  fragmented, totalPayloadLength, messageLength, fragments, emitted>>
  BY DEF Parser, headerVars, messageVars
<1>2. HeaderTypes' /\ MessageTypes'
  BY <1>1, TypesApart DEF IInv, HeaderTypes, MessageTypes
<1>3. failed' = failed => InHand' /\ (Concluded' <=> Concluded)
  BY <1>1 DEF IInv, InHand, Concluded
<1>4. \A n : Bytes(n)' = Bytes(n)
  BY <1>1, SameBytes
<1>5. Consumed' = Consumed
  BY <1>1 DEF Consumed, Bytes
<1>6. QED
  BY <1>2, <1>3, <1>4, <1>5

\* What _write() does to a parser that is not inflating, with a chunk that leaves the
\* queue or comes at once.
LEMMA WritesKeep ==
    ASSUME IInv, ~loop, ~Inflating, failed = 0, NEW n \in 1..MaxChunk, _write(n),
           queue' \in Seq(1..MaxChunk), unsent' \in Nat,
           SumOfFirst(queue', Len(queue')) + unsent' + n
               = SumOfFirst(queue, Len(queue)) + unsent
    PROVE  IInv'
<1>0. MaxChunk \in Nat
  BY BoundsAssumption
<1>1. /\ unsent \in Nat /\ bufferedBytes \in Nat /\ n \in Nat /\ owed = 0
      /\ queue \in Seq(1..MaxChunk) /\ ended \in BOOLEAN /\ loop = FALSE
  BY <1>0, TypesApart DEF IInv, WritableTypes, EveryChunkAnsweredOnce
<1>2. /\ UNCHANGED Parser /\ ended' = ended /\ failed' = 0 /\ state' = state
      /\ opcode' = opcode
  BY DEF _write, Parser, headerVars
<1>3. state # "INFLATING"
  BY DEF Inflating
<1>4. CASE Concluded
  <2>1. UNCHANGED <<owed, bufferedBytes, loop>>
    BY <1>4 DEF _write, Concluded
  <2>2. WritableTypes'
    BY <1>1, <1>2, <2>1 DEF WritableTypes
  <2>3. EveryChunkAnsweredOnce' /\ Running'
    BY <1>1, <1>2, <1>3, <2>1 DEF EveryChunkAnsweredOnce, Inflating, Running
  <2>4. Concluded' /\ InHand' /\ HeaderTypes' /\ MessageTypes'
    BY <1>2, <1>4, ParserStays
  <2>5. Counted'
    BY <2>4 DEF Counted
  <2>6. QED
    BY <2>2, <2>3, <2>4, <2>5, TypesApartNext DEF IInv
<1>5. CASE ~Concluded
  <2>1. owed' = 1 /\ bufferedBytes' = bufferedBytes + n /\ loop' = TRUE
    BY <1>1, <1>5 DEF _write, Concluded
  <2>2. WritableTypes'
    BY <1>1, <1>2, <2>1 DEF WritableTypes
  <2>3. HeaderTypes' /\ MessageTypes' /\ InHand' /\ Consumed' = Consumed /\ ~Concluded'
    BY <1>2, <1>5, ParserStays
  <2>4. EveryChunkAnsweredOnce' /\ Running'
    BY <1>2, <1>3, <2>1, <2>3 DEF EveryChunkAnsweredOnce, Inflating, Running
  <2>5. Counted'
    <3> DEFINE w == SumOfFirst(queue, Len(queue))
               v == SumOfFirst(queue', Len(queue'))
               total == Bytes(MaxFrames)
    <3>1. w \in Nat /\ v \in Nat
      BY <1>1, SumIsNumber
    <3>2. Consumed \in Nat /\ total' = total
      BY <1>2, ConsumedNow, ParserStays
    <3>3. Consumed + bufferedBytes + w + unsent = total
      BY <1>5 DEF IInv, Counted
    <3>4. v + unsent' + n = w + unsent /\ unsent' \in Nat
      OBVIOUS
    <3> DEFINE d == Consumed
               b == bufferedBytes
               u == unsent'
    <3>5. /\ Consumed' = d /\ bufferedBytes' = b + n /\ total' = total
          /\ d + b + w + unsent = total /\ v + u + n = w + unsent
          /\ d \in Nat /\ b \in Nat /\ w \in Nat /\ v \in Nat /\ u \in Nat
          /\ n \in Nat /\ unsent \in Nat
      BY <1>1, <2>1, <2>3, <3>1, <3>2, <3>3, <3>4
    <3> HIDE DEF w, v, total, d, b, u
    <3>6. d + (b + n) + v + u = total
      BY <3>5
    <3>7. Consumed' + bufferedBytes' + v + unsent' = total'
      BY <3>5, <3>6 DEF u
    <3>8. QED
      BY <3>7 DEF Counted, v, total
  <2>6. QED
    BY <2>2, <2>3, <2>4, <2>5, TypesApartNext DEF IInv
<1>6. QED
  BY <1>4, <1>5

LEMMA WriteKeeps ==
    ASSUME IInv, NEW n \in 1..MaxChunk, Write(n)
    PROVE  IInv'
<1>0. MaxChunk \in Nat
  BY BoundsAssumption
<1>1. /\ queue \in Seq(1..MaxChunk) /\ unsent \in Nat /\ n \in Nat /\ ~loop /\ failed = 0
      /\ unsent' = unsent - n /\ n <= unsent /\ unsent' \in Nat
  BY <1>0, TypesApart DEF IInv, WritableTypes, Write
<1>2. queue \in Seq(Nat) /\ Len(queue) \in Nat /\ queue \in [1..Len(queue) -> Nat]
  BY <1>1, ChunksAreNumbers
<1> DEFINE w == SumOfFirst(queue, Len(queue))
           v == SumOfFirst(queue', Len(queue'))
<1>3. w \in Nat
  BY <1>2, Sums
<1>4. CASE Inflating
  <2>1. /\ queue' = Append(queue, n)
        /\ UNCHANGED <<ended, failed, owed, bufferedBytes, loop>> /\ UNCHANGED Parser
    BY <1>4 DEF Write
  <2>2. queue' \in Seq(1..MaxChunk)
    BY <1>1, <2>1, AppendProperties
  <2>3. v = w + n
    BY <1>1, <1>2, <2>1, SumOfAppend
  <2>4. WritableTypes'
    BY <1>1, <2>1, <2>2, TypesApart DEF IInv, WritableTypes
  <2>5. state' = state /\ opcode' = opcode
    BY <2>1 DEF Parser, headerVars
  <2>6. EveryChunkAnsweredOnce' /\ Running'
    BY <2>1, <2>5 DEF IInv, EveryChunkAnsweredOnce, Running, Inflating, Concluded
  <2>7. /\ HeaderTypes' /\ MessageTypes' /\ InHand' /\ Consumed' = Consumed
        /\ (Concluded' <=> Concluded) /\ Bytes(MaxFrames)' = Bytes(MaxFrames)
    BY <2>1, ParserStays
  <2>8. Counted'
    <3> DEFINE total == Bytes(MaxFrames)
    <3>1. Consumed \in Nat /\ bufferedBytes \in Nat /\ ~Concluded
      BY <1>1, <1>4, ConsumedNow, TypesApart DEF IInv, WritableTypes, Inflating, Concluded
    <3>2. Consumed + bufferedBytes + w + unsent = total
      BY <1>1, <3>1 DEF IInv, Counted
    <3>3. v = w' /\ total' = total
      BY <2>7
    <3> HIDE DEF w, v, total
    <3>4. Consumed' + bufferedBytes' + v + unsent' = total'
      BY <1>1, <1>3, <2>1, <2>3, <2>7, <3>1, <3>2, <3>3
    <3>5. QED
      BY <3>4 DEF Counted, v, total
  <2>9. QED
    BY <2>4, <2>6, <2>7, <2>8, TypesApartNext DEF IInv
<1>5. CASE ~Inflating
  <2>1. queue' = queue /\ _write(n)
    BY <1>5 DEF Write
  <2>2. v = w
    BY <2>1
  <2> HIDE DEF w, v
  <2>3. v + unsent' + n = w + unsent
    BY <1>1, <1>3, <2>2
  <2>4. QED
    BY <1>1, <1>5, <2>1, <2>3, WritesKeep DEF w, v
<1>6. QED
  BY <1>4, <1>5

LEMMA NextChunkKeeps ==
    ASSUME IInv, NextChunk
    PROVE  IInv'
<1>1. /\ queue \in Seq(1..MaxChunk) /\ unsent \in Nat /\ queue # <<>>
      /\ ~loop /\ ~Inflating /\ failed = 0
      /\ unsent' = unsent /\ queue' = Tail(queue) /\ _write(Head(queue))
  BY TypesApart DEF IInv, WritableTypes, NextChunk
<1>2. queue \in Seq(Nat) /\ Len(queue) \in Nat /\ queue \in [1..Len(queue) -> Nat]
  BY <1>1, ChunksAreNumbers
<1>3. Head(queue) \in 1..MaxChunk /\ queue' \in Seq(1..MaxChunk)
  BY <1>1, HeadTailProperties
<1> DEFINE w == SumOfFirst(queue, Len(queue))
           v == SumOfFirst(queue', Len(queue'))
           n == Head(queue)
<1>4. w \in Nat
  BY <1>2, Sums
<1>5. v = w - n /\ n \in Nat
  BY <1>1, <1>2, SumOfTail
<1> HIDE DEF w, v, n
<1>6. v + unsent' + n = w + unsent
  BY <1>1, <1>4, <1>5
<1>7. n \in 1..MaxChunk /\ _write(n) /\ unsent' \in Nat
  BY <1>1, <1>3 DEF n
<1>8. QED
  BY <1>1, <1>3, <1>6, <1>7, WritesKeep DEF w, v

\* end(), and what changes nothing.
LEMMA EndKeeps ==
    ASSUME IInv, End \/ UNCHANGED vars
    PROVE  IInv'
<1>1. /\ UNCHANGED <<unsent, queue, failed, owed, bufferedBytes, loop>> /\ UNCHANGED Parser
      /\ ended' \in BOOLEAN
  <2>1. ended \in BOOLEAN
    BY TypesApart DEF IInv, WritableTypes
  <2>2. CASE End
    BY <2>2 DEF End
  <2>3. CASE UNCHANGED vars
    BY <2>1, <2>3 DEF vars, writableVars, Parser
  <2>4. QED
    BY <2>2, <2>3
<1>2. WritableTypes'
  BY <1>1, TypesApart DEF IInv, WritableTypes
<1>3. /\ HeaderTypes' /\ MessageTypes' /\ InHand' /\ Consumed' = Consumed
      /\ (Concluded' <=> Concluded) /\ Bytes(MaxFrames)' = Bytes(MaxFrames)
  BY <1>1, ParserStays
<1>4. state' = state
  BY <1>1 DEF Parser
<1>5. EveryChunkAnsweredOnce' /\ Running'
  BY <1>1, <1>3, <1>4 DEF IInv, EveryChunkAnsweredOnce, Running, Inflating
<1>6. Counted'
  BY <1>1, <1>3 DEF IInv, Counted
<1>7. QED
  BY <1>2, <1>3, <1>5, <1>6, TypesApartNext DEF IInv

-----------------------------------------------------------------------------
(***************************************************************************)
(* The loop                                                                *)
(***************************************************************************)

\* What has to be shown of a step of the loop or of zlib: an error leaves nothing to
\* show of the frame in hand and of the bytes.
LEMMA OutcomeKeeps ==
    ASSUME IInv, loop \/ Inflating, Outcome,
           unsent' = unsent, ended' \in BOOLEAN, bufferedBytes' \in Nat,
           HeaderTypes', MessageTypes',
           failed' = 0 => InHand' /\ Counted'
    PROVE  IInv'
<1>1. /\ EveryChunkAnsweredOnce' /\ Running'
      /\ loop' \in BOOLEAN /\ owed' \in {0, 1} /\ failed' \in {0} \cup Errors
      /\ queue' \in Seq(1..MaxChunk) /\ unsent \in Nat
  BY OutcomeAnswers, TypesApart DEF IInv, WritableTypes
<1>2. WritableTypes'
  BY <1>1 DEF WritableTypes, Errors
<1>3. InHand' /\ Counted'
  BY DEF InHand, Counted
<1>4. QED
  BY <1>1, <1>2, <1>3, TypesApartNext DEF IInv

\* What is known when the loop runs.
LEMMA LoopFacts ==
    ASSUME IInv, loop
    PROVE  /\ failed = 0 /\ ~Concluded /\ state # "INFLATING"
           /\ bufferedBytes \in Nat /\ unsent \in Nat /\ ended \in BOOLEAN
           /\ HeaderTypes /\ MessageTypes
  BY TypesApart DEF IInv, Running, WritableTypes

LEMMA NotEnoughKeeps ==
    ASSUME IInv, NotEnough
    PROVE  IInv'
<1>1. /\ loop /\ Callback /\ UNCHANGED Parser
      /\ UNCHANGED <<unsent, ended, bufferedBytes, queue, failed>>
  BY DEF NotEnough, Callback, Outside
<1>2. /\ failed = 0 /\ ~Concluded /\ state # "INFLATING" /\ bufferedBytes \in Nat
      /\ ended \in BOOLEAN
  BY <1>1, LoopFacts
<1>3. state' = state
  BY <1>1 DEF Parser
<1>4. Outcome
  BY <1>1, <1>2, <1>3 DEF Outcome
<1>5. /\ HeaderTypes' /\ MessageTypes' /\ InHand' /\ Consumed' = Consumed
      /\ (Concluded' <=> Concluded) /\ Bytes(MaxFrames)' = Bytes(MaxFrames)
  BY <1>1, ParserStays
<1>6. Counted'
  BY <1>1, <1>5 DEF IInv, Counted
<1>7. ended' \in BOOLEAN /\ bufferedBytes' \in Nat /\ unsent' = unsent
  BY <1>1, <1>2
<1>8. QED
  BY <1>1, <1>4, <1>5, <1>6, <1>7, OutcomeKeeps

LEMMA GetMaskKeeps ==
    ASSUME IInv, GetMask
    PROVE  IInv'
<1>1. /\ loop /\ state = "GET_MASK" /\ bufferedBytes >= 4
      /\ bufferedBytes' = bufferedBytes - 4 /\ GoOn("GET_DATA")
      /\ state' = "GET_DATA" /\ UNCHANGED <<queue, failed>>
      /\ UNCHANGED <<wire, unsent, ended, frame, payloadLength, opcode, fin, masked,
                     compressed, fragmented, totalPayloadLength, messageLength, fragments,
                     emitted>>
  BY DEF GetMask, Consume, GoOn, Outside, headerVars, messageVars
<1>2. /\ failed = 0 /\ ~Concluded /\ bufferedBytes \in Nat
      /\ ended \in BOOLEAN /\ HeaderTypes /\ MessageTypes
  BY <1>1, LoopFacts
<1>3. Outcome
  BY <1>1 DEF Outcome, States
<1>4. HeaderTypes' /\ MessageTypes'
  BY <1>1, <1>2 DEF HeaderTypes, MessageTypes, States
<1>5. InHand'
  BY <1>1, <1>2 DEF IInv, InHand
<1>6. Consumed \in Nat /\ Consumed' = Consumed + 4
  <2> DEFINE f == wire[frame]
             b == Bytes(frame - 1)
  <2>1. /\ Consumed \in Nat /\ b \in Nat
        /\ Bytes(frame) = b + Size(f) /\ Consumed = b + 2 + ExtendedLength(f)
        /\ frame \in 1..MaxFrames
    BY <1>1, <1>2, ConsumedNow
  <2>2. f.masked /\ f.length \in Nat /\ ExtendedLength(f) \in Nat
    BY <1>1, <1>2, <2>1, BytesUpTo DEF IInv, InHand
  <2>3. Consumed' = Bytes(frame) - f.length
    BY <1>1, ConsumedNext DEF States
  <2> HIDE DEF f, b
  <2>4. Size(f) = 2 + ExtendedLength(f) + 4 + f.length
    BY <2>2 DEF Size, Mask
  <2>5. QED
    BY <2>1, <2>2, <2>3, <2>4
<1>7. Counted'
  BY <1>1, <1>2, <1>6, CountedOn
<1>8. ended' \in BOOLEAN /\ bufferedBytes' \in Nat
  BY <1>1, <1>2
<1>9. QED
  BY <1>1, <1>3, <1>4, <1>5, <1>7, <1>8, OutcomeKeeps

\* haveLength() fails or goes on to the mask or the data.
LEMMA HaveLengthEnds ==
    ASSUME NEW op, NEW mask \in BOOLEAN, NEW n \in Nat, totalPayloadLength \in Nat,
           failed = 0, HaveLength(op, mask, n)
    PROVE  /\ Outcome /\ totalPayloadLength' \in Nat
           /\ \/ failed' # 0 /\ state' = state
              \/ /\ failed' = 0 /\ queue' = queue
                 /\ state' = IF mask THEN "GET_MASK" ELSE "GET_DATA"
<1>1. CASE Fail(1009) /\ UNCHANGED <<state, totalPayloadLength>>
  <2>1. Outcome
    BY <1>1 DEF Outcome, Errors
  <2>2. failed' # 0
    BY <1>1 DEF Fail
  <2>3. QED
    BY <1>1, <2>1, <2>2
<1>2. CASE /\ GoOn(IF mask THEN "GET_MASK" ELSE "GET_DATA")
           /\ totalPayloadLength' = totalPayloadLength + IF op \in Control THEN 0 ELSE n
  <2> DEFINE next == IF mask THEN "GET_MASK" ELSE "GET_DATA"
  <2>1. next \in States \ {"INFLATING"} /\ next # "GET_INFO"
    BY DEF States
  <2>2. GoOn(next)
    BY <1>2
  <2> HIDE DEF next
  <2>3. Outcome
    BY <2>1, <2>2 DEF Outcome
  <2>4. failed' = 0 /\ queue' = queue /\ state' = next
    BY <2>2 DEF GoOn
  <2>5. totalPayloadLength' \in Nat
    BY <1>2
  <2>6. QED
    BY <2>3, <2>4, <2>5 DEF next
<1>3. QED
  BY <1>1, <1>2 DEF HaveLength

\* What is consumed when the length of a frame is known.
LEMMA LengthConsumed ==
    ASSUME IInv, wire' = wire, frame' \in 1..MaxFrames,
           state' = IF wire[frame'].masked THEN "GET_MASK" ELSE "GET_DATA"
    PROVE  Consumed' = Bytes(frame' - 1) + 2 + ExtendedLength(wire[frame'])
<1> DEFINE f == wire[frame']
           b == Bytes(frame' - 1)
<1>1. /\ Bytes(frame') = b + Size(f) /\ f.length \in Nat /\ ExtendedLength(f) \in Nat
      /\ f \in Frame
  BY BytesUpTo DEF IInv
<1>2. b \in Nat
  <2>1. frame' - 1 \in 0..MaxFrames
    <3>1. MaxFrames \in Nat
      BY BoundsAssumption
    <3>2. \A k \in 1..MaxFrames : k - 1 \in 0..MaxFrames
      BY <3>1
    <3>3. QED
      BY <3>2
  <2>2. QED
    BY <2>1, BytesUpTo DEF IInv
<1>3. CASE f.masked
  <2>1. state' = "GET_MASK"
    BY <1>3
  <2>2. QED
    BY <2>1, ConsumedNext DEF States
<1>4. CASE ~f.masked
  <2>1. state' = "GET_DATA"
    BY <1>4
  <2>2. Consumed' = Bytes(frame') - f.length
    BY <2>1, ConsumedNext DEF States
  <2>3. Size(f) = 2 + ExtendedLength(f) + 0 + f.length
    BY <1>4 DEF Size, Mask
  <2> HIDE DEF f, b
  <2>4. Consumed' = b + 2 + ExtendedLength(f)
    BY <1>1, <1>2, <2>2, <2>3
  <2>5. QED
    BY <2>4 DEF f, b
<1>5. QED
  BY <1>3, <1>4

\* getPayloadLength16() and getPayloadLength64() read the rest of the header.
LEMMA GetPayloadLengthKeeps ==
    ASSUME IInv, NEW s, NEW n \in Nat, GetPayloadLength(s, n),
           <<s, n>> \in {<<"GET_PAYLOAD_LENGTH_16", 2>>, <<"GET_PAYLOAD_LENGTH_64", 8>>}
    PROVE  IInv'
<1>1. /\ loop /\ state = s /\ bufferedBytes >= n /\ bufferedBytes' = bufferedBytes - n
      /\ UNCHANGED <<wire, unsent, ended, frame, payloadLength, opcode, fin, masked,
                     compressed, fragmented, messageLength, fragments, emitted>>
      /\ state \in {"GET_PAYLOAD_LENGTH_16", "GET_PAYLOAD_LENGTH_64"}
  BY DEF GetPayloadLength, Consume, Outside, headerVars
<1>2. /\ failed = 0 /\ ~Concluded /\ bufferedBytes \in Nat
      /\ ended \in BOOLEAN /\ HeaderTypes /\ MessageTypes
  BY <1>1, LoopFacts
<1>3. /\ frame \in 1..MaxFrames /\ frame' \in 1..MaxFrames /\ masked = wire[frame].masked
      /\ n = ExtendedLength(wire[frame])
      /\ payloadLength = wire[frame].length
  BY <1>1, <1>2 DEF IInv, InHand, ExtendedLength
<1>4. /\ Outcome /\ totalPayloadLength' \in Nat
      /\ \/ failed' # 0 /\ state' = state
         \/ /\ failed' = 0 /\ queue' = queue
            /\ state' = IF masked THEN "GET_MASK" ELSE "GET_DATA"
  <2>1. CASE Fail(1009) /\ UNCHANGED <<state, totalPayloadLength>>
    <3>1. Outcome
      BY <2>1 DEF Outcome, Errors
    <3>2. failed' # 0
      BY <2>1 DEF Fail
    <3>3. totalPayloadLength \in Nat
      BY <1>2 DEF MessageTypes
    <3>4. QED
      BY <2>1, <3>1, <3>2, <3>3
  <2>2. CASE HaveLength(opcode, masked, payloadLength)
    <3>1. masked \in BOOLEAN /\ payloadLength \in Nat /\ totalPayloadLength \in Nat
      BY <1>2 DEF HeaderTypes, MessageTypes
    <3>2. QED
      BY <1>2, <2>2, <3>1, HaveLengthEnds
  <2>3. QED
    BY <2>1, <2>2 DEF GetPayloadLength
<1>5. HeaderTypes' /\ MessageTypes'
  <2>1. state' \in States
    BY <1>2, <1>4 DEF States, HeaderTypes
  <2>2. QED
    BY <1>1, <1>2, <1>4, <2>1 DEF HeaderTypes, MessageTypes
<1>6. ASSUME failed' = 0 PROVE InHand' /\ Counted'
  <2>1. /\ queue' = queue /\ wire' = wire /\ frame' = frame
        /\ state' = IF wire[frame].masked THEN "GET_MASK" ELSE "GET_DATA"
    BY <1>1, <1>3, <1>4, <1>6
  <2>2. InHand'
    BY <1>1, <1>3, <2>1 DEF InHand
  <2>3. Consumed' = Bytes(frame - 1) + 2 + ExtendedLength(wire[frame])
    BY <1>3, <2>1, LengthConsumed
  <2>4. Consumed = Bytes(frame - 1) + 2 /\ Bytes(frame - 1) \in Nat
    BY <1>1, <1>2, ConsumedNow
  <2>5. Consumed' = Consumed + n /\ Consumed \in Nat
    BY <1>3, <2>3, <2>4
  <2>6. Counted'
    BY <1>1, <1>2, <2>1, <2>5, CountedOn
  <2>7. QED
    BY <2>2, <2>6
<1>7. ended' \in BOOLEAN /\ bufferedBytes' \in Nat /\ unsent' = unsent
  BY <1>1, <1>2
<1>8. QED
  BY <1>1, <1>4, <1>5, <1>6, <1>7, OutcomeKeeps

\* A frame begins only where the stream has one.
LEMMA AnotherFrame ==
    ASSUME IInv, loop, state = "GET_INFO", bufferedBytes >= 2
    PROVE  frame + 1 \in 1..MaxFrames /\ Consumed = Bytes(frame) /\ frame \in 0..MaxFrames
<1>1. /\ failed = 0 /\ ~Concluded /\ bufferedBytes \in Nat /\ unsent \in Nat
      /\ queue \in Seq(1..MaxChunk) /\ MaxFrames \in Nat
  BY LoopFacts, TypesApart, BoundsAssumption DEF IInv, WritableTypes
<1>2. frame \in 0..MaxFrames /\ Consumed = Bytes(frame) /\ Consumed \in Nat
  BY <1>1, ConsumedNow
<1>3. frame # MaxFrames
  <2>1. SUFFICES ASSUME frame = MaxFrames PROVE FALSE
    OBVIOUS
  <2> DEFINE w == SumOfFirst(queue, Len(queue))
             total == Bytes(MaxFrames)
  <2>2. w \in Nat
    BY <1>1, SumIsNumber
  <2>3. total + bufferedBytes + w + unsent = total /\ total \in Nat
    BY <1>1, <1>2, <2>1 DEF IInv, Counted
  <2> HIDE DEF w, total
  <2>4. QED
    BY <1>1, <2>2, <2>3
<1>4. QED
  BY <1>1, <1>2, <1>3

\* getInfo() begins a frame.
LEMMA GetInfoKeeps ==
    ASSUME IInv, GetInfo
    PROVE  IInv'
<1> DEFINE f == wire[frame + 1]
<1>1. /\ loop /\ state = "GET_INFO" /\ bufferedBytes >= 2
      /\ bufferedBytes' = bufferedBytes - 2 /\ frame' = frame + 1
      /\ UNCHANGED <<wire, unsent, ended, messageLength, fragments, emitted>>
  BY DEF GetInfo, Consume, Outside
<1>2. /\ failed = 0 /\ ~Concluded /\ bufferedBytes \in Nat
      /\ ended \in BOOLEAN /\ HeaderTypes /\ MessageTypes
  BY <1>1, LoopFacts
<1>3. /\ frame + 1 \in 1..MaxFrames /\ Consumed = Bytes(frame) /\ frame \in 0..MaxFrames
      /\ frame' \in 1..MaxFrames /\ frame' - 1 = frame
  BY <1>1, AnotherFrame
<1>4. /\ f \in Frame /\ f.length \in Nat /\ f.masked \in BOOLEAN /\ f.rsv1 \in BOOLEAN
      /\ f.fin \in BOOLEAN /\ f.form \in {7, 16, 64}
  <2>1. f \in Frame /\ f.length \in Nat
    BY <1>3, BytesUpTo DEF IInv
  <2>2. QED
    BY <2>1 DEF Frame
<1>5. CASE WrongInfo(f)
  <2>1. /\ Fail(1002)
        /\ UNCHANGED <<state, payloadLength, opcode, fin, masked, compressed, fragmented,
                       totalPayloadLength>>
    BY <1>5 DEF GetInfo, headerVars
  <2>2. Outcome /\ failed' # 0
    BY <2>1 DEF Outcome, Errors, Fail
  <2>3. HeaderTypes' /\ MessageTypes'
    BY <1>1, <1>2, <1>3, <2>1 DEF HeaderTypes, MessageTypes
  <2>4. ended' \in BOOLEAN /\ bufferedBytes' \in Nat /\ unsent' = unsent
    BY <1>1, <1>2
  <2>5. QED
    BY <1>1, <2>2, <2>3, <2>4, OutcomeKeeps
<1>6. CASE ~WrongInfo(f)
  <2>1. /\ fin' = f.fin /\ masked' = f.masked
        /\ opcode' = IF f.opcode = 0 THEN fragmented ELSE f.opcode
        /\ compressed' = IF f.opcode \in {1, 2} THEN f.rsv1 ELSE compressed
        /\ fragmented' = IF ~f.fin /\ fragmented = 0 THEN opcode' ELSE fragmented
        /\ payloadLength' = f.length
    BY <1>6 DEF GetInfo
  <2>2. /\ f.opcode \in {0, 1, 2} \cup Control
        /\ f.opcode = 0 => fragmented # 0
        /\ f.opcode \in Control => f.fin
    BY <1>4, <1>6 DEF WrongInfo
  <2>3. /\ opcode' \in {0, 1, 2} \cup Control /\ fragmented' \in {0, 1, 2}
        /\ fin' \in BOOLEAN /\ masked' \in BOOLEAN /\ compressed' \in BOOLEAN
        /\ payloadLength' \in Nat
    <3>1. fragmented \in {0, 1, 2} /\ compressed \in BOOLEAN
      BY <1>2 DEF HeaderTypes
    <3>2. opcode' \in {0, 1, 2} \cup Control
      BY <2>1, <2>2, <3>1
    <3>3. fragmented' \in {0, 1, 2}
      <4>1. ~f.fin => opcode' \in {0, 1, 2}
        BY <2>1, <2>2, <3>1
      <4>2. QED
        BY <2>1, <3>1, <4>1
    <3>4. QED
      BY <1>4, <2>1, <3>1, <3>2, <3>3
  <2>4. /\ Outcome /\ totalPayloadLength' \in Nat /\ state' \in States
        /\ failed' = 0 =>
              /\ queue' = queue
              /\ \/ state' = "GET_PAYLOAD_LENGTH_16" /\ f.form = 16
                 \/ state' = "GET_PAYLOAD_LENGTH_64" /\ f.form = 64
                 \/ /\ f.form = 7
                    /\ state' = IF f.masked THEN "GET_MASK" ELSE "GET_DATA"
    <3>0. totalPayloadLength \in Nat
      BY <1>2 DEF MessageTypes
    <3>1. CASE f.form = 16
      <4>1. GoOn("GET_PAYLOAD_LENGTH_16") /\ UNCHANGED totalPayloadLength
        BY <1>6, <3>1 DEF GetInfo
      <4>2. "GET_PAYLOAD_LENGTH_16" \in States \ {"INFLATING"}
        BY DEF States
      <4>3. Outcome
        BY <4>1, <4>2 DEF Outcome
      <4>4. QED
        BY <3>0, <3>1, <4>1, <4>2, <4>3 DEF GoOn
    <3>2. CASE f.form = 64
      <4>1. GoOn("GET_PAYLOAD_LENGTH_64") /\ UNCHANGED totalPayloadLength
        BY <1>6, <3>2 DEF GetInfo
      <4>2. "GET_PAYLOAD_LENGTH_64" \in States \ {"INFLATING"}
        BY DEF States
      <4>3. Outcome
        BY <4>1, <4>2 DEF Outcome
      <4>4. QED
        BY <3>0, <3>2, <4>1, <4>2, <4>3 DEF GoOn
    <3>3. CASE f.form = 7
      <4>1. HaveLength(opcode', f.masked, f.length)
        BY <1>6, <3>3 DEF GetInfo
      <4> DEFINE op == opcode'
                 mask == f.masked
                 len == f.length
      <4>2. HaveLength(op, mask, len) /\ mask \in BOOLEAN /\ len \in Nat
        BY <1>4, <4>1
      <4> HIDE DEF op, mask, len
      <4>3. /\ Outcome /\ totalPayloadLength' \in Nat
            /\ \/ failed' # 0 /\ state' = state
               \/ /\ failed' = 0 /\ queue' = queue
                  /\ state' = IF mask THEN "GET_MASK" ELSE "GET_DATA"
        BY <1>2, <3>0, <4>2, HaveLengthEnds
      <4>4. state' \in States
        BY <1>2, <4>3 DEF States, HeaderTypes
      <4>5. QED
        BY <3>3, <4>3, <4>4 DEF mask
    <3>4. QED
      BY <1>4, <3>1, <3>2, <3>3
  <2>5. HeaderTypes' /\ MessageTypes'
    <3>1. frame' \in 0..MaxFrames
      BY <1>3
    <3>2. QED
      BY <1>1, <1>2, <2>3, <2>4, <3>1 DEF HeaderTypes, MessageTypes
  <2>6. ASSUME failed' = 0 PROVE InHand' /\ Counted'
    <3>1. /\ queue' = queue /\ wire' = wire
          /\ \/ state' = "GET_PAYLOAD_LENGTH_16" /\ f.form = 16
             \/ state' = "GET_PAYLOAD_LENGTH_64" /\ f.form = 64
             \/ f.form = 7 /\ state' = IF f.masked THEN "GET_MASK" ELSE "GET_DATA"
      BY <1>1, <2>4, <2>6
    <3>2. InHand'
      BY <1>1, <1>3, <2>1, <3>1 DEF InHand
    <3>3. Consumed' = Bytes(frame) + 2
      <4>1. CASE state' \in {"GET_PAYLOAD_LENGTH_16", "GET_PAYLOAD_LENGTH_64"}
        BY <1>3, <3>1, <4>1, ConsumedNext DEF States
      <4>2. CASE f.form = 7 /\ state' = IF f.masked THEN "GET_MASK" ELSE "GET_DATA"
        <5>1. Consumed' = Bytes(frame' - 1) + 2 + ExtendedLength(wire[frame'])
          BY <1>1, <1>3, <3>1, <4>2, LengthConsumed
        <5>2. ExtendedLength(wire[frame']) = 0
          BY <1>1, <4>2 DEF ExtendedLength
        <5>3. Bytes(frame) \in Nat
          BY <1>3, BytesUpTo DEF IInv
        <5>4. Consumed' = Bytes(frame) + 2 + 0
          BY <1>3, <5>1, <5>2
        <5> DEFINE b == Bytes(frame)
        <5>5. Consumed' = b + 2 + 0 /\ b \in Nat
          BY <5>3, <5>4
        <5> HIDE DEF b
        <5>6. Consumed' = b + 2
          BY <5>5
        <5>7. QED
          BY <5>6 DEF b
      <4>3. QED
        BY <3>1, <4>1, <4>2
    <3>4. Consumed \in Nat /\ Consumed' = Consumed + 2
      BY <1>2, <1>3, <3>3, ConsumedNow
    <3>5. Counted'
      BY <1>1, <1>2, <3>1, <3>4, CountedOn
    <3>6. QED
      BY <3>2, <3>5
  <2>7. ended' \in BOOLEAN /\ bufferedBytes' \in Nat /\ unsent' = unsent
    BY <1>1, <1>2
  <2>8. QED
    BY <1>1, <2>4, <2>5, <2>6, <2>7, OutcomeKeeps
<1>7. QED
  BY <1>5, <1>6

LEMMA EmittedGrows ==
    ASSUME emitted \in Seq(Events), NEW type \in {"message", "control", "conclude"},
           NEW parts \in Seq(1..MaxFrames), NEW length \in Nat, NEW code \in Nat
    PROVE  Append(emitted, Event(type, parts, length, code)) \in Seq(Events)
<1> DEFINE e == Event(type, parts, length, code)
<1>1. e \in Events
  BY DEF Event, Events
<1> HIDE DEF e
<1>2. Append(emitted, e) \in Seq(Events)
  BY <1>1, AppendProperties
<1>3. QED
  BY <1>2 DEF e

\* dataMessage() fails or is done with the frame.
LEMMA DataMessageEnds ==
    ASSUME NEW length \in Nat, NEW parts \in Seq(1..MaxFrames), HeaderTypes, MessageTypes,
           failed = 0, opcode \notin Control, opcode' = opcode, DataMessage(length, parts)
    PROVE  /\ Outcome /\ MessageTypes' /\ fragmented' \in {0, 1, 2} /\ state' \in States
           /\ failed' = 0 => queue' = queue /\ state' = "GET_INFO"
<1>1. CASE Fail(1007) /\ UNCHANGED <<state, fragmented, messageVars, emitted>>
  <2>1. Outcome
    BY <1>1 DEF Outcome, Errors
  <2>2. failed' # 0
    BY <1>1 DEF Fail
  <2>3. MessageTypes' /\ fragmented' \in {0, 1, 2} /\ state' \in States
    BY <1>1 DEF MessageTypes, HeaderTypes, messageVars
  <2>4. QED
    BY <2>1, <2>2, <2>3
<1>2. CASE /\ GoOn("GET_INFO")
           /\ messageLength' = IF fin THEN 0 ELSE length
           /\ fragments' = IF fin THEN <<>> ELSE parts
           /\ fragmented' = IF fin THEN 0 ELSE fragmented
           /\ totalPayloadLength' = IF fin THEN 0 ELSE totalPayloadLength
           /\ emitted' = IF fin THEN Append(emitted, Event("message", parts, length, opcode))
                         ELSE emitted
  <2>1. "GET_INFO" \in States \ {"INFLATING"} /\ opcode' # 8
    BY DEF States, Control
  <2>2. Outcome
    BY <1>2, <2>1 DEF Outcome
  <2>3. failed' = 0 /\ queue' = queue /\ state' = "GET_INFO"
    BY <1>2 DEF GoOn
  <2>4. /\ opcode \in Nat /\ fragmented \in {0, 1, 2} /\ totalPayloadLength \in Nat
        /\ emitted \in Seq(Events)
    BY DEF HeaderTypes, MessageTypes, Control
  <2>5. Append(emitted, Event("message", parts, length, opcode)) \in Seq(Events)
    BY <2>4, EmittedGrows
  <2>6. emitted' \in Seq(Events)
    BY <1>2, <2>4, <2>5
  <2>7. fragments' \in Seq(1..MaxFrames)
    BY <1>2, EmptySeq
  <2>8. messageLength' \in Nat /\ totalPayloadLength' \in Nat /\ fragmented' \in {0, 1, 2}
    BY <1>2, <2>4
  <2>9. QED
    BY <2>1, <2>2, <2>3, <2>6, <2>7, <2>8 DEF MessageTypes
<1>3. QED
  BY <1>1, <1>2 DEF DataMessage

\* The bytes when a frame has been read.
LEMMA FrameRead ==
    ASSUME IInv, failed = 0, state # "GET_INFO", ~Concluded, NEW n \in Nat,
           Consumed = Bytes(frame) - n, bufferedBytes >= n, bufferedBytes' = bufferedBytes - n,
           wire' = wire, unsent' = unsent, queue' = queue, frame' = frame,
           state' \in {"GET_INFO", "INFLATING"}
    PROVE  Counted'
<1>1. Consumed \in Nat /\ Bytes(frame) \in Nat
  BY ConsumedNow
<1>2. Consumed' = Bytes(frame)
  BY ConsumedNext DEF States
<1> DEFINE b == Bytes(frame)
<1>3. Consumed = b - n /\ Consumed' = b /\ b \in Nat
  BY <1>1, <1>2
<1> HIDE DEF b
<1>4. Consumed' = Consumed + n
  BY <1>1, <1>3
<1>5. QED
  BY <1>1, <1>4, CountedOn

\* A ping or a pong, and a close frame.
LEMMA PingPongEnds ==
    ASSUME HeaderTypes, MessageTypes, failed = 0, frame \in 1..MaxFrames, opcode # 8,
           opcode' = opcode, UNCHANGED messageVars, ended \in BOOLEAN, PingPong
    PROVE  /\ Outcome /\ MessageTypes' /\ ended' \in BOOLEAN
           /\ failed' = 0 /\ queue' = queue /\ state' = "GET_INFO"
<1>1. "GET_INFO" \in States \ {"INFLATING"} /\ opcode' # 8 /\ GoOn("GET_INFO")
  BY DEF States, PingPong
<1>2. Outcome
  BY <1>1 DEF Outcome
<1>3. opcode \in Nat /\ payloadLength \in Nat /\ emitted \in Seq(Events)
  BY DEF HeaderTypes, MessageTypes, Control
<1>4. <<frame>> \in Seq(1..MaxFrames)
  OBVIOUS
<1>5. Append(emitted, Event("control", <<frame>>, payloadLength, opcode)) \in Seq(Events)
  BY <1>3, <1>4, EmittedGrows
<1>6. MessageTypes'
  BY <1>5 DEF MessageTypes, messageVars, PingPong
<1>7. QED
  BY <1>1, <1>2, <1>6 DEF GoOn, PingPong

LEMMA ConcludeEnds ==
    ASSUME IInv, HeaderTypes, MessageTypes, failed = 0, frame \in 1..MaxFrames,
           UNCHANGED messageVars, ended \in BOOLEAN, Conclude
    PROVE  /\ Outcome /\ MessageTypes' /\ ended' \in BOOLEAN /\ state' \in States
           /\ failed' = 0 => queue' = queue /\ state' = "GET_INFO"
<1> DEFINE code == IF payloadLength = 0 THEN 1005 ELSE wire[frame].code
<1>1. CASE \E error \in Errors : Fail(error) /\ UNCHANGED <<state, ended, emitted>>
  <2>1. Outcome
    BY <1>1 DEF Outcome
  <2>2. failed' # 0
    BY <1>1 DEF Fail, Errors
  <2>3. MessageTypes' /\ ended' \in BOOLEAN /\ state' \in States
    BY <1>1 DEF MessageTypes, HeaderTypes, messageVars
  <2>4. QED
    BY <2>1, <2>2, <2>3
<1>2. CASE /\ Callback
           /\ state' = "GET_INFO"
           /\ ended' = TRUE
           /\ emitted' = Append(emitted, Event("conclude", <<>>, 0, code))
  <2>1. Outcome
    BY <1>2 DEF Outcome
  <2>2. wire[frame].code \in Nat
    BY BytesUpTo DEF IInv
  <2>3. code \in Nat
    BY <2>2
  <2> HIDE DEF code
  <2>4. emitted \in Seq(Events) /\ <<>> \in Seq(1..MaxFrames)
    BY EmptySeq DEF MessageTypes
  <2>5. Append(emitted, Event("conclude", <<>>, 0, code)) \in Seq(Events)
    BY <2>3, <2>4, EmittedGrows
  <2>6. MessageTypes'
    BY <1>2, <2>5 DEF MessageTypes, messageVars
  <2>7. state' \in States
    BY <1>2 DEF States
  <2>8. QED
    BY <1>2, <2>1, <2>6, <2>7 DEF Callback
<1>3. 1002 \in Errors /\ 1007 \in Errors
  BY DEF Errors
<1>4. \/ Fail(1002) /\ UNCHANGED <<state, ended, emitted>>
      \/ Fail(1007) /\ UNCHANGED <<state, ended, emitted>>
      \/ /\ Callback
         /\ state' = "GET_INFO"
         /\ ended' = TRUE
         /\ emitted' = Append(emitted, Event("conclude", <<>>, 0, code))
  BY DEF Conclude
<1>5. CASE Fail(1002) /\ UNCHANGED <<state, ended, emitted>>
  BY <1>1, <1>3, <1>5
<1>6. CASE Fail(1007) /\ UNCHANGED <<state, ended, emitted>>
  BY <1>1, <1>3, <1>6
<1>7. QED
  BY <1>2, <1>4, <1>5, <1>6, ZenonT(40)

LEMMA GetDataKeeps ==
    ASSUME IInv, GetData
    PROVE  IInv'
<1>1. /\ loop /\ state = "GET_DATA" /\ bufferedBytes >= payloadLength
      /\ bufferedBytes' = bufferedBytes - payloadLength
      /\ UNCHANGED <<wire, unsent, frame, payloadLength, opcode, fin, masked, compressed>>
  BY DEF GetData, Consume, Outside
<1>2. /\ failed = 0 /\ ~Concluded /\ bufferedBytes \in Nat /\ unsent' = unsent
      /\ ended \in BOOLEAN /\ HeaderTypes /\ MessageTypes
  BY <1>1, LoopFacts
<1>3. /\ frame \in 1..MaxFrames /\ payloadLength \in Nat /\ bufferedBytes' \in Nat
      /\ Consumed = Bytes(frame) - payloadLength
  <2>1. frame \in 1..MaxFrames /\ payloadLength = wire[frame].length
    BY <1>1, <1>2 DEF IInv, InHand
  <2>2. payloadLength \in Nat
    BY <1>2 DEF HeaderTypes
  <2>3. Consumed = Bytes(frame) - payloadLength
    BY <1>1, <1>2, <2>1, ConsumedNow
  <2>4. QED
    BY <1>1, <1>2, <2>1, <2>2, <2>3
<1>4. ASSUME state' \in States, fragmented' \in {0, 1, 2}
      PROVE  HeaderTypes'
  BY <1>1, <1>2, <1>4 DEF HeaderTypes
<1>5. ASSUME state' \in {"GET_INFO", "INFLATING"}, queue' = queue
      PROVE  Counted'
  BY <1>1, <1>2, <1>3, <1>5, FrameRead
<1>6. ASSUME Outcome, MessageTypes', HeaderTypes', ended' \in BOOLEAN,
             failed' = 0 => queue' = queue /\ state' = "GET_INFO"
      PROVE  IInv'
  <2>1. failed' = 0 => InHand' /\ Counted'
    BY <1>5, <1>6 DEF InHand
  <2>2. QED
    BY <1>1, <1>2, <1>3, <1>6, <2>1, OutcomeKeeps
<1>7. CASE /\ opcode \in Control
           /\ IF opcode = 8 THEN Conclude ELSE PingPong
           /\ UNCHANGED <<fragmented, messageVars>>
  <2>1. fragmented' \in {0, 1, 2} /\ UNCHANGED messageVars
    BY <1>2, <1>7 DEF HeaderTypes
  <2>2. CASE opcode = 8
    <3>1. Conclude
      BY <1>7, <2>2
    <3>2. /\ Outcome /\ MessageTypes' /\ ended' \in BOOLEAN /\ state' \in States
          /\ failed' = 0 => queue' = queue /\ state' = "GET_INFO"
      BY <1>2, <1>3, <2>1, <3>1, ConcludeEnds
    <3>3. QED
      BY <1>4, <1>6, <2>1, <3>2
  <2>3. CASE opcode # 8
    <3>1. PingPong /\ opcode' = opcode
      BY <1>1, <1>7, <2>3
    <3>2. /\ Outcome /\ MessageTypes' /\ ended' \in BOOLEAN
          /\ failed' = 0 /\ queue' = queue /\ state' = "GET_INFO"
      BY <1>2, <1>3, <2>1, <2>3, <3>1, PingPongEnds
    <3>3. state' \in States
      BY <3>2 DEF States
    <3>4. QED
      BY <1>4, <1>6, <2>1, <3>2, <3>3
  <2>4. QED
    BY <2>2, <2>3
<1>8. CASE /\ opcode \notin Control
           /\ compressed
           /\ state' = "INFLATING"
           /\ loop' = FALSE
           /\ UNCHANGED <<queue, failed, owed, ended, fragmented, messageVars, emitted>>
  <2>1. HeaderTypes'
    <3>1. state' \in States /\ fragmented' \in {0, 1, 2}
      BY <1>2, <1>8 DEF States, HeaderTypes
    <3>2. QED
      BY <1>4, <3>1
  <2>2. MessageTypes'
    BY <1>2, <1>8 DEF MessageTypes, messageVars
  <2>3. WritableTypes'
    <3>1. WritableTypes
      BY TypesApart DEF IInv
    <3>2. /\ unsent' = unsent /\ bufferedBytes' \in Nat /\ loop' \in BOOLEAN
          /\ UNCHANGED <<queue, failed, owed, ended>>
      BY <1>2, <1>3, <1>8
    <3>3. QED
      BY <3>1, <3>2 DEF WritableTypes
  <2>4. EveryChunkAnsweredOnce' /\ Running'
    BY <1>1, <1>2, <1>8 DEF IInv, EveryChunkAnsweredOnce, Running, Inflating
  <2>5. InHand'
    BY <1>1, <1>2, <1>8 DEF IInv, InHand
  <2>6. Counted'
    BY <1>5, <1>8
  <2>7. QED
    BY <2>1, <2>2, <2>3, <2>4, <2>5, <2>6, TypesApartNext DEF IInv
<1>9. CASE /\ opcode \notin Control
           /\ ~compressed
           /\ IF payloadLength > 0
              THEN DataMessage(totalPayloadLength, Append(fragments, frame))
              ELSE DataMessage(messageLength, fragments)
           /\ UNCHANGED ended
  <2>1. PICK length \in Nat, parts \in Seq(1..MaxFrames) : DataMessage(length, parts)
    <3> DEFINE more == Append(fragments, frame)
    <3>1. /\ totalPayloadLength \in Nat /\ messageLength \in Nat
          /\ fragments \in Seq(1..MaxFrames)
      BY <1>2 DEF MessageTypes
    <3>2. more \in Seq(1..MaxFrames)
      BY <1>3, <3>1, AppendProperties
    <3>3. DataMessage(totalPayloadLength, more) \/ DataMessage(messageLength, fragments)
      BY <1>9
    <3> HIDE DEF more
    <3>4. QED
      BY <3>1, <3>2, <3>3
  <2>2. opcode' = opcode
    BY <1>1
  <2>3. /\ Outcome /\ MessageTypes' /\ fragmented' \in {0, 1, 2} /\ state' \in States
        /\ failed' = 0 => queue' = queue /\ state' = "GET_INFO"
    BY <1>2, <1>9, <2>1, <2>2, DataMessageEnds
  <2>4. ended' \in BOOLEAN
    BY <1>2, <1>9
  <2>5. QED
    BY <1>4, <1>6, <2>3, <2>4
<1>10. QED
  BY <1>7, <1>8, <1>9 DEF GetData

\* The callback of decompress().
LEMMA InflatedKeeps ==
    ASSUME IInv, Inflated
    PROVE  IInv'
<1>1. /\ Inflating /\ state = "INFLATING" /\ failed = 0
      /\ UNCHANGED <<wire, unsent, ended, bufferedBytes, frame, payloadLength, opcode, fin,
                     masked, compressed>>
  BY DEF Inflated, Inflating, Outside
<1>2. /\ HeaderTypes /\ MessageTypes /\ bufferedBytes \in Nat /\ bufferedBytes' \in Nat
      /\ ended \in BOOLEAN /\ ended' \in BOOLEAN /\ unsent' = unsent
  BY <1>1, TypesApart DEF IInv, WritableTypes
<1>3. frame \in 1..MaxFrames /\ opcode \notin Control /\ opcode' = opcode /\ ~Concluded
  BY <1>1 DEF IInv, InHand, Concluded
<1> DEFINE n == wire[frame].inflated
<1>4. /\ Outcome /\ MessageTypes' /\ fragmented' \in {0, 1, 2} /\ state' \in States
      /\ failed' = 0 => queue' = queue /\ state' = "GET_INFO"
  <2>1. CASE \E error \in Errors :
                 Fail(error) /\ UNCHANGED <<state, fragmented, messageVars, emitted>>
    <3>1. Outcome
      BY <2>1 DEF Outcome
    <3>2. failed' # 0
      BY <2>1 DEF Fail, Errors
    <3>3. MessageTypes' /\ fragmented' \in {0, 1, 2} /\ state' \in States
      BY <1>2, <2>1 DEF MessageTypes, HeaderTypes, messageVars
    <3>4. QED
      BY <3>1, <3>2, <3>3
  <2>2. CASE \E length \in Nat, parts \in Seq(1..MaxFrames) : DataMessage(length, parts)
    BY <1>1, <1>2, <1>3, <2>2, DataMessageEnds
  <2>3. /\ n \in Nat /\ messageLength \in Nat /\ fragments \in Seq(1..MaxFrames)
        /\ messageLength + n \in Nat
    BY <1>2, <1>3, BytesUpTo DEF IInv, MessageTypes
  <2>4. Append(fragments, frame) \in Seq(1..MaxFrames)
    BY <1>3, <2>3, AppendProperties
  <2>5. \/ Fail(1007) /\ UNCHANGED <<state, fragmented, messageVars, emitted>>
        \/ Fail(1009) /\ UNCHANGED <<state, fragmented, messageVars, emitted>>
        \/ DataMessage(messageLength + n, Append(fragments, frame))
        \/ DataMessage(messageLength, fragments)
    BY DEF Inflated
  <2>6. 1007 \in Errors /\ 1009 \in Errors
    BY DEF Errors
  <2> DEFINE more == Append(fragments, frame)
             all == messageLength + n
  <2>7. all \in Nat /\ more \in Seq(1..MaxFrames)
    BY <2>3, <2>4
  <2>8. DataMessage(all, more) => \E length \in Nat, parts \in Seq(1..MaxFrames) :
                                      DataMessage(length, parts)
    <3> HIDE DEF all, more
    <3>1. QED
      BY <2>7
  <2>9. DataMessage(messageLength, fragments) =>
            \E length \in Nat, parts \in Seq(1..MaxFrames) : DataMessage(length, parts)
    BY <2>3
  <2>10. QED
    BY <2>1, <2>2, <2>5, <2>6, <2>8, <2>9
<1>5. HeaderTypes'
  BY <1>1, <1>2, <1>4 DEF HeaderTypes
<1>6. ASSUME failed' = 0 PROVE InHand' /\ Counted'
  <2>1. queue' = queue /\ state' = "GET_INFO"
    BY <1>4, <1>6
  <2>2. InHand'
    BY <2>1 DEF InHand
  <2>3. Consumed = Bytes(frame) /\ Consumed \in Nat
    BY <1>1, ConsumedNow
  <2>4. Consumed' = Bytes(frame)
    BY <1>1, <2>1, ConsumedNext DEF States
  <2>5. /\ 0 \in Nat /\ Consumed' = Consumed + 0 /\ bufferedBytes >= 0
        /\ bufferedBytes' = bufferedBytes - 0
    BY <1>1, <1>2, <2>3, <2>4
  <2>6. Counted'
    BY <1>1, <1>3, <2>1, <2>3, <2>5, CountedOn
  <2>7. QED
    BY <2>2, <2>6
<1>7. QED
  BY <1>1, <1>2, <1>4, <1>5, <1>6, OutcomeKeeps

-----------------------------------------------------------------------------
(***************************************************************************)
(* The invariant                                                           *)
(***************************************************************************)
LEMMA InitIInv == Init => IInv
<1> SUFFICES ASSUME Init PROVE IInv
  OBVIOUS
<1>1. MaxFrames \in Nat
  BY BoundsAssumption
<1>2. wire \in [1..MaxFrames -> Frames]
  BY DEF Init, TupleOf
<1>3. HeaderTypes
  <2>1. 0 \in 0..MaxFrames
    BY <1>1
  <2>2. QED
    BY <1>2, <2>1 DEF Init, HeaderTypes, States
<1>4. MessageTypes
  BY EmptySeq DEF Init, MessageTypes
<1> DEFINE sizes == [i \in 1..MaxFrames |-> Size(wire[i])]
<1>5. Bytes(0) = 0 /\ Bytes(MaxFrames) \in Nat
  <2>1. \A i \in 1..MaxFrames : Size(wire[i]) \in Nat
    <3> TAKE i \in 1..MaxFrames
    <3>1. wire[i] \in Frame
      BY <1>2, FramesAssumption
    <3> DEFINE f == wire[i]
    <3>2. f.form \in {7, 16, 64} /\ f.length \in 0..9
      BY <3>1 DEF Frame, Unsafe
    <3> HIDE DEF f
    <3>3. ExtendedLength(f) \in Nat /\ f.length \in Nat
      BY <3>2 DEF ExtendedLength
    <3>4. Mask(f) \in {0, 4}
      BY DEF Mask
    <3>5. Size(f) \in Nat
      BY <3>3, <3>4 DEF Size
    <3>6. QED
      BY <3>5 DEF f
  <2>2. sizes \in [1..MaxFrames -> Nat]
    BY <2>1
  <2>3. \A n : Bytes(n) = SumOfFirst(sizes, n)
    BY DEF Bytes
  <2>4. MaxFrames \in 0..MaxFrames
    BY <1>1
  <2> HIDE DEF sizes
  <2>5. QED
    BY <1>1, <2>2, <2>3, <2>4, Sums
<1>6. WritableTypes
  BY <1>5, EmptySeq DEF Init, WritableTypes
<1>7. TypeOK
  BY <1>3, <1>4, <1>6, TypesApart
<1>8. EveryChunkAnsweredOnce /\ Running /\ InHand
  BY DEF Init, EveryChunkAnsweredOnce, Inflating, Running, InHand
<1>9. Counted
  <2>1. /\ Consumed = 0 /\ bufferedBytes = 0 /\ unsent = Bytes(MaxFrames)
        /\ queue = <<>>
    BY <1>5 DEF Init, Consumed
  <2>2. SumOfFirst(queue, Len(queue)) = 0
    BY <2>1, SumOfNone
  <2> DEFINE w == SumOfFirst(queue, Len(queue))
             total == Bytes(MaxFrames)
  <2>3. w = 0 /\ total \in Nat /\ unsent = total
    BY <1>5, <2>1, <2>2
  <2> HIDE DEF w, total
  <2>4. Consumed + bufferedBytes + w + unsent = total
    BY <2>1, <2>3
  <2>5. QED
    BY <2>4 DEF Counted, w, total
<1>10. QED
  BY <1>7, <1>8, <1>9 DEF IInv

LEMMA NextKeepsIInv == IInv /\ [Next]_vars => IInv'
<1> SUFFICES ASSUME IInv, [Next]_vars PROVE IInv'
  OBVIOUS
<1>1. ASSUME NEW n \in 1..MaxChunk, Write(n) PROVE IInv'
  BY <1>1, WriteKeeps
<1>2. CASE NextChunk
  BY <1>2, NextChunkKeeps
<1>3. CASE End \/ UNCHANGED vars
  BY <1>3, EndKeeps
<1>4. CASE NotEnough
  BY <1>4, NotEnoughKeeps
<1>5. CASE GetInfo
  BY <1>5, GetInfoKeeps
<1>6. CASE GetPayloadLength("GET_PAYLOAD_LENGTH_16", 2)
  BY <1>6, GetPayloadLengthKeeps
<1>7. CASE GetPayloadLength("GET_PAYLOAD_LENGTH_64", 8)
  BY <1>7, GetPayloadLengthKeeps
<1>8. CASE GetMask
  BY <1>8, GetMaskKeeps
<1>9. CASE GetData
  BY <1>9, GetDataKeeps
<1>10. CASE Inflated
  BY <1>10, InflatedKeeps
<1>11. QED
  BY <1>1, <1>2, <1>3, <1>4, <1>5, <1>6, <1>7, <1>8, <1>9, <1>10 DEF Next

LEMMA Invariance == Spec => []IInv
  BY InitIInv, NextKeepsIInv, PTL DEF Spec

\* Whatever the peer sends and however it is cut, the fields of the parser keep their
\* types.
THEOREM TypeCorrect == Spec => []TypeOK
<1>1. IInv => TypeOK
  BY DEF IInv
<1>2. QED
  BY <1>1, Invariance, PTL

\* For every stream, sound or wrong, cut into chunks anywhere, and however long zlib
\* takes, _write() calls the callback of each chunk once.
THEOREM ChunksAnsweredOnce == Spec => []EveryChunkAnsweredOnce
<1>1. IInv => EveryChunkAnsweredOnce
  BY DEF IInv
<1>2. QED
  BY <1>1, Invariance, PTL

\* Until the receiver fails or has read the close frame, every byte of the stream is in
\* one place: consumed by the frames that were read, buffered, waiting in a chunk of the
\* Writable or on its way.
THEOREM BytesAccounted == Spec => []Counted
<1>1. IInv => Counted
  BY DEF IInv
<1>2. QED
  BY <1>1, Invariance, PTL

\* The sum of the first numbers depends on these only, and on none that is zero.
LEMMA SumSame ==
    ASSUME NEW n \in Nat, NEW f \in [1..n -> Nat], NEW g \in [1..n -> Nat],
           NEW k \in 0..n, \A i \in 1..k : f[i] = g[i]
    PROVE  SumOfFirst(f, k) = SumOfFirst(g, k)
<1>1. PICK h \in [0..n -> Nat] : Counts(h, f, n)
  BY CountsExist
<1> DEFINE u == [i \in 0..k |-> h[i]]
<1>2. k \in Nat /\ k \in 0..k /\ \A i \in 1..k : i \in 1..n /\ i \in 0..n /\ i - 1 \in 0..k
  OBVIOUS
<1>3. Counts(u, g, k) /\ Counts(u, f, k)
  <2>1. u \in [0..k -> Int] /\ u[0] = 0
    BY <1>1 DEF Counts
  <2>2. ASSUME NEW i \in 1..k PROVE u[i] = u[i - 1] + f[i] /\ u[i] = u[i - 1] + g[i]
    <3>1. u[i] = h[i] /\ u[i - 1] = h[i - 1]
      BY <1>2
    <3>2. h[i] = h[i - 1] + f[i] /\ f[i] = g[i]
      BY <1>1, <1>2 DEF Counts
    <3> HIDE DEF u
    <3>3. QED
      BY <3>1, <3>2
  <2> HIDE DEF u
  <2>3. QED
    BY <2>1, <2>2 DEF Counts
<1> HIDE DEF u
<1>4. SumOfFirst(f, k) = u[k] /\ SumOfFirst(g, k) = u[k]
  BY <1>2, <1>3, SumCounts
<1>5. QED
  BY <1>4

LEMMA SumOfZeros ==
    ASSUME NEW n \in Nat, NEW f \in [1..n -> Nat], NEW k \in 0..n,
           \A i \in 1..k : f[i] = 0
    PROVE  SumOfFirst(f, k) = 0
<1> DEFINE u == [i \in 0..k |-> 0]
<1>1. k \in Nat /\ k \in 0..k
  OBVIOUS
<1>2. Counts(u, f, k)
  BY <1>1 DEF Counts
<1>3. u[k] = 0
  BY <1>1
<1> HIDE DEF u
<1>4. QED
  BY <1>1, <1>2, <1>3, SumCounts

LEMMA SumGrows ==
    ASSUME NEW n \in Nat, NEW f \in [1..n -> Nat], NEW j \in 0..n, NEW k \in j..n
    PROVE  SumOfFirst(f, j) <= SumOfFirst(f, k)
<1> DEFINE S(i) == SumOfFirst(f, i)
           T == {i \in j..n : ~(S(j) <= S(i))}
<1>1. /\ \A i \in 0..n : S(i) \in Nat
      /\ \A i \in 1..n : S(i) = S(i - 1) + f[i] /\ f[i] \in Nat
  BY Sums
<1> HIDE DEF S
<1>2. SUFFICES ASSUME T # {} PROVE FALSE
  <2>1. k \notin T => S(j) <= S(k)
    OBVIOUS
  <2>2. QED
    BY <1>2, <2>1 DEF S
<1>3. PICK m \in T : \A y \in T : m <= y
  <2>1. T \in SUBSET Nat
    OBVIOUS
  <2> HIDE DEF T
  <2>2. QED
    BY <1>2, <2>1, LeastNumber
<1>4. m # j
  BY <1>1, <1>3
<1>5. m - 1 \in j..n /\ m \in 1..n /\ m - 1 \in 0..n /\ m - 1 \notin T
  BY <1>3, <1>4
<1>6. S(j) <= S(m - 1) /\ S(m) = S(m - 1) + f[m] /\ f[m] \in Nat
  BY <1>1, <1>5
<1>7. S(j) \in Nat /\ S(m - 1) \in Nat /\ S(m) \in Nat
  BY <1>1, <1>5
<1>8. QED
  BY <1>3, <1>6, <1>7

-----------------------------------------------------------------------------
(***************************************************************************)
(* Numbers in order                                                        *)
(***************************************************************************)

\* g lists the numbers up to each of the first n that are in S.
Lists(g, S, n) ==
    /\ g \in [0..n -> Seq(Nat)]
    /\ g[0] = <<>>
    /\ \A i \in 1..n : g[i] = IF i \in S THEN Append(g[i - 1], i) ELSE g[i - 1]

LEMMA ListsExist ==
    ASSUME NEW n \in Nat, NEW S
    PROVE  \E g : Lists(g, S, n)
<1> DEFINE Upto(g, k) == /\ g \in [0..n -> Seq(Nat)] /\ g[0] = <<>>
                         /\ \A i \in 1..k : g[i] = IF i \in S THEN Append(g[i - 1], i)
                                                  ELSE g[i - 1]
           T == {k \in 0..n : ~\E g : Upto(g, k)}
<1>0. <<>> \in Seq(Nat)
  BY EmptySeq
<1>1. SUFFICES ASSUME T # {} PROVE FALSE
  <2>1. n \in 0..n
    OBVIOUS
  <2>2. \A g : Upto(g, n) => Lists(g, S, n)
    BY DEF Lists
  <2> HIDE DEF Upto
  <2>3. QED
    BY <2>1, <2>2
<1>2. PICK m \in T : \A y \in T : m <= y
  <2>1. T \in SUBSET Nat
    OBVIOUS
  <2> HIDE DEF T
  <2>2. QED
    BY <1>1, <2>1, LeastNumber
<1>3. m # 0
  <2>1. Upto([i \in 0..n |-> <<>>], 0)
    BY <1>0
  <2>2. QED
    BY <1>2, <2>1
<1>4. m \in 1..n /\ m - 1 \in 0..n /\ m - 1 \notin T
  <2>1. m \in 0..n /\ m \in 1..n /\ m - 1 \in 0..n /\ ~(m <= m - 1)
    BY <1>2, <1>3
  <2> HIDE DEF T
  <2>2. QED
    BY <1>2, <2>1
<1>5. PICK g : Upto(g, m - 1)
  BY <1>4
<1> DEFINE last == IF m \in S THEN Append(g[m - 1], m) ELSE g[m - 1]
           h == [g EXCEPT ![m] = last]
<1>6. last \in Seq(Nat)
  <2>1. g[m - 1] \in Seq(Nat) /\ m \in Nat
    BY <1>4, <1>5
  <2>2. Append(g[m - 1], m) \in Seq(Nat)
    BY <2>1, AppendProperties
  <2>3. QED
    BY <2>1, <2>2
<1> HIDE DEF last
<1>7. h \in [0..n -> Seq(Nat)] /\ h[0] = <<>>
  <2> DEFINE Lst == Seq(Nat)
  <2>1. g \in [0..n -> Lst] /\ last \in Lst /\ g[0] = <<>>
    BY <1>5, <1>6
  <2> HIDE DEF Lst
  <2>2. h \in [0..n -> Lst]
    BY <1>4, <2>1
  <2>3. 0 \in 0..n /\ 0 # m
    BY <1>4
  <2>4. h[0] = <<>>
    BY <2>1, <2>3
  <2>5. QED
    BY <2>2, <2>4 DEF Lst
<1>8. ASSUME NEW i \in 1..m PROVE h[i] = IF i \in S THEN Append(h[i - 1], i) ELSE h[i - 1]
  <2>0. i \in 0..n /\ i - 1 \in 0..n /\ i - 1 # m
    BY <1>4
  <2>1. h[i - 1] = g[i - 1]
    BY <1>5, <2>0
  <2>2. CASE i = m
    <3>1. h[m] = last
      BY <1>4, <1>5
    <3>2. QED
      BY <2>1, <2>2, <3>1 DEF last
  <2>3. CASE i # m
    <3>1. i \in 1..(m - 1)
      BY <1>4, <2>3
    <3>2. h[i] = g[i]
      BY <1>5, <2>0, <2>3
    <3>3. g[i] = IF i \in S THEN Append(g[i - 1], i) ELSE g[i - 1]
      BY <1>5, <3>1
    <3> HIDE DEF h
    <3>4. QED
      BY <2>1, <3>2, <3>3
  <2>4. QED
    BY <2>2, <2>3
<1>9. Upto(h, m)
  BY <1>7, <1>8
<1> HIDE DEF Upto, h
<1>10. QED
  BY <1>2, <1>9

\* What lists the numbers is what InOrder() does.
LEMMA InOrderLists ==
    ASSUME NEW n \in Nat, NEW S, NEW g, Lists(g, S, n), NEW k \in 0..n
    PROVE  InOrder(S, k) = g[k]
<1> DEFINE Eq(h) == h = [i \in 0..k |-> IF i = 0 THEN <<>>
                                        ELSE IF i \in S THEN Append(h[i - 1], i)
                                        ELSE h[i - 1]]
           u == [i \in 0..k |-> g[i]]
           upTo == CHOOSE h : Eq(h)
<1>0. k \in Nat /\ 0 \in 0..k /\ k \in 0..k
  OBVIOUS
<1>1. u[0] = <<>> /\ \A i \in 1..k : u[i] = IF i \in S THEN Append(u[i - 1], i) ELSE u[i - 1]
  <2>1. ASSUME NEW i \in 1..k
        PROVE  u[i] = IF i \in S THEN Append(u[i - 1], i) ELSE u[i - 1]
    <3>1. i \in 1..n /\ i \in 0..k /\ i - 1 \in 0..k
      OBVIOUS
    <3>2. g[i] = IF i \in S THEN Append(g[i - 1], i) ELSE g[i - 1]
      BY <3>1 DEF Lists
    <3>3. u[i] = g[i] /\ u[i - 1] = g[i - 1]
      BY <3>1
    <3> HIDE DEF u
    <3>4. QED
      BY <3>2, <3>3
  <2>2. u[0] = <<>>
    BY <1>0 DEF Lists
  <2>3. QED
    BY <2>1, <2>2
<1>2. Eq(u)
  <2> DEFINE v == [i \in 0..k |-> IF i = 0 THEN <<>>
                                  ELSE IF i \in S THEN Append(u[i - 1], i) ELSE u[i - 1]]
  <2>1. \A i \in 0..k : i = 0 \/ i \in 1..k
    OBVIOUS
  <2>2. \A i \in 0..k : u[i] = v[i]
    <3> HIDE DEF u
    <3>1. QED
      BY <1>1, <2>1
  <2>3. u = v
    <3>1. u = [i \in 0..k |-> u[i]] /\ v = [i \in 0..k |-> v[i]]
      OBVIOUS
    <3> HIDE DEF u, v
    <3>2. QED
      BY <2>2, <3>1
  <2>4. QED
    BY <2>3
<1> HIDE DEF u
<1>3. \A h : Eq(h) => \A i \in 0..k : h[i] = u[i]
  <2> SUFFICES ASSUME NEW h, Eq(h), NEW i \in 0..k, h[i] # u[i] PROVE FALSE
    OBVIOUS
  <2> DEFINE T == {j \in 0..k : h[j] # u[j]}
  <2>1. PICK m \in T : \A y \in T : m <= y
    <3>0. i \in T
      OBVIOUS
    <3>1. T \in SUBSET Nat
      OBVIOUS
    <3> HIDE DEF T
    <3>2. QED
      BY <3>0, <3>1, LeastNumber
  <2>2. h[0] = <<>> /\ u[0] = <<>>
    BY <1>0, <1>1
  <2>3. m # 0
    BY <2>1, <2>2
  <2>4. m \in 1..k /\ m - 1 \in 0..k /\ m - 1 \notin T
    BY <2>1, <2>3
  <2>5. h[m] = IF m \in S THEN Append(h[m - 1], m) ELSE h[m - 1]
    BY <2>3, <2>4
  <2>6. u[m] = IF m \in S THEN Append(u[m - 1], m) ELSE u[m - 1]
    BY <1>1, <2>4
  <2>7. h[m - 1] = u[m - 1] /\ h[m] # u[m]
    BY <2>1, <2>4
  <2> HIDE DEF T, Eq
  <2>8. QED
    BY <2>5, <2>6, <2>7
<1>4. Eq(upTo)
  <2> HIDE DEF Eq
  <2>1. QED
    BY <1>2
<1>5. InOrder(S, k) = upTo[k]
  BY DEF InOrder
<1> HIDE DEF upTo, Eq
<1>6. InOrder(S, k) = u[k]
  BY <1>0, <1>3, <1>4, <1>5
<1>7. QED
  BY <1>0, <1>6 DEF u

LEMMA InOrders ==
    ASSUME NEW n \in Nat, NEW S
    PROVE  /\ InOrder(S, 0) = <<>>
           /\ \A k \in 0..n : InOrder(S, k) \in Seq(Nat)
           /\ \A k \in 1..n : /\ k \in S => InOrder(S, k) = Append(InOrder(S, k - 1), k)
                              /\ k \notin S => InOrder(S, k) = InOrder(S, k - 1)
<1>1. PICK g : Lists(g, S, n)
  BY ListsExist
<1>2. \A k \in 0..n : InOrder(S, k) = g[k]
  BY <1>1, InOrderLists
<1>3. \A k \in 1..n : k \in 0..n /\ k - 1 \in 0..n
  OBVIOUS
<1>4. InOrder(S, 0) = <<>>
  <2>1. 0 \in 0..n
    OBVIOUS
  <2>2. QED
    BY <1>1, <1>2, <2>1 DEF Lists
<1>5. ASSUME NEW k \in 0..n PROVE InOrder(S, k) \in Seq(Nat)
  BY <1>1, <1>2 DEF Lists
<1>6. ASSUME NEW k \in 1..n
      PROVE  /\ k \in S => InOrder(S, k) = Append(InOrder(S, k - 1), k)
             /\ k \notin S => InOrder(S, k) = InOrder(S, k - 1)
  <2>1. InOrder(S, k) = g[k] /\ InOrder(S, k - 1) = g[k - 1]
    BY <1>2, <1>3
  <2>2. g[k] = IF k \in S THEN Append(g[k - 1], k) ELSE g[k - 1]
    BY <1>1 DEF Lists
  <2>3. QED
    BY <2>1, <2>2
<1>7. QED
  BY <1>4, <1>5, <1>6

\* Only the members up to the number count.
LEMMA InOrderSame ==
    ASSUME NEW n \in Nat, NEW S, NEW U, \A i \in 1..n : i \in S <=> i \in U
    PROVE  InOrder(S, n) = InOrder(U, n)
<1>1. PICK g : Lists(g, S, n)
  BY ListsExist
<1>2. Lists(g, U, n)
  BY <1>1 DEF Lists
<1>3. n \in 0..n
  OBVIOUS
<1>4. InOrder(S, n) = g[n] /\ InOrder(U, n) = g[n]
  BY <1>1, <1>2, <1>3, InOrderLists
<1>5. QED
  BY <1>4

\* The list only grows, and only by the members it meets.
LEMMA InOrderGrows ==
    ASSUME NEW n \in Nat, NEW S, NEW k \in 0..n
    PROVE  /\ Len(InOrder(S, k)) <= Len(InOrder(S, n))
           /\ \A i \in 1..Len(InOrder(S, k)) : InOrder(S, n)[i] = InOrder(S, k)[i]
           /\ (\A i \in (k + 1)..n : i \notin S) => InOrder(S, n) = InOrder(S, k)
<1> DEFINE L(i) == InOrder(S, i)
           Longer(s) == /\ Len(L(k)) <= Len(s)
                        /\ \A i \in 1..Len(L(k)) : s[i] = L(k)[i]
           Good(m) == /\ Longer(L(m))
                      /\ (\A i \in (k + 1)..m : i \notin S) => L(m) = L(k)
           T == {m \in k..n : ~Good(m)}
<1>1. /\ \A m \in 0..n : L(m) \in Seq(Nat)
      /\ \A m \in 1..n : L(m) = IF m \in S THEN Append(L(m - 1), m) ELSE L(m - 1)
  <2>1. \A m \in 0..n : InOrder(S, m) \in Seq(Nat)
    BY InOrders
  <2>2. \A m \in 1..n : InOrder(S, m) = IF m \in S THEN Append(InOrder(S, m - 1), m)
                                        ELSE InOrder(S, m - 1)
    <3> TAKE m \in 1..n
    <3>1. m \in S => InOrder(S, m) = Append(InOrder(S, m - 1), m)
      BY InOrders
    <3>2. m \notin S => InOrder(S, m) = InOrder(S, m - 1)
      BY InOrders
    <3>3. QED
      BY <3>1, <3>2
  <2>3. QED
    BY <2>1, <2>2
<1> HIDE DEF L
<1>2. SUFFICES ASSUME T # {} PROVE FALSE
  <2>1. n \notin T
    BY <1>2
  <2>2. n \in k..n
    OBVIOUS
  <2>3. Good(n)
    <3> HIDE DEF Good
    <3>1. QED
      BY <2>1, <2>2
  <2>4. QED
    BY <2>3 DEF L
<1>3. PICK m \in T : \A y \in T : m <= y
  <2>1. T \in SUBSET Nat
    OBVIOUS
  <2> HIDE DEF T
  <2>2. QED
    BY <1>2, <2>1, LeastNumber
<1>4. Len(L(k)) \in Nat /\ L(k) \in Seq(Nat) /\ k \in 0..n
  BY <1>1, LenProperties
<1>5. m # k
  <2>1. Longer(L(k))
    BY <1>4
  <2>2. QED
    BY <1>3, <2>1
<1>6. m - 1 \in k..n /\ m \in 1..n /\ m - 1 \in 0..n /\ m \in 0..n /\ m \in (k + 1)..m
  <2>1. m \in k..n
    BY <1>3
  <2> HIDE DEF T
  <2>2. QED
    BY <1>5, <2>1
<1>7. m - 1 \notin T
  <2>1. ~(m <= m - 1)
    BY <1>6
  <2> HIDE DEF T
  <2>2. QED
    BY <1>3, <2>1
<1>8. Longer(L(m - 1)) /\ ((\A i \in (k + 1)..(m - 1) : i \notin S) => L(m - 1) = L(k))
  <2>1. Good(m - 1)
    <3> HIDE DEF Good
    <3>1. QED
      BY <1>6, <1>7
  <2>2. QED
    BY <2>1
<1>9. L(m - 1) \in Seq(Nat) /\ L(m) = IF m \in S THEN Append(L(m - 1), m) ELSE L(m - 1)
  BY <1>1, <1>6
<1>10. CASE m \notin S
  <2>1. L(m) = L(m - 1)
    BY <1>9, <1>10
  <2>2. (\A i \in (k + 1)..m : i \notin S) => (\A i \in (k + 1)..(m - 1) : i \notin S)
    BY <1>6
  <2>3. QED
    BY <1>3, <1>8, <2>1, <2>2
<1>11. CASE m \in S
  <2> DEFINE s == L(m - 1)
  <2>1. L(m) = Append(s, m) /\ s \in Seq(Nat) /\ m \in Nat
    BY <1>6, <1>9, <1>11
  <2>2. ~\A i \in (k + 1)..m : i \notin S
    BY <1>6, <1>11
  <2>3. Len(Append(s, m)) = Len(s) + 1 /\ Len(s) \in Nat
        /\ \A i \in 1..Len(s) : Append(s, m)[i] = s[i]
    BY <2>1, AppendProperties, LenProperties
  <2>4. Len(L(k)) <= Len(s) /\ \A i \in 1..Len(L(k)) : s[i] = L(k)[i]
    BY <1>8
  <2> HIDE DEF s
  <2>5. Longer(L(m))
    <3>1. Len(L(k)) <= Len(L(m))
      BY <1>4, <2>1, <2>3, <2>4
    <3>2. ASSUME NEW i \in 1..Len(L(k)) PROVE L(m)[i] = L(k)[i]
      <4>1. i \in 1..Len(s)
        BY <1>4, <2>3, <2>4
      <4>2. QED
        BY <2>1, <2>3, <2>4, <4>1
    <3>3. QED
      BY <3>1, <3>2
  <2>6. QED
    BY <1>3, <2>2, <2>5
<1>12. QED
  BY <1>10, <1>11

-----------------------------------------------------------------------------
(***************************************************************************)
(* What the parser has made of the frames it has read: the second part of  *)
(* the inductive invariant, about what is emitted and where it fails.      *)
(***************************************************************************)

\* Nothing is wrong with frame i.
SoundFrame(i) == ~HeaderWrong(i) /\ ~LengthWrong(i) /\ PayloadError(i) = 0

\* The frames that were read, the one in hand not included.
Done == IF state = "GET_INFO" THEN frame ELSE frame - 1

\* The message in the middle of which frame k + 1 comes: its bytes so far, inflated or
\* not, and its frames.
TotalAt(k)  == IF Within(k + 1) THEN SumOfFirst(Lengths(k), k) ELSE 0
LengthAt(k) == IF Within(k + 1) THEN SumOfFirst(Content(k), k) ELSE 0
PartsAt(k)  == IF Within(k + 1) THEN PartsSeq(k) ELSE <<>>
OpcodeAt(k) == IF Within(k + 1) THEN wire[Opening(k)].opcode ELSE 0

\* The events of the first k frames.
ToldTo(k) == EventsOf({i \in 1..k : Completes(i)})

\* The parser's fields after frame k.
AfterFrame(k) ==
    /\ messageLength = LengthAt(k) /\ fragments = PartsAt(k)
    /\ totalPayloadLength = TotalAt(k) /\ fragmented = OpcodeAt(k)
    /\ Within(k + 1) => compressed = Deflated(k)

\* The fields while frame i is in hand, once its header was read.
HeaderRead(i) ==
    /\ ~HeaderWrong(i)
    /\ fin = wire[i].fin
    /\ messageLength = LengthAt(i - 1) /\ fragments = PartsAt(i - 1)
    /\ IsData(i) =>
          /\ opcode = wire[Opening(i)].opcode
          /\ compressed = Deflated(i)
          /\ ~fin => fragmented = opcode
    /\ ~IsData(i) =>
          /\ opcode = wire[i].opcode
          /\ fragmented = OpcodeAt(i)
          /\ Within(i + 1) => compressed = Deflated(i)

\* haveLength() was called, or not yet.
LengthRead(i) ==
    /\ state \in {"GET_PAYLOAD_LENGTH_16", "GET_PAYLOAD_LENGTH_64"} =>
          totalPayloadLength = TotalAt(i - 1)
    /\ state \in {"GET_MASK", "GET_DATA", "INFLATING"} =>
          /\ ~LengthWrong(i)
          /\ totalPayloadLength = IF IsData(i) THEN SumOfFirst(Lengths(i), i) ELSE TotalAt(i)
    /\ state = "INFLATING" => IsData(i) /\ Deflated(i)

\* The frames that were read are sound, their events were emitted, and no close frame
\* was among them but the last one.
ReadSoFar ==
    /\ \A j \in 1..Done : SoundFrame(j) /\ (wire[j].opcode = 8 => j = Done /\ Concluded)
    /\ Within(Done + 1) => wire[Opening(Done)].opcode \in {1, 2}
    /\ Concluded => Done > 0 /\ wire[Done].opcode = 8 /\ Arrived >= Bytes(Done)
    /\ emitted = ToldTo(Done)

\* The loop stops where bytes are missing.
Stopped == ~loop /\ ~Inflating /\ ~Concluded => bufferedBytes < Needed

\* Frame i is wrong in the way the code says, and the bytes that tell have arrived.
Wrong(i, code) ==
    \/ code = 1002 /\ HeaderWrong(i) /\ Arrived >= Bytes(i - 1) + 2
    \/ /\ code = 1009 /\ ~HeaderWrong(i) /\ LengthWrong(i)
       /\ Arrived >= Bytes(i - 1) + 2 + ExtendedLength(wire[i])
    \/ /\ code = PayloadError(i) /\ ~HeaderWrong(i) /\ ~LengthWrong(i)
       /\ Arrived >= Bytes(i)

\* The frame at which the parser fails, after sound ones whose events were emitted.
FailedAt(i) ==
    /\ \A j \in 1..(i - 1) : SoundFrame(j) /\ wire[j].opcode # 8
    /\ emitted = ToldTo(i - 1)
    /\ Wrong(i, failed)

Reading ==
    /\ failed = 0 =>
          /\ ReadSoFar
          /\ Stopped
          /\ state = "GET_INFO" => AfterFrame(frame)
          /\ state # "GET_INFO" => HeaderRead(frame) /\ LengthRead(frame)
    /\ failed # 0 => \E i \in 1..MaxFrames : FailedAt(i)

-----------------------------------------------------------------------------
(***************************************************************************)
(* The stream                                                              *)
(***************************************************************************)

LEMMA WireFrame ==
    ASSUME TypeOK, NEW i \in 1..MaxFrames
    PROVE  /\ wire[i].fin \in BOOLEAN /\ wire[i].rsv1 \in BOOLEAN
           /\ wire[i].rsv23 \in BOOLEAN /\ wire[i].masked \in BOOLEAN
           /\ wire[i].opcode \in Nat /\ wire[i].form \in {7, 16, 64}
           /\ wire[i].length \in Nat /\ wire[i].inflated \in Nat /\ wire[i].code \in Nat
           /\ wire[i].length >= Unsafe => wire[i].form = 64
<1>0. wire \in [1..MaxFrames -> Frames]
  BY DEF TypeOK
<1>1. wire[i] \in Frames
  BY <1>0
<1> DEFINE f == wire[i]
<1>2. f \in Frame /\ (f.length >= Unsafe => f.form = 64)
  BY <1>1, FramesAssumption
<1> HIDE DEF f
<1>3. /\ f.fin \in BOOLEAN /\ f.rsv1 \in BOOLEAN /\ f.rsv23 \in BOOLEAN
      /\ f.masked \in BOOLEAN /\ f.opcode \in 0..15 /\ f.form \in {7, 16, 64}
      /\ f.length \in 0..9 /\ f.inflated \in 0..9 /\ f.code \in Nat
  BY <1>2 DEF Frame, Unsafe, Corrupt
<1>4. f.opcode \in Nat /\ f.length \in Nat /\ f.inflated \in Nat
  BY <1>3
<1>5. QED
  BY <1>2, <1>3, <1>4 DEF f

\* A set of numbers with a bound has a greatest one.
LEMMA GreatestNumber ==
    ASSUME NEW n \in Nat, NEW T \in SUBSET (0..n), T # {}
    PROVE  Max(T) \in T /\ \A y \in T : y <= Max(T)
<1> DEFINE D == {n - y : y \in T}
<1>1. PICK d \in D : \A y \in D : d <= y
  <2>1. \A y \in T : y \in 0..n
    OBVIOUS
  <2>2. \A y \in T : n - y \in Nat
    BY <2>1
  <2>3. D \in SUBSET Nat
    BY <2>2
  <2>4. D # {}
    OBVIOUS
  <2> HIDE DEF D
  <2>5. QED
    BY <2>3, <2>4, LeastNumber
<1>2. PICK m \in T : d = n - m
  BY <1>1
<1>3. \A y \in T : m >= y
  <2> TAKE y \in T
  <2>1. n - m <= n - y
    BY <1>1, <1>2
  <2>2. m \in 0..n /\ y \in 0..n
    OBVIOUS
  <2>3. QED
    BY <2>1, <2>2
<1>4. Max(T) \in T /\ \A y \in T : Max(T) >= y
  <2>1. \E x \in T : \A y \in T : x >= y
    BY <1>3
  <2>2. QED
    BY <2>1 DEF Max
<1>5. \A y \in T : y \in 0..n
  OBVIOUS
<1>7. Max(T) \in 0..n
  BY <1>4, <1>5
<1>6. QED
  BY <1>4, <1>5, <1>7

\* Where a message opens.
LEMMA Openings ==
    ASSUME NEW i \in Nat \ {0}
    PROVE  /\ Opening(i) \in 1..i
           /\ wire[i].opcode \in {1, 2} => Opening(i) = i
           /\ i > 1 /\ wire[i].opcode \notin {1, 2} => Opening(i) = Opening(i - 1)
<1> DEFINE S == {1} \cup {j \in 1..i : wire[j].opcode \in {1, 2}}
<1>1. S \in SUBSET (0..i) /\ S # {} /\ \A j \in S : j \in 1..i
  OBVIOUS
<1>2. Opening(i) = Max(S)
  BY DEF Opening
<1>3. wire[i].opcode \in {1, 2} => i \in S
  OBVIOUS
<1>4. ASSUME i > 1, wire[i].opcode \notin {1, 2} PROVE Opening(i) = Opening(i - 1)
  <2>1. \A j \in 1..i : j = i \/ j \in 1..(i - 1)
    OBVIOUS
  <2>2. \A j \in 1..(i - 1) : j \in 1..i
    OBVIOUS
  <2>3. {j \in 1..i : wire[j].opcode \in {1, 2}} =
        {j \in 1..(i - 1) : wire[j].opcode \in {1, 2}}
    BY <1>4, <2>1, <2>2
  <2>4. QED
    BY <2>3 DEF Opening
<1> HIDE DEF S
<1>5. Max(S) \in S /\ \A y \in S : y <= Max(S)
  BY <1>1, GreatestNumber
<1>6. Opening(i) \in 1..i
  BY <1>1, <1>2, <1>5
<1>7. wire[i].opcode \in {1, 2} => Opening(i) = i
  <2>1. SUFFICES ASSUME wire[i].opcode \in {1, 2} PROVE Opening(i) = i
    OBVIOUS
  <2>2. i <= Opening(i)
    BY <1>2, <1>3, <1>5, <2>1
  <2>3. QED
    BY <1>6, <2>2
<1>8. QED
  BY <1>4, <1>6, <1>7

\* Where a frame is in the middle of a message.
LEMMA Withins ==
    ASSUME NEW i \in Nat \ {0}
    PROVE  /\ ~Within(1)
           /\ IsData(i) => (Within(i + 1) <=> ~wire[i].fin)
           /\ ~IsData(i) => (Within(i + 1) <=> Within(i))
           /\ Within(i) => i > 1
<1> DEFINE B(n) == {j \in 1..(n - 1) : IsData(j)}
<1>1. \A n : Within(n) <=> B(n) # {} /\ ~wire[Max(B(n))].fin
  BY DEF Within
<1>2. B(1) = {}
  OBVIOUS
<1>3. (i + 1) - 1 = i /\ \A j \in 1..i : j = i \/ j \in 1..(i - 1)
  OBVIOUS
<1>4. \A j \in 1..(i - 1) : j \in 1..i
  OBVIOUS
<1>5. ASSUME IsData(i) PROVE B(i + 1) # {} /\ Max(B(i + 1)) = i
  <2>1. i \in B(i + 1)
    BY <1>3, <1>5
  <2>2. B(i + 1) \in SUBSET (0..i) /\ \A j \in B(i + 1) : j \in 1..i
    BY <1>3
  <2> HIDE DEF B
  <2>3. Max(B(i + 1)) \in B(i + 1) /\ i <= Max(B(i + 1))
    BY <2>1, <2>2, GreatestNumber
  <2>4. QED
    BY <2>1, <2>2, <2>3
<1>6. ASSUME ~IsData(i) PROVE B(i + 1) = B(i)
  BY <1>3, <1>4, <1>6
<1>7. i = 1 \/ i > 1
  OBVIOUS
<1> HIDE DEF B
<1>8. QED
  BY <1>1, <1>2, <1>5, <1>6, <1>7

\* The frames of a message.
LEMMA Parts ==
    ASSUME NEW i \in Nat \ {0}
    PROVE  /\ PartsTo(i) \subseteq 1..i
           /\ wire[i].opcode \in {1, 2} => PartsTo(i) = {i}
           /\ i > 1 /\ wire[i].opcode = 0 => PartsTo(i) = PartsTo(i - 1) \cup {i}
           /\ i > 1 /\ ~IsData(i) => PartsTo(i) = PartsTo(i - 1)
<1>1. Opening(i) \in 1..i
  BY Openings
<1>2. PartsTo(i) \subseteq 1..i
  BY <1>1 DEF PartsTo
<1>3. ASSUME wire[i].opcode \in {1, 2} PROVE PartsTo(i) = {i}
  <2>1. Opening(i) = i /\ IsData(i)
    BY <1>3, Openings DEF IsData
  <2>2. i..i = {i}
    OBVIOUS
  <2>3. QED
    BY <2>1, <2>2 DEF PartsTo
<1>4. ASSUME i > 1, wire[i].opcode \notin {1, 2}
      PROVE  PartsTo(i) = PartsTo(i - 1) \cup (IF IsData(i) THEN {i} ELSE {})
  <2> DEFINE o == Opening(i)
  <2>1. Opening(i - 1) = o /\ o \in 1..i
    BY <1>1, <1>4, Openings
  <2>2. o \in 1..(i - 1)
    <3>1. i - 1 \in Nat \ {0}
      BY <1>4
    <3>2. Opening(i - 1) \in 1..(i - 1)
      BY <3>1, Openings
    <3>3. QED
      BY <2>1, <3>2
  <2>3. /\ PartsTo(i) = {j \in o..i : IsData(j)}
        /\ PartsTo(i - 1) = {j \in o..(i - 1) : IsData(j)}
    BY <2>1 DEF PartsTo
  <2> HIDE DEF o
  <2>4. o..i = o..(i - 1) \cup {i}
    BY <2>1, <2>2
  <2>5. QED
    BY <2>3, <2>4
<1>5. wire[i].opcode = 0 => IsData(i) /\ wire[i].opcode \notin {1, 2}
  BY DEF IsData
<1>6. ~IsData(i) => wire[i].opcode \notin {1, 2}
  BY DEF IsData
<1>7. QED
  BY <1>2, <1>3, <1>4, <1>5, <1>6

\* The parts of a message are numbers of its frames, counted on the wire and inflated.
LEMMA Counting ==
    ASSUME TypeOK, NEW i \in 1..MaxFrames
    PROVE  /\ MaxFrames \in Nat /\ i \in Nat
           /\ Lengths(i) \in [1..MaxFrames -> Nat] /\ Content(i) \in [1..MaxFrames -> Nat]
           /\ Deflated(i) \in BOOLEAN
<1>1. MaxFrames \in Nat
  BY BoundsAssumption
<1>2. i \in Nat
  OBVIOUS
<1>3. \A j \in 1..MaxFrames : wire[j].length \in Nat /\ wire[j].inflated \in Nat
  BY WireFrame
<1>4. Lengths(i) \in [1..MaxFrames -> Nat]
  BY <1>3 DEF Lengths
<1>5. Content(i) \in [1..MaxFrames -> Nat]
  BY <1>3 DEF Content
<1>6. Deflated(i) \in BOOLEAN
  <2>1. Opening(i) \in 1..i /\ i \in 1..MaxFrames /\ MaxFrames \in Nat
    BY <1>1, <1>2, Openings
  <2>2. Opening(i) \in 1..MaxFrames
    BY <2>1
  <2>3. QED
    BY <2>2, WireFrame DEF Deflated
<1>7. QED
  BY <1>1, <1>2, <1>4, <1>5, <1>6

\* The first frame of a message is a message so far.
LEMMA MessageOpens ==
    ASSUME TypeOK, NEW i \in 1..MaxFrames, wire[i].opcode \in {1, 2}
    PROVE  /\ SumOfFirst(Lengths(i), i) = wire[i].length
           /\ SumOfFirst(Content(i), i) = Content(i)[i]
           /\ PartsSeq(i) = IF Content(i)[i] > 0 THEN <<i>> ELSE <<>>
           /\ Deflated(i) = wire[i].rsv1
<1>1. /\ MaxFrames \in Nat /\ i \in Nat /\ i \in 0..MaxFrames /\ i - 1 \in 0..MaxFrames
      /\ Lengths(i) \in [1..MaxFrames -> Nat] /\ Content(i) \in [1..MaxFrames -> Nat]
  BY Counting
<1>2. PartsTo(i) = {i} /\ Opening(i) = i
  BY Parts, Openings
<1>3. \A j \in 1..(i - 1) : j \in 1..MaxFrames /\ j # i
  BY <1>1
<1>4. \A j \in 1..(i - 1) : Lengths(i)[j] = 0 /\ Content(i)[j] = 0
  BY <1>2, <1>3 DEF Lengths, Content
<1>5. Lengths(i)[i] = wire[i].length
  BY <1>2 DEF Lengths
<1>6. SumOfFirst(Lengths(i), i - 1) = 0 /\ SumOfFirst(Content(i), i - 1) = 0
  BY <1>1, <1>4, SumOfZeros
<1>7. /\ SumOfFirst(Lengths(i), i) = SumOfFirst(Lengths(i), i - 1) + Lengths(i)[i]
      /\ SumOfFirst(Content(i), i) = SumOfFirst(Content(i), i - 1) + Content(i)[i]
  BY <1>1, Sums
<1>8. Lengths(i)[i] \in Nat /\ Content(i)[i] \in Nat
  BY <1>1
<1>9. PartsSeq(i) = IF Content(i)[i] > 0 THEN <<i>> ELSE <<>>
  <2> DEFINE S == {j \in PartsTo(i) : Content(i)[j] > 0}
  <2>1. PartsSeq(i) = InOrder(S, i)
    BY DEF PartsSeq
  <2>2. (\A j \in 1..(i - 1) : j \notin S) /\ (i \in S <=> Content(i)[i] > 0)
    BY <1>2, <1>3
  <2> HIDE DEF S
  <2>3. 0 \in 0..(i - 1) /\ i - 1 \in Nat /\ 0 + 1 = 1
    BY <1>1
  <2>4. InOrder(S, i - 1) = InOrder(S, 0)
    BY <2>2, <2>3, InOrderGrows
  <2>5. InOrder(S, 0) = <<>>
    BY <1>1, InOrders
  <2>6. i \in 1..i
    BY <1>1
  <2>7. /\ i \in S => InOrder(S, i) = Append(InOrder(S, i - 1), i)
        /\ i \notin S => InOrder(S, i) = InOrder(S, i - 1)
    BY <1>1, <2>6, InOrders
  <2>8. Append(<<>>, i) = <<i>>
    OBVIOUS
  <2>9. QED
    BY <2>1, <2>2, <2>4, <2>5, <2>7, <2>8
<1>10. Deflated(i) = wire[i].rsv1
  BY <1>2 DEF Deflated
<1>11. QED
  BY <1>5, <1>6, <1>7, <1>8, <1>9, <1>10

\* Another frame of it adds to the one before.
LEMMA MessageContinues ==
    ASSUME TypeOK, NEW i \in 1..MaxFrames, i > 1, wire[i].opcode = 0
    PROVE  /\ SumOfFirst(Lengths(i), i) = SumOfFirst(Lengths(i - 1), i - 1) + wire[i].length
           /\ SumOfFirst(Content(i), i) = SumOfFirst(Content(i - 1), i - 1) + Content(i)[i]
           /\ PartsSeq(i) = IF Content(i)[i] > 0 THEN Append(PartsSeq(i - 1), i)
                            ELSE PartsSeq(i - 1)
           /\ Deflated(i) = Deflated(i - 1)
           /\ Opening(i) = Opening(i - 1)
<1>1. /\ MaxFrames \in Nat /\ i \in Nat /\ i \in 0..MaxFrames /\ i - 1 \in 0..MaxFrames
      /\ i - 1 \in 1..MaxFrames /\ i \in Nat \ {0}
      /\ Lengths(i) \in [1..MaxFrames -> Nat] /\ Content(i) \in [1..MaxFrames -> Nat]
  BY Counting
<1>2. Lengths(i - 1) \in [1..MaxFrames -> Nat] /\ Content(i - 1) \in [1..MaxFrames -> Nat]
  BY <1>1, Counting
<1>3. PartsTo(i) = PartsTo(i - 1) \cup {i} /\ Opening(i) = Opening(i - 1)
  <2>1. wire[i].opcode \notin {1, 2}
    OBVIOUS
  <2>2. PartsTo(i) = PartsTo(i - 1) \cup {i}
    BY <1>1, Parts
  <2>3. Opening(i) = Opening(i - 1)
    BY <1>1, <2>1, Openings
  <2>4. QED
    BY <2>2, <2>3
<1>4. Deflated(i) = Deflated(i - 1)
  BY <1>3 DEF Deflated
<1>5. \A j \in 1..(i - 1) : /\ j \in 1..MaxFrames /\ j # i
                            /\ j \in PartsTo(i) <=> j \in PartsTo(i - 1)
  BY <1>1, <1>3
<1>6. \A j \in 1..(i - 1) : /\ Lengths(i)[j] = Lengths(i - 1)[j]
                            /\ Content(i)[j] = Content(i - 1)[j]
  BY <1>4, <1>5 DEF Lengths, Content
<1>7. Lengths(i)[i] = wire[i].length
  BY <1>3 DEF Lengths
<1>8. /\ SumOfFirst(Lengths(i), i - 1) = SumOfFirst(Lengths(i - 1), i - 1)
      /\ SumOfFirst(Content(i), i - 1) = SumOfFirst(Content(i - 1), i - 1)
  <2>1. \A j \in 1..(i - 1) : Lengths(i)[j] = Lengths(i - 1)[j]
    BY <1>6
  <2>2. \A j \in 1..(i - 1) : Content(i)[j] = Content(i - 1)[j]
    BY <1>6
  <2>3. SumOfFirst(Lengths(i), i - 1) = SumOfFirst(Lengths(i - 1), i - 1)
    <3> DEFINE f == Lengths(i)
               g == Lengths(i - 1)
               k == i - 1
    <3>1. /\ MaxFrames \in Nat /\ k \in 0..MaxFrames /\ f \in [1..MaxFrames -> Nat]
          /\ g \in [1..MaxFrames -> Nat] /\ \A j \in 1..k : f[j] = g[j]
      BY <1>1, <1>2, <2>1
    <3> HIDE DEF f, g, k
    <3>2. SumOfFirst(f, k) = SumOfFirst(g, k)
      BY <3>1, SumSame
    <3>3. QED
      BY <3>2 DEF f, g, k
  <2>4. SumOfFirst(Content(i), i - 1) = SumOfFirst(Content(i - 1), i - 1)
    <3> DEFINE f == Content(i)
               g == Content(i - 1)
               k == i - 1
    <3>1. /\ MaxFrames \in Nat /\ k \in 0..MaxFrames /\ f \in [1..MaxFrames -> Nat]
          /\ g \in [1..MaxFrames -> Nat] /\ \A j \in 1..k : f[j] = g[j]
      BY <1>1, <1>2, <2>2
    <3> HIDE DEF f, g, k
    <3>2. SumOfFirst(f, k) = SumOfFirst(g, k)
      BY <3>1, SumSame
    <3>3. QED
      BY <3>2 DEF f, g, k
  <2>5. QED
    BY <2>3, <2>4
<1>9. /\ SumOfFirst(Lengths(i), i) = SumOfFirst(Lengths(i), i - 1) + Lengths(i)[i]
      /\ SumOfFirst(Content(i), i) = SumOfFirst(Content(i), i - 1) + Content(i)[i]
  BY <1>1, Sums
<1>10. PartsSeq(i) = IF Content(i)[i] > 0 THEN Append(PartsSeq(i - 1), i)
                     ELSE PartsSeq(i - 1)
  <2> DEFINE S == {j \in PartsTo(i) : Content(i)[j] > 0}
             U == {j \in PartsTo(i - 1) : Content(i - 1)[j] > 0}
  <2>1. PartsSeq(i) = InOrder(S, i) /\ PartsSeq(i - 1) = InOrder(U, i - 1)
    BY DEF PartsSeq
  <2>2. (\A j \in 1..(i - 1) : j \in S <=> j \in U) /\ (i \in S <=> Content(i)[i] > 0)
    BY <1>3, <1>5, <1>6
  <2> HIDE DEF S, U
  <2>3. i - 1 \in Nat /\ i \in 1..i
    BY <1>1
  <2>4. InOrder(S, i - 1) = InOrder(U, i - 1)
    BY <2>2, <2>3, InOrderSame
  <2>7. i \in 1..i /\ i \in Nat
    BY <1>1
  <2>5. /\ i \in S => InOrder(S, i) = Append(InOrder(S, i - 1), i)
        /\ i \notin S => InOrder(S, i) = InOrder(S, i - 1)
    BY <2>7, InOrders
  <2>6. QED
    BY <2>1, <2>2, <2>4, <2>5
<1>11. QED
  BY <1>3, <1>4, <1>7, <1>8, <1>9, <1>10

\* A control frame adds nothing.
LEMMA MessageStays ==
    ASSUME TypeOK, NEW i \in 1..MaxFrames, i > 1, ~IsData(i)
    PROVE  /\ SumOfFirst(Lengths(i), i) = SumOfFirst(Lengths(i - 1), i - 1)
           /\ SumOfFirst(Content(i), i) = SumOfFirst(Content(i - 1), i - 1)
           /\ PartsSeq(i) = PartsSeq(i - 1)
           /\ Deflated(i) = Deflated(i - 1)
           /\ Opening(i) = Opening(i - 1)
<1>1. /\ MaxFrames \in Nat /\ i \in Nat /\ i \in 0..MaxFrames /\ i - 1 \in 0..MaxFrames
      /\ i - 1 \in 1..MaxFrames /\ i \in Nat \ {0} /\ i - 1 \in Nat \ {0}
      /\ Lengths(i) \in [1..MaxFrames -> Nat] /\ Content(i) \in [1..MaxFrames -> Nat]
  BY Counting
<1>2. Lengths(i - 1) \in [1..MaxFrames -> Nat] /\ Content(i - 1) \in [1..MaxFrames -> Nat]
  BY <1>1, Counting
<1>3. PartsTo(i) = PartsTo(i - 1) /\ Opening(i) = Opening(i - 1)
  <2>1. wire[i].opcode \notin {1, 2}
    BY DEF IsData
  <2>2. QED
    BY <1>1, <2>1, Parts, Openings
<1>4. Deflated(i) = Deflated(i - 1)
  BY <1>3 DEF Deflated
<1>5. Lengths(i) = Lengths(i - 1) /\ Content(i) = Content(i - 1)
  BY <1>3, <1>4 DEF Lengths, Content
<1>6. i \notin PartsTo(i)
  <2>1. PartsTo(i - 1) \subseteq 1..(i - 1)
    BY <1>1, Parts
  <2>2. i \notin 1..(i - 1)
    BY <1>1
  <2>3. QED
    BY <1>3, <2>1, <2>2
<1>7. Lengths(i)[i] = 0 /\ Content(i)[i] = 0
  BY <1>6 DEF Lengths, Content
<1>8. /\ SumOfFirst(Lengths(i), i) = SumOfFirst(Lengths(i), i - 1) + Lengths(i)[i]
      /\ SumOfFirst(Content(i), i) = SumOfFirst(Content(i), i - 1) + Content(i)[i]
      /\ SumOfFirst(Lengths(i), i - 1) \in Nat /\ SumOfFirst(Content(i), i - 1) \in Nat
  BY <1>1, Sums
<1>9. PartsSeq(i) = PartsSeq(i - 1)
  <2> DEFINE S == {j \in PartsTo(i) : Content(i)[j] > 0}
  <2>1. PartsSeq(i) = InOrder(S, i) /\ PartsSeq(i - 1) = InOrder(S, i - 1)
    BY <1>3, <1>5 DEF PartsSeq
  <2>2. i \notin S
    BY <1>6
  <2> HIDE DEF S
  <2>3. i \in 1..i
    BY <1>1
  <2>4. QED
    BY <1>1, <2>1, <2>2, <2>3, InOrders, ZenonT(60)
<1>10. QED
  BY <1>3, <1>4, <1>5, <1>7, <1>8, <1>9

-----------------------------------------------------------------------------
(***************************************************************************)
(* What the stream says does not change.                                   *)
(***************************************************************************)
LEMMA SameMessages ==
    ASSUME wire' = wire
    PROVE  /\ \A i : IsData(i)' <=> IsData(i)
           /\ \A i : Within(i)' <=> Within(i)
           /\ \A i : Opening(i)' = Opening(i)
           /\ \A i : Deflated(i)' = Deflated(i)
           /\ \A i : Lengths(i)' = Lengths(i)
           /\ \A i : Content(i)' = Content(i)
           /\ \A i : PartsSeq(i)' = PartsSeq(i)
<1>1. \A i : IsData(i)' <=> IsData(i)
  BY DEF IsData
<1>2. \A i : Within(i)' <=> Within(i)
  <2> TAKE i
  <2> DEFINE B == {j \in 1..(i - 1) : IsData(j)}
  <2>1. B' = B
    BY <1>1
  <2>2. Within(i) <=> B # {} /\ ~wire[Max(B)].fin
    BY DEF Within
  <2>3. Within(i)' <=> B' # {} /\ ~wire'[Max(B')].fin
    BY DEF Within
  <2> HIDE DEF B
  <2>4. QED
    BY <2>1, <2>2, <2>3
<1>3. \A i : Opening(i)' = Opening(i)
  BY DEF Opening
<1>4. \A i : Deflated(i)' = Deflated(i)
  BY <1>3 DEF Deflated
<1>5. \A i : PartsTo(i)' = PartsTo(i)
  BY <1>1, <1>3 DEF PartsTo
<1>6. \A i : Lengths(i)' = Lengths(i)
  BY <1>5 DEF Lengths
<1>7. \A i : Content(i)' = Content(i)
  BY <1>4, <1>5 DEF Content
<1>8. \A i : PartsSeq(i)' = PartsSeq(i)
  <2> TAKE i
  <2> DEFINE S == {j \in PartsTo(i) : Content(i)[j] > 0}
  <2>1. S' = S
    BY <1>5, <1>7
  <2>2. PartsSeq(i) = InOrder(S, i) /\ PartsSeq(i)' = InOrder(S', i)
    BY DEF PartsSeq
  <2> HIDE DEF S
  <2>3. QED
    BY <2>1, <2>2
<1>9. QED
  BY <1>1, <1>2, <1>3, <1>4, <1>6, <1>7, <1>8

LEMMA SameReading ==
    ASSUME wire' = wire
    PROVE  /\ \A i : HeaderWrong(i)' <=> HeaderWrong(i)
           /\ \A i : LengthWrong(i)' <=> LengthWrong(i)
           /\ \A i : PayloadError(i)' = PayloadError(i)
           /\ \A i : SoundFrame(i)' <=> SoundFrame(i)
           /\ \A i : ToldTo(i)' = ToldTo(i)
           /\ \A i : TotalAt(i)' = TotalAt(i)
           /\ \A i : LengthAt(i)' = LengthAt(i)
           /\ \A i : PartsAt(i)' = PartsAt(i)
           /\ \A i : OpcodeAt(i)' = OpcodeAt(i)
<1>1. \A i : HeaderWrong(i)' <=> HeaderWrong(i)
  <2> TAKE i
  <2>1. Within(i)' = Within(i)
    <3>1. Within(i) \in BOOLEAN /\ Within(i)' \in BOOLEAN
      BY DEF Within
    <3>2. QED
      BY <3>1, SameMessages
  <2>2. IsData(i)' <=> IsData(i)
    BY SameMessages
  <2>3. QED
    BY <2>1, <2>2 DEF HeaderWrong
<1>2. \A i : LengthWrong(i)' <=> LengthWrong(i)
  BY SameMessages DEF LengthWrong, TooMuch
<1>3. \A p : ValidText(p)' <=> ValidText(p)
  BY DEF ValidText
<1>4. \A i : PayloadError(i)' = PayloadError(i)
  BY <1>3, SameMessages DEF PayloadError, TooMuch
<1>5. \A i : SoundFrame(i)' <=> SoundFrame(i)
  BY <1>1, <1>2, <1>4 DEF SoundFrame
<1>6. \A i : EventOf(i)' = EventOf(i)
  BY SameMessages DEF EventOf
<1>7. \A i : Completes(i)' <=> Completes(i)
  BY SameMessages DEF Completes
<1>8. \A S : EventsOf(S)' = EventsOf(S)
  BY <1>6 DEF EventsOf
<1>9. \A i : ToldTo(i)' = ToldTo(i)
  <2> TAKE k
  <2> DEFINE S == {i \in 1..k : Completes(i)}
  <2>1. S' = S
    BY <1>7
  <2>2. ToldTo(k) = EventsOf(S) /\ ToldTo(k)' = EventsOf(S)'
    BY DEF ToldTo
  <2>3. EventsOf(S)' = EventsOf(S)
    BY <1>8, <2>1 DEF EventsOf
  <2>4. QED
    BY <2>2, <2>3
<1>10. \A i : TotalAt(i)' = TotalAt(i)
  BY SameMessages DEF TotalAt
<1>11. \A i : LengthAt(i)' = LengthAt(i)
  BY SameMessages DEF LengthAt
<1>12. \A i : PartsAt(i)' = PartsAt(i)
  BY SameMessages DEF PartsAt
<1>13. \A i : OpcodeAt(i)' = OpcodeAt(i)
  BY SameMessages DEF OpcodeAt
<1>14. QED
  BY <1>1, <1>2, <1>4, <1>5, <1>9, <1>10, <1>11, <1>12, <1>13

-----------------------------------------------------------------------------
(***************************************************************************)
(* The events in order                                                     *)
(***************************************************************************)

\* The frames up to k that complete something, in order.
Telling(k) == InOrder({i \in 1..k : Completes(i)}, MaxFrames)

LEMMA Tellings ==
    /\ Telling(0) = <<>>
    /\ \A k \in 0..MaxFrames : Telling(k) \in Seq(Nat)
    /\ \A k \in 1..MaxFrames : /\ Completes(k) => Telling(k) = Append(Telling(k - 1), k)
                               /\ ~Completes(k) => Telling(k) = Telling(k - 1)
<1> DEFINE S(k) == {i \in 1..k : Completes(i)}
<1>1. MaxFrames \in Nat
  BY BoundsAssumption
<1>2. \A k \in 0..MaxFrames : Telling(k) = InOrder(S(k), k) /\ Telling(k) \in Seq(Nat)
  <2> TAKE k \in 0..MaxFrames
  <2>1. \A i \in (k + 1)..MaxFrames : i \notin S(k)
    BY <1>1
  <2>2. Telling(k) = InOrder(S(k), MaxFrames)
    BY DEF Telling
  <2>3. MaxFrames \in 0..MaxFrames
    BY <1>1
  <2> HIDE DEF S
  <2>4. InOrder(S(k), MaxFrames) = InOrder(S(k), k)
    BY <1>1, <2>1, InOrderGrows
  <2>5. InOrder(S(k), MaxFrames) \in Seq(Nat)
    BY <1>1, <2>3, InOrders
  <2>6. QED
    BY <2>2, <2>4, <2>5
<1>3. \A k \in 1..MaxFrames : (k \in S(k) <=> Completes(k))
  BY <1>1
<1>4. ASSUME NEW k \in 1..MaxFrames
      PROVE  InOrder(S(k), k - 1) = InOrder(S(k - 1), k - 1)
  <2>1. k - 1 \in Nat /\ \A i \in 1..(k - 1) : i \in 1..k
    OBVIOUS
  <2>2. \A i \in 1..(k - 1) : i \in S(k) <=> i \in S(k - 1)
    BY <2>1
  <2> HIDE DEF S
  <2>3. QED
    BY <2>1, <2>2, InOrderSame
<1>5. Telling(0) = <<>>
  <2>1. 0 \in 0..MaxFrames
    BY <1>1
  <2> HIDE DEF S
  <2>2. Telling(0) = InOrder(S(0), 0)
    BY <1>2, <2>1
  <2>3. QED
    BY <1>1, <2>2, InOrders
<1> HIDE DEF S
<1>6. ASSUME NEW k \in 1..MaxFrames
      PROVE  /\ Completes(k) => Telling(k) = Append(Telling(k - 1), k)
             /\ ~Completes(k) => Telling(k) = Telling(k - 1)
  <2>1. k \in 0..MaxFrames /\ k - 1 \in 0..MaxFrames
    BY <1>1
  <2>2. Telling(k) = InOrder(S(k), k) /\ Telling(k - 1) = InOrder(S(k), k - 1)
    BY <1>2, <1>4, <2>1
  <2>3. /\ k \in S(k) => InOrder(S(k), k) = Append(InOrder(S(k), k - 1), k)
        /\ k \notin S(k) => InOrder(S(k), k) = InOrder(S(k), k - 1)
    BY <1>1, InOrders
  <2>4. QED
    BY <1>3, <2>2, <2>3
<1>7. \A k \in 0..MaxFrames : Telling(k) \in Seq(Nat)
  BY <1>2
<1>8. QED
  BY <1>5, <1>6, <1>7

\* The events of the frames told.
LEMMA Tolds ==
    ASSUME NEW k \in 0..MaxFrames
    PROVE  /\ ToldTo(k) = [x \in 1..Len(Telling(k)) |-> EventOf(Telling(k)[x])]
           /\ ToldTo(k) \in Seq({EventOf(i) : i \in Nat})
           /\ Len(ToldTo(k)) = Len(Telling(k))
<1>1. Telling(k) \in Seq(Nat) /\ Len(Telling(k)) \in Nat
  BY Tellings, LenProperties
<1>2. ToldTo(k) = [x \in 1..Len(Telling(k)) |-> EventOf(Telling(k)[x])]
  BY DEF ToldTo, EventsOf, Telling
<1> DEFINE E == {EventOf(i) : i \in Nat}
           t == Telling(k)
<1>3. \A x \in 1..Len(t) : t[x] \in Nat
  BY <1>1, ElementOfSeq
<1>4. \A i \in Nat : EventOf(i) \in E
  OBVIOUS
<1> HIDE DEF E, t
<1>5. [x \in 1..Len(t) |-> EventOf(t[x])] \in [1..Len(t) -> E]
  BY <1>3, <1>4
<1>6. ToldTo(k) \in Seq(E) /\ Len(ToldTo(k)) = Len(t)
  <2>1. ToldTo(k) \in [1..Len(t) -> E] /\ Len(t) \in Nat
    BY <1>1, <1>2, <1>5 DEF t
  <2>2. ToldTo(k) \in Seq(E)
    BY <2>1, SeqDef
  <2>3. DOMAIN ToldTo(k) = 1..Len(t) /\ DOMAIN ToldTo(k) = 1..Len(ToldTo(k))
    BY <2>1, <2>2, LenProperties
  <2>4. Len(ToldTo(k)) \in Nat
    BY <2>2, LenProperties
  <2>5. QED
    BY <2>1, <2>2, <2>3, <2>4
<1>7. QED
  BY <1>2, <1>6 DEF E, t

\* Another frame adds its event if it completes something.
LEMMA ToldGrows ==
    ASSUME NEW k \in 1..MaxFrames
    PROVE  /\ Completes(k) => ToldTo(k) = Append(ToldTo(k - 1), EventOf(k))
           /\ ~Completes(k) => ToldTo(k) = ToldTo(k - 1)
<1>1. MaxFrames \in Nat
  BY BoundsAssumption
<1>2. k \in 0..MaxFrames /\ k - 1 \in 0..MaxFrames
  BY <1>1
<1>3. ~Completes(k) => ToldTo(k) = ToldTo(k - 1)
  <2>1. SUFFICES ASSUME ~Completes(k) PROVE ToldTo(k) = ToldTo(k - 1)
    OBVIOUS
  <2>2. Telling(k) = Telling(k - 1)
    BY <2>1, Tellings
  <2>3. QED
    BY <1>2, <2>2, Tolds
<1>4. ASSUME Completes(k) PROVE ToldTo(k) = Append(ToldTo(k - 1), EventOf(k))
  <2> DEFINE t == Telling(k - 1)
             u == Telling(k)
             E == {EventOf(i) : i \in Nat}
             s == ToldTo(k - 1)
             e == EventOf(k)
  <2>1. u = Append(t, k) /\ t \in Seq(Nat) /\ k \in Nat
    BY <1>2, <1>4, Tellings
  <2>2. /\ s = [x \in 1..Len(t) |-> EventOf(t[x])] /\ s \in Seq(E) /\ Len(s) = Len(t)
        /\ ToldTo(k) = [x \in 1..Len(u) |-> EventOf(u[x])] /\ ToldTo(k) \in Seq(E)
        /\ Len(ToldTo(k)) = Len(u)
    BY <1>2, Tolds
  <2>3. e \in E
    BY <2>1
  <2> HIDE DEF t, u, E, s
  <2>4. /\ Len(u) = Len(t) + 1 /\ u[Len(t) + 1] = k /\ Len(t) \in Nat
        /\ \A x \in 1..Len(t) : u[x] = t[x]
    BY <2>1, AppendProperties, LenProperties
  <2> HIDE DEF e
  <2>5. /\ Append(s, e) \in Seq(E) /\ Len(Append(s, e)) = Len(s) + 1
        /\ Append(s, e)[Len(s) + 1] = e
        /\ \A x \in 1..Len(s) : Append(s, e)[x] = s[x]
    BY <2>2, <2>3, AppendProperties
  <2>6. ASSUME NEW x \in 1..Len(u) PROVE ToldTo(k)[x] = Append(s, e)[x]
    <3>1. ToldTo(k)[x] = EventOf(u[x])
      BY <2>2
    <3>2. CASE x = Len(t) + 1
      BY <2>2, <2>4, <2>5, <3>1, <3>2 DEF e
    <3>3. CASE x \in 1..Len(t)
      <4>1. s[x] = EventOf(t[x]) /\ u[x] = t[x] /\ Append(s, e)[x] = s[x]
        BY <2>2, <2>4, <2>5, <3>3
      <4>2. QED
        BY <3>1, <4>1
    <3>4. x = Len(t) + 1 \/ x \in 1..Len(t)
      BY <2>4
    <3>5. QED
      BY <3>2, <3>3, <3>4
  <2>7. ToldTo(k) = Append(s, e)
    <3> DEFINE a == Append(s, e)
               b == ToldTo(k)
    <3>1. a \in Seq(E) /\ b \in Seq(E) /\ Len(a) = Len(b) /\ \A x \in 1..Len(b) : b[x] = a[x]
      BY <2>2, <2>4, <2>5, <2>6
    <3> HIDE DEF a, b
    <3>2. a = b
      BY <3>1, SeqEqual
    <3>3. QED
      BY <3>2 DEF a, b
  <2>8. QED
    BY <2>7 DEF s, e
<1>5. QED
  BY <1>3, <1>4

\* What the first frames tell comes first.
LEMMA ToldFirst ==
    ASSUME NEW m \in 0..MaxFrames, NEW k \in 0..m
    PROVE  IsPrefix(ToldTo(k), ToldTo(m))
<1>0. MaxFrames \in Nat
  BY BoundsAssumption
<1> DEFINE S(n) == {i \in 1..n : Completes(i)}
<1>1. Telling(k) = InOrder(S(k), k) /\ Telling(m) = InOrder(S(m), m)
  <2>1. \A n \in 0..MaxFrames : Telling(n) = InOrder(S(n), n)
    <3> TAKE n \in 0..MaxFrames
    <3>1. \A i \in (n + 1)..MaxFrames : i \notin S(n)
      BY <1>0
    <3>2. Telling(n) = InOrder(S(n), MaxFrames)
      BY DEF Telling
    <3> HIDE DEF S
    <3>3. QED
      BY <1>0, <3>1, <3>2, InOrderGrows
  <2>2. k \in 0..MaxFrames
    BY <1>0
  <2>3. QED
    BY <2>1, <2>2
<1>2. InOrder(S(m), k) = InOrder(S(k), k)
  <2>1. k \in Nat /\ \A i \in 1..k : i \in 1..m
    BY <1>0
  <2>2. \A i \in 1..k : i \in S(m) <=> i \in S(k)
    BY <2>1
  <2> HIDE DEF S
  <2>3. QED
    BY <2>1, <2>2, InOrderSame
<1> HIDE DEF S
<1> DEFINE t == Telling(k)
           u == Telling(m)
           E == {EventOf(i) : i \in Nat}
           s == ToldTo(k)
           w == ToldTo(m)
<1>3. m \in Nat /\ k \in 0..MaxFrames
  BY <1>0
<1>4. Len(t) <= Len(u) /\ \A i \in 1..Len(t) : u[i] = t[i]
  BY <1>1, <1>2, <1>3, InOrderGrows
<1>5. /\ s = [x \in 1..Len(t) |-> EventOf(t[x])] /\ s \in Seq(E) /\ Len(s) = Len(t)
      /\ w = [x \in 1..Len(u) |-> EventOf(u[x])] /\ w \in Seq(E) /\ Len(w) = Len(u)
  BY <1>3, Tolds
<1> HIDE DEF t, u, E, s, w
<1>6. Len(s) \in Nat /\ Len(w) \in Nat
  BY <1>5, LenProperties
<1>7. \A x \in 1..Len(s) : x \in 1..Len(u) /\ s[x] = w[x] /\ s[x] \in E /\ w[x] \in E
  <2> TAKE x \in 1..Len(s)
  <2>1. x \in 1..Len(t) /\ x \in 1..Len(u) /\ u[x] = t[x]
    BY <1>4, <1>5, <1>6
  <2>2. s[x] = EventOf(t[x]) /\ w[x] = EventOf(u[x])
    BY <1>5, <2>1
  <2>3. s[x] \in E
    BY <1>5, ElementOfSeq
  <2>4. QED
    BY <2>1, <2>2, <2>3
<1> DEFINE p == SubSeq(s, 1, Len(s))
           q == SubSeq(w, 1, Len(s))
<1>8. /\ p \in Seq(E) /\ q \in Seq(E) /\ Len(p) = Len(s) /\ Len(q) = Len(s)
      /\ \A x \in 1..Len(s) : p[x] = s[x] /\ q[x] = w[x]
  <2>1. 1 \in Int /\ Len(s) \in Int /\ (\A x \in 1..Len(s) : s[x] \in E)
        /\ (\A x \in 1..Len(s) : w[x] \in E)
    BY <1>6, <1>7
  <2>2. /\ p \in Seq(E) /\ Len(p) = (IF 1 <= Len(s) THEN Len(s) - 1 + 1 ELSE 0)
        /\ \A i \in 1..(Len(s) - 1 + 1) : p[i] = s[1 + i - 1]
    BY <2>1, SubSeqProperties
  <2>3. /\ q \in Seq(E) /\ Len(q) = (IF 1 <= Len(s) THEN Len(s) - 1 + 1 ELSE 0)
        /\ \A i \in 1..(Len(s) - 1 + 1) : q[i] = w[1 + i - 1]
    BY <2>1, SubSeqProperties
  <2>4. Len(s) - 1 + 1 = Len(s) /\ \A i \in 1..Len(s) : 1 + i - 1 = i
    BY <1>6
  <2> HIDE DEF p, q
  <2>5. QED
    BY <1>6, <2>2, <2>3, <2>4
<1> HIDE DEF p, q
<1>9. p = q
  <2>1. Len(p) = Len(q) /\ \A x \in 1..Len(p) : p[x] = q[x]
    BY <1>7, <1>8
  <2>2. QED
    BY <1>8, <2>1, SeqEqual
<1>10. Len(s) <= Len(w)
  BY <1>4, <1>5
<1>11. QED
  BY <1>9, <1>10 DEF p, q, s, w, IsPrefix

-----------------------------------------------------------------------------
(***************************************************************************)
(* The verdict on a frame                                                  *)
(***************************************************************************)
LEMMA FrameSize ==
    ASSUME TypeOK, NEW i \in 1..MaxFrames
    PROVE  /\ Bytes(i - 1) \in Nat /\ Bytes(i) \in Nat
           /\ Bytes(i) = Bytes(i - 1) + 2 + ExtendedLength(wire[i]) + Mask(wire[i])
                         + wire[i].length
           /\ ExtendedLength(wire[i]) \in Nat /\ Mask(wire[i]) \in {0, 4}
           /\ wire[i].length \in Nat
<1>1. MaxFrames \in Nat /\ i - 1 \in 0..MaxFrames /\ i \in 0..MaxFrames
  BY BoundsAssumption
<1>2. Bytes(i - 1) \in Nat /\ Bytes(i) \in Nat
  BY <1>1, BytesUpTo
<1>3. /\ Bytes(i) = Bytes(i - 1) + Size(wire[i])
      /\ ExtendedLength(wire[i]) \in Nat /\ Mask(wire[i]) \in {0, 4}
      /\ wire[i].length \in Nat
  BY BytesUpTo
<1> DEFINE x == ExtendedLength(wire[i])
           m == Mask(wire[i])
           l == wire[i].length
<1>4. Size(wire[i]) = 2 + x + m + l
  BY DEF Size
<1> HIDE DEF x, m, l
<1>5. m \in Nat
  BY <1>3 DEF m
<1>6. Bytes(i) = Bytes(i - 1) + 2 + x + m + l
  BY <1>2, <1>3, <1>4, <1>5 DEF x, l
<1>7. QED
  BY <1>2, <1>3, <1>6 DEF x, m, l

LEMMA BytesOrder ==
    ASSUME TypeOK, NEW j \in 0..MaxFrames, NEW k \in j..MaxFrames
    PROVE  Bytes(j) <= Bytes(k)
<1> DEFINE sizes == [i \in 1..MaxFrames |-> Size(wire[i])]
<1>1. MaxFrames \in Nat
  BY BoundsAssumption
<1>2. sizes \in [1..MaxFrames -> Nat]
  <2>1. \A i \in 1..MaxFrames : Size(wire[i]) \in Nat
    <3> TAKE i \in 1..MaxFrames
    <3>1. /\ ExtendedLength(wire[i]) \in Nat /\ Mask(wire[i]) \in {0, 4}
          /\ wire[i].length \in Nat
      BY BytesUpTo
    <3>2. QED
      BY <3>1 DEF Size
  <2>2. QED
    BY <2>1
<1>3. Bytes(j) = SumOfFirst(sizes, j) /\ Bytes(k) = SumOfFirst(sizes, k)
  BY DEF Bytes
<1> HIDE DEF sizes
<1>4. QED
  BY <1>1, <1>2, <1>3, SumGrows

\* What arrived is a number, and while the parser lives it is consumed or buffered.
LEMMA ArrivedBytes ==
    ASSUME IInv
    PROVE  /\ Arrived \in Int
           /\ failed = 0 /\ ~Concluded => Arrived = Consumed + bufferedBytes
<1>1. /\ Bytes(MaxFrames) \in Nat /\ unsent \in Nat /\ bufferedBytes \in Nat
      /\ queue \in Seq(1..MaxChunk)
  BY BytesUpTo, TypesApart, BoundsAssumption DEF IInv, WritableTypes
<1>2. SumOfFirst(queue, Len(queue)) \in Nat
  BY <1>1, SumIsNumber
<1> DEFINE waiting == SumOfFirst(queue, Len(queue))
<1>3. Arrived = Bytes(MaxFrames) - unsent - waiting
  BY DEF Arrived
<1>4. ASSUME failed = 0, ~Concluded
      PROVE  Consumed + bufferedBytes + waiting + unsent = Bytes(MaxFrames) /\ Consumed \in Nat
  BY <1>4, ConsumedNow DEF IInv, Counted
<1> HIDE DEF waiting
<1>5. waiting \in Nat
  BY <1>2 DEF waiting
<1>6. QED
  BY <1>1, <1>3, <1>4, <1>5

LEMMA SoundVerdict ==
    ASSUME TypeOK, NEW i \in 1..MaxFrames, SoundFrame(i), Arrived \in Int,
           Arrived >= Bytes(i)
    PROVE  Verdict(i) = Sound
<1> DEFINE x == ExtendedLength(wire[i])
           m == Mask(wire[i])
           l == wire[i].length
           from == Bytes(i - 1)
<1>1. /\ from \in Nat /\ x \in Nat /\ m \in {0, 4} /\ l \in Nat
      /\ Bytes(i) = from + 2 + x + m + l
  BY FrameSize
<1>2. ~HeaderWrong(i) /\ ~LengthWrong(i) /\ PayloadError(i) = 0
  BY DEF SoundFrame
<1>3. Verdict(i) = CASE Arrived < from + 2 -> Missing
         [] Arrived >= from + 2 /\ HeaderWrong(i) -> 1002
         [] Arrived \in (from + 2)..(from + 1 + x) /\ ~HeaderWrong(i) -> Missing
         [] OTHER -> IF LengthWrong(i) THEN 1009
                     ELSE IF Arrived < Bytes(i) THEN Missing
                     ELSE PayloadError(i)
  BY DEF Verdict
<1> HIDE DEF x, m, l, from
<1>4. ~(Arrived < from + 2) /\ Arrived \notin (from + 2)..(from + 1 + x) /\ ~(Arrived < Bytes(i))
  BY <1>1
<1>5. QED
  BY <1>2, <1>3, <1>4 DEF Sound

LEMMA WrongVerdict ==
    ASSUME TypeOK, NEW i \in 1..MaxFrames, NEW code, code # 0, Wrong(i, code),
           Arrived \in Int
    PROVE  Verdict(i) = code
<1> DEFINE x == ExtendedLength(wire[i])
           m == Mask(wire[i])
           l == wire[i].length
           from == Bytes(i - 1)
<1>1. /\ from \in Nat /\ x \in Nat /\ m \in {0, 4} /\ l \in Nat
      /\ Bytes(i) = from + 2 + x + m + l
  BY FrameSize
<1>2. Verdict(i) = CASE Arrived < from + 2 -> Missing
         [] Arrived >= from + 2 /\ HeaderWrong(i) -> 1002
         [] Arrived \in (from + 2)..(from + 1 + x) /\ ~HeaderWrong(i) -> Missing
         [] OTHER -> IF LengthWrong(i) THEN 1009
                     ELSE IF Arrived < Bytes(i) THEN Missing
                     ELSE PayloadError(i)
  BY DEF Verdict
<1>3. \/ code = 1002 /\ HeaderWrong(i) /\ Arrived >= from + 2
      \/ /\ code = 1009 /\ ~HeaderWrong(i) /\ LengthWrong(i)
         /\ Arrived >= from + 2 + x
      \/ /\ code = PayloadError(i) /\ ~HeaderWrong(i) /\ ~LengthWrong(i)
         /\ Arrived >= Bytes(i)
  BY DEF Wrong
<1> HIDE DEF x, m, l, from
<1>4. CASE code = 1002 /\ HeaderWrong(i) /\ Arrived >= from + 2
  <2>1. ~(Arrived < from + 2)
    BY <1>1, <1>4
  <2>2. QED
    BY <1>2, <1>4, <2>1
<1>5. CASE /\ code = 1009 /\ ~HeaderWrong(i) /\ LengthWrong(i)
           /\ Arrived >= from + 2 + x
  <2>1. ~(Arrived < from + 2) /\ Arrived \notin (from + 2)..(from + 1 + x)
    BY <1>1, <1>5
  <2>2. QED
    BY <1>2, <1>5, <2>1
<1>6. CASE /\ code = PayloadError(i) /\ ~HeaderWrong(i) /\ ~LengthWrong(i)
           /\ Arrived >= Bytes(i)
  <2>1. ~(Arrived < from + 2) /\ Arrived \notin (from + 2)..(from + 1 + x) /\ ~(Arrived < Bytes(i))
    BY <1>1, <1>6
  <2>2. QED
    BY <1>2, <1>6, <2>1
<1>7. QED
  BY <1>3, <1>4, <1>5, <1>6

\* The bytes of a frame that is not wrong so far.
LEMMA MissingVerdict ==
    ASSUME TypeOK, NEW i \in 1..MaxFrames, Arrived \in Int,
           \/ Arrived < Bytes(i - 1) + 2
           \/ /\ ~HeaderWrong(i) /\ Arrived >= Bytes(i - 1) + 2
              /\ Arrived < Bytes(i - 1) + 2 + ExtendedLength(wire[i])
           \/ /\ ~HeaderWrong(i) /\ ~LengthWrong(i)
              /\ Arrived >= Bytes(i - 1) + 2 + ExtendedLength(wire[i])
              /\ Arrived < Bytes(i)
    PROVE  Verdict(i) = Missing
<1> DEFINE x == ExtendedLength(wire[i])
           from == Bytes(i - 1)
<1>1. from \in Nat /\ x \in Nat
  BY FrameSize
<1>2. Verdict(i) = CASE Arrived < from + 2 -> Missing
         [] Arrived >= from + 2 /\ HeaderWrong(i) -> 1002
         [] Arrived \in (from + 2)..(from + 1 + x) /\ ~HeaderWrong(i) -> Missing
         [] OTHER -> IF LengthWrong(i) THEN 1009
                     ELSE IF Arrived < Bytes(i) THEN Missing
                     ELSE PayloadError(i)
  BY DEF Verdict
<1>3. \/ Arrived < from + 2
      \/ ~HeaderWrong(i) /\ Arrived >= from + 2 /\ Arrived < from + 2 + x
      \/ /\ ~HeaderWrong(i) /\ ~LengthWrong(i)
         /\ Arrived >= from + 2 + x /\ Arrived < Bytes(i)
  OBVIOUS
<1> HIDE DEF x, from
<1>4. CASE Arrived < from + 2
  <2>1. ~(Arrived >= from + 2) /\ Arrived \notin (from + 2)..(from + 1 + x)
    BY <1>1, <1>4
  <2>2. QED
    BY <1>2, <1>4, <2>1
<1>5. CASE ~HeaderWrong(i) /\ Arrived >= from + 2 /\ Arrived < from + 2 + x
  <2>1. ~(Arrived < from + 2) /\ Arrived \in (from + 2)..(from + 1 + x)
    BY <1>1, <1>5
  <2>2. QED
    BY <1>2, <1>5, <2>1
<1>6. CASE /\ ~HeaderWrong(i) /\ ~LengthWrong(i)
           /\ Arrived >= from + 2 + x /\ Arrived < Bytes(i)
  <2>1. ~(Arrived < from + 2) /\ Arrived \notin (from + 2)..(from + 1 + x)
    BY <1>1, <1>6
  <2>2. QED
    BY <1>2, <1>6, <2>1
<1>7. QED
  BY <1>3, <1>4, <1>5, <1>6

\* The last frame read, and what is told then.
LEMMA ReadUpTo ==
    ASSUME NEW n \in 1..(MaxFrames + 1),
           \A j \in 1..(n - 1) : Verdict(j) = Sound /\ wire[j].opcode # 8,
           n <= MaxFrames => Verdict(n) # Sound \/ wire[n].opcode = 8
    PROVE  LastRead = n
<1> DEFINE Stops(i) == Verdict(i) # Sound \/ wire[i].opcode = 8
           S == {MaxFrames + 1} \cup {i \in 1..MaxFrames : Stops(i)}
<1>1. MaxFrames \in Nat
  BY BoundsAssumption
<1>2. LastRead = Min(S)
  BY DEF LastRead
<1>3. (\A j \in 1..(n - 1) : ~Stops(j)) /\ (n <= MaxFrames => Stops(n))
  OBVIOUS
<1> HIDE DEF Stops
<1>4. n \in S
  <2>1. n = MaxFrames + 1 \/ (n \in 1..MaxFrames /\ n <= MaxFrames)
    BY <1>1
  <2>2. QED
    BY <1>3, <2>1
<1>5. \A y \in S : y \in Nat /\ n <= y
  <2> TAKE y \in S
  <2>1. y = MaxFrames + 1 \/ (y \in 1..MaxFrames /\ Stops(y))
    OBVIOUS
  <2>2. y \in 1..(n - 1) => ~Stops(y)
    BY <1>3
  <2>3. QED
    BY <1>1, <2>1, <2>2
<1> HIDE DEF S
<1>6. Min(S) \in S /\ \A y \in S : Min(S) <= y
  <2>1. \E x \in S : \A y \in S : x <= y
    BY <1>4, <1>5
  <2>2. QED
    BY <2>1 DEF Min
<1>7. Min(S) \in Nat /\ n <= Min(S) /\ Min(S) <= n /\ n \in Nat
  BY <1>4, <1>5, <1>6
<1>8. QED
  BY <1>2, <1>7

LEMMA ToldUpTo ==
    ASSUME NEW n \in 1..(MaxFrames + 1)
    PROVE  /\ n = MaxFrames + 1 \/ Verdict(n) # Sound => Told(n) = ToldTo(n - 1)
           /\ n <= MaxFrames /\ Verdict(n) = Sound => Told(n) = ToldTo(n)
<1> DEFINE T == {i \in 1..MaxFrames : /\ i < n \/ (i = n /\ Verdict(n) = Sound)
                                      /\ Completes(i)}
           S(k) == {i \in 1..k : Completes(i)}
<1>1. MaxFrames \in Nat
  BY BoundsAssumption
<1>2. Told(n) = EventsOf(T) /\ \A k : ToldTo(k) = EventsOf(S(k))
  BY DEF Told, ToldTo
<1>3. ASSUME n = MaxFrames + 1 \/ Verdict(n) # Sound PROVE T = S(n - 1)
  BY <1>1, <1>3
<1>4. ASSUME n <= MaxFrames, Verdict(n) = Sound PROVE T = S(n)
  BY <1>1, <1>4
<1> HIDE DEF T, S
<1>5. QED
  BY <1>2, <1>3, <1>4

\* Where the parser stands: how far the bytes that arrived go.
LEMMA ArrivedFar ==
    ASSUME IInv, failed = 0, ~Concluded
    PROVE  /\ Done \in 0..MaxFrames /\ Arrived \in Int /\ Arrived >= Bytes(Done)
           /\ state # "GET_INFO" =>
                  /\ frame \in 1..MaxFrames /\ Done = frame - 1
                  /\ Arrived >= Bytes(frame - 1) + 2
           /\ state \in {"GET_MASK", "GET_DATA", "INFLATING"} =>
                  Arrived >= Bytes(frame - 1) + 2 + ExtendedLength(wire[frame])
<1>1. /\ MaxFrames \in Nat /\ bufferedBytes \in Nat /\ state \in States
  BY BoundsAssumption, TypesApart DEF IInv, WritableTypes, HeaderTypes
<1>2. Arrived \in Int /\ Arrived = Consumed + bufferedBytes
  BY ArrivedBytes
<1>3. CASE state = "GET_INFO"
  <2>1. Done = frame /\ frame \in 0..MaxFrames /\ Consumed = Bytes(frame) /\ Consumed \in Nat
    BY <1>3, ConsumedNow DEF Done
  <2>2. Arrived >= Bytes(Done)
    BY <1>1, <1>2, <2>1
  <2>3. QED
    BY <1>2, <1>3, <2>1, <2>2
<1>4. CASE state # "GET_INFO"
  <2>1. Done = frame - 1 /\ frame \in 1..MaxFrames
    BY <1>4, ConsumedNow DEF Done
  <2> DEFINE x == ExtendedLength(wire[frame])
             m == Mask(wire[frame])
             l == wire[frame].length
             from == Bytes(frame - 1)
             to == Bytes(frame)
  <2>2. /\ from \in Nat /\ x \in Nat /\ m \in {0, 4} /\ l \in Nat
        /\ to = from + 2 + x + m + l
    BY <2>1, FrameSize DEF IInv
  <2>3. /\ state \in {"GET_PAYLOAD_LENGTH_16", "GET_PAYLOAD_LENGTH_64"} => Consumed = from + 2
        /\ state = "GET_MASK" => Consumed = from + 2 + x
        /\ state = "GET_DATA" => Consumed = to - l
        /\ state = "INFLATING" => Consumed = to
    BY <1>4, ConsumedNow
  <2> HIDE DEF x, m, l, from, to
  <2>4. m \in Nat /\ Done \in 0..MaxFrames
    BY <1>1, <2>1, <2>2
  <2>5. /\ Arrived >= from + 2
        /\ state \in {"GET_MASK", "GET_DATA", "INFLATING"} => Arrived >= from + 2 + x
    BY <1>1, <1>2, <1>4, <2>2, <2>3, <2>4 DEF States
  <2>6. Arrived >= from
    BY <1>2, <2>2, <2>5
  <2>7. Arrived >= Bytes(Done)
    BY <2>1, <2>6 DEF from
  <2>8. QED
    BY <1>2, <2>1, <2>4, <2>5, <2>7 DEF from, x
<1>5. QED
  BY <1>3, <1>4

\* Sound frames whose bytes arrived are found sound.
LEMMA SoundSoFar ==
    ASSUME TypeOK, NEW k \in 0..MaxFrames, Arrived \in Int,
           k = 0 \/ Arrived >= Bytes(k),
           \A j \in 1..k : SoundFrame(j)
    PROVE  \A j \in 1..k : Verdict(j) = Sound
<1> TAKE j \in 1..k
<1>1. MaxFrames \in Nat /\ j \in 1..MaxFrames /\ j \in 0..MaxFrames /\ k \in j..MaxFrames
  BY BoundsAssumption
<1>2. Bytes(j) <= Bytes(k) /\ Bytes(j) \in Nat /\ Bytes(k) \in Nat
  BY <1>1, BytesOrder, BytesUpTo
<1>3. Arrived >= Bytes(j)
  BY <1>2
<1>4. QED
  BY <1>1, <1>3, SoundVerdict

\* The frame in hand, when the loop has stopped.
LEMMA NextIsMissing ==
    ASSUME IInv, Reading, failed = 0, ~Concluded, ~loop, ~Inflating, Done < MaxFrames
    PROVE  Verdict(Done + 1) = Missing
<1>1. /\ MaxFrames \in Nat /\ bufferedBytes \in Nat /\ state \in States
      /\ payloadLength \in Nat
  BY BoundsAssumption, TypesApart DEF IInv, WritableTypes, HeaderTypes
<1>2. Arrived \in Int /\ Arrived = Consumed + bufferedBytes /\ Done \in 0..MaxFrames
  BY ArrivedBytes, ArrivedFar
<1>3. bufferedBytes < Needed
  BY DEF Reading, Stopped
<1>4. state # "INFLATING"
  BY DEF Inflating
<1> DEFINE i == Done + 1
           x == ExtendedLength(wire[i])
           m == Mask(wire[i])
           l == wire[i].length
           from == Bytes(i - 1)
           to == Bytes(i)
<1>5. i \in 1..MaxFrames
  BY <1>1, <1>2
<1>6. /\ from \in Nat /\ x \in Nat /\ m \in {0, 4} /\ l \in Nat
      /\ to = from + 2 + x + m + l
  BY <1>5, FrameSize DEF IInv
<1>7. Missing = Verdict(i)
  <2>1. CASE state = "GET_INFO"
    <3>1. Needed = 2 /\ Consumed = Bytes(frame) /\ Done = frame /\ i - 1 = frame
      BY <1>1, <1>2, <2>1, ConsumedNow DEF Needed, Done
    <3>2. Arrived < from + 2
      <4>1. Arrived = from + bufferedBytes /\ bufferedBytes < 2
        BY <1>2, <1>3, <3>1
      <4> HIDE DEF from
      <4>2. QED
        BY <1>1, <1>6, <4>1
    <3>3. QED
      BY <1>2, <1>5, <3>2, MissingVerdict DEF IInv
  <2>2. CASE state # "GET_INFO"
    <3>1. /\ i = frame /\ HeaderRead(frame) /\ LengthRead(frame)
          /\ frame \in 1..MaxFrames /\ payloadLength = l
      <4>1. frame \in 1..MaxFrames /\ Done = frame - 1
        BY <2>2, ConsumedNow DEF Done
      <4>2. i = frame
        BY <4>1
      <4>3. payloadLength = wire[frame].length
        BY <2>2 DEF IInv, InHand
      <4>4. QED
        BY <2>2, <4>1, <4>2, <4>3 DEF Reading
    <3>2. ~HeaderWrong(i)
      BY <3>1 DEF HeaderRead
    <3>3. CASE state \in {"GET_PAYLOAD_LENGTH_16", "GET_PAYLOAD_LENGTH_64"}
      <4>1. Consumed = from + 2
        BY <3>1, <3>3, ConsumedNow
      <4>2. Needed = x
        BY <3>1, <3>3 DEF Needed, ExtendedLength, IInv, InHand
      <4> HIDE DEF i, x, m, l, from, to
      <4>3. Arrived >= from + 2 /\ Arrived < from + 2 + x
        BY <1>1, <1>2, <1>3, <1>6, <4>1, <4>2
      <4>4. QED
        BY <1>2, <1>5, <3>2, <4>3, MissingVerdict DEF IInv, from, x
    <3>4. CASE state = "GET_MASK"
      <4>1. Consumed = from + 2 + x
        BY <3>1, <3>4, ConsumedNow
      <4>2. Needed = 4 /\ m = 4
        BY <3>1, <3>4 DEF Needed, Mask, IInv, InHand
      <4>3. ~LengthWrong(i)
        BY <3>1, <3>4 DEF LengthRead
      <4> HIDE DEF i, x, m, l, from, to
      <4>4. Arrived >= from + 2 + x /\ Arrived < to
        BY <1>1, <1>2, <1>3, <1>6, <4>1, <4>2
      <4>5. QED
        BY <1>2, <1>5, <3>2, <4>3, <4>4, MissingVerdict DEF IInv, from, x, to
    <3>5. CASE state = "GET_DATA"
      <4>1. Consumed = to - l
        BY <3>1, <3>5, ConsumedNow
      <4>2. Needed = l
        BY <3>1, <3>5 DEF Needed
      <4>3. ~LengthWrong(i)
        BY <3>1, <3>5 DEF LengthRead
      <4> HIDE DEF i, x, m, l, from, to
      <4>6. m \in Nat
        BY <1>6
      <4>4. Arrived >= from + 2 + x /\ Arrived < to
        BY <1>1, <1>2, <1>3, <1>6, <4>1, <4>2, <4>6
      <4>5. QED
        BY <1>2, <1>5, <3>2, <4>3, <4>4, MissingVerdict DEF IInv, from, x, to
    <3>6. QED
      BY <1>1, <1>4, <2>2, <3>3, <3>4, <3>5 DEF States
  <2>3. QED
    BY <2>1, <2>2
<1>8. QED
  BY <1>7

\* The invariant says what the property asks.
LEMMA ReadingParses == IInv /\ Reading => ParsesTheStream
<1> SUFFICES ASSUME IInv, Reading PROVE ParsesTheStream
  OBVIOUS
<1>1. /\ MaxFrames \in Nat /\ Arrived \in Int /\ TypeOK
      /\ failed \in {0, 1002, 1007, 1009}
  BY BoundsAssumption, ArrivedBytes, TypesApart DEF IInv, WritableTypes
<1>2. ASSUME failed # 0
      PROVE  ~loop /\ ~Inflating /\ failed = ErrorIn(LastRead) /\ emitted = Told(LastRead)
  <2>1. PICK n \in 1..MaxFrames : FailedAt(n)
    BY <1>2 DEF Reading
  <2>2. Verdict(n) = failed
    BY <1>1, <1>2, <2>1, WrongVerdict DEF FailedAt
  <2>3. n - 1 \in 0..MaxFrames /\ n \in 1..(MaxFrames + 1) /\ n <= MaxFrames
    BY <1>1
  <2>4. Arrived >= Bytes(n - 1)
    <3> DEFINE x == ExtendedLength(wire[n])
               m == Mask(wire[n])
               l == wire[n].length
    <3>1. /\ Bytes(n - 1) \in Nat /\ x \in Nat /\ m \in {0, 4} /\ l \in Nat
          /\ Bytes(n) = Bytes(n - 1) + 2 + x + m + l
      BY <1>1, FrameSize
    <3>2. \/ Arrived >= Bytes(n - 1) + 2
          \/ Arrived >= Bytes(n - 1) + 2 + x
          \/ Arrived >= Bytes(n)
      BY <2>1 DEF FailedAt, Wrong
    <3> HIDE DEF x, m, l
    <3>3. m \in Nat
      BY <3>1
    <3>4. QED
      BY <1>1, <3>1, <3>2, <3>3
  <2>5. \A j \in 1..(n - 1) : SoundFrame(j) /\ wire[j].opcode # 8
    BY <2>1 DEF FailedAt
  <2>6. \A j \in 1..(n - 1) : Verdict(j) = Sound
    BY <1>1, <2>3, <2>4, <2>5, SoundSoFar
  <2>7. Verdict(n) # Sound /\ Verdict(n) # Missing
    BY <1>1, <1>2, <2>2 DEF Sound, Missing
  <2>8. LastRead = n
    BY <2>3, <2>5, <2>6, <2>7, ReadUpTo
  <2>9. Told(n) = ToldTo(n - 1)
    BY <2>3, <2>7, ToldUpTo
  <2>10. ErrorIn(n) = failed
    BY <2>2, <2>3, <2>7 DEF ErrorIn
  <2>11. ~loop /\ ~Inflating
    BY <1>2 DEF IInv, Running, Inflating
  <2>12. QED
    BY <2>1, <2>8, <2>9, <2>10, <2>11 DEF FailedAt
<1>3. ASSUME failed = 0, Concluded
      PROVE  ~loop /\ ~Inflating /\ ErrorIn(LastRead) = 0 /\ emitted = Told(LastRead)
  <2>1. /\ Done = frame /\ frame \in 0..MaxFrames
    BY <1>3, TypesApart DEF Done, Concluded, IInv, HeaderTypes
  <2>2. /\ \A j \in 1..frame : SoundFrame(j) /\ (wire[j].opcode = 8 => j = frame)
        /\ frame > 0 /\ wire[frame].opcode = 8 /\ Arrived >= Bytes(frame)
        /\ emitted = ToldTo(frame)
    BY <1>3, <2>1 DEF Reading, ReadSoFar
  <2>3. frame \in 1..MaxFrames /\ frame \in 1..(MaxFrames + 1) /\ frame <= MaxFrames
        /\ \A j \in 1..(frame - 1) : j \in 1..frame /\ j # frame
    BY <1>1, <2>1, <2>2
  <2>4. \A j \in 1..frame : Verdict(j) = Sound
    BY <1>1, <2>1, <2>2, SoundSoFar
  <2>5. LastRead = frame
    BY <2>2, <2>3, <2>4, ReadUpTo
  <2>6. Verdict(frame) = Sound
    BY <2>3, <2>4
  <2>7. Told(frame) = ToldTo(frame) /\ ErrorIn(frame) = 0
    BY <2>3, <2>6, ToldUpTo DEF ErrorIn
  <2>8. ~loop /\ ~Inflating
    BY <1>3 DEF IInv, Running, Inflating, Concluded
  <2>9. QED
    BY <2>2, <2>5, <2>7, <2>8
<1>4. ASSUME failed = 0, ~Concluded
      PROVE  /\ Done \in 0..MaxFrames /\ emitted = ToldTo(Done)
             /\ \A j \in 1..Done : Verdict(j) = Sound /\ wire[j].opcode # 8
  <2>1. Done \in 0..MaxFrames /\ Arrived >= Bytes(Done)
    BY <1>4, ArrivedFar
  <2>2. /\ \A j \in 1..Done : SoundFrame(j) /\ wire[j].opcode # 8
        /\ emitted = ToldTo(Done)
    BY <1>4 DEF Reading, ReadSoFar
  <2>3. QED
    BY <1>1, <2>1, <2>2, SoundSoFar
<1>5. ASSUME failed = 0, ~Concluded, ~loop, ~Inflating
      PROVE  ErrorIn(LastRead) = 0 /\ emitted = Told(LastRead)
  <2> DEFINE n == Done + 1
  <2>1. n \in 1..(MaxFrames + 1) /\ n - 1 = Done
    BY <1>1, <1>4, <1>5
  <2>2. n <= MaxFrames => Verdict(n) = Missing
    BY <1>1, <1>4, <1>5, NextIsMissing
  <2> HIDE DEF n
  <2>3. n <= MaxFrames => Verdict(n) # Sound
    BY <2>2 DEF Sound, Missing
  <2>4. LastRead = n
    BY <1>4, <1>5, <2>1, <2>3, ReadUpTo
  <2>5. n = MaxFrames + 1 \/ n <= MaxFrames
    BY <1>1, <2>1
  <2>6. Told(n) = ToldTo(Done)
    BY <2>1, <2>3, <2>5, ToldUpTo
  <2>7. ErrorIn(n) = 0
    BY <2>2 DEF ErrorIn
  <2>8. QED
    BY <1>4, <1>5, <2>4, <2>6, <2>7
<1>6. ASSUME failed = 0, ~Concluded PROVE IsPrefix(emitted, Told(LastRead))
  <2> DEFINE n == LastRead
  <2>1. n \in 1..(MaxFrames + 1) /\ n > Done
    <3> DEFINE S == {MaxFrames + 1} \cup
                    {i \in 1..MaxFrames : Verdict(i) # Sound \/ wire[i].opcode = 8}
    <3>1. \A y \in S : y \in 1..(MaxFrames + 1) /\ y > Done
      <4> TAKE y \in S
      <4>1. y \in 1..(MaxFrames + 1)
        BY <1>1
      <4>2. y \notin 1..Done
        BY <1>1, <1>4, <1>6
      <4>3. QED
        BY <1>1, <1>4, <1>6, <4>1, <4>2
    <3>2. MaxFrames + 1 \in S
      OBVIOUS
    <3>3. LastRead = Min(S)
      BY DEF LastRead
    <3> HIDE DEF S
    <3>4. \A y \in S : y \in Nat
      BY <3>1
    <3>5. \E x \in S : \A y \in S : x <= y
      <4>1. S \in SUBSET Nat
        BY <3>4
      <4>2. QED
        BY <3>2, <4>1, LeastNumber
    <3>6. Min(S) \in S
      BY <3>5 DEF Min
    <3>7. QED
      BY <3>1, <3>3, <3>6
  <2> HIDE DEF n
  <2>2. PICK k \in {n - 1, n} : k \in 0..MaxFrames /\ Told(n) = ToldTo(k)
    <3>1. CASE n <= MaxFrames /\ Verdict(n) = Sound
      BY <1>1, <2>1, <3>1, ToldUpTo
    <3>2. CASE n = MaxFrames + 1 \/ Verdict(n) # Sound
      <4>1. n - 1 \in 0..MaxFrames
        BY <1>1, <2>1
      <4>2. QED
        BY <2>1, <3>2, <4>1, ToldUpTo
    <3>3. QED
      BY <1>1, <2>1, <3>1, <3>2
  <2>3. Done \in 0..k
    BY <1>1, <1>4, <1>6, <2>1, <2>2
  <2>4. QED
    BY <1>4, <1>6, <2>2, <2>3, ToldFirst DEF n
<1>7. QED
  BY <1>2, <1>3, <1>5, <1>6 DEF ParsesTheStream

-----------------------------------------------------------------------------
(***************************************************************************)
(* A sound header                                                          *)
(***************************************************************************)
LEMMA HeaderRefused ==
    ASSUME TypeOK, NEW i \in 1..MaxFrames, fragmented = OpcodeAt(i - 1),
           Within(i) => wire[Opening(i - 1)].opcode \in {1, 2}
    PROVE  WrongInfo(wire[i]) <=> HeaderWrong(i)
<1>1. i - 1 + 1 = i
  OBVIOUS
<1>2. /\ Within(i) => fragmented # 0
      /\ ~Within(i) => fragmented = 0
  BY <1>1 DEF OpcodeAt
<1>3. Within(i) \in BOOLEAN
  BY DEF Within
<1> DEFINE f == wire[i]
           w == Within(i)
           data == IsData(i)
<1>4. data <=> f.opcode \in {0, 1, 2}
  BY DEF IsData
<1>5. /\ WrongInfo(f) <=>
            \/ f.rsv23
            \/ f.rsv1 /\ ~(Deflate /\ f.opcode \in {1, 2})
            \/ f.opcode = 0 /\ ~w
            \/ f.opcode \in {1, 2} /\ w
            \/ f.opcode \in Control /\ (~f.fin \/ f.form # 7)
            \/ f.opcode \notin {0, 1, 2} \cup Control
            \/ f.masked # IsServer
  BY <1>2, <1>3 DEF WrongInfo
<1>6. /\ HeaderWrong(i) <=>
            \/ f.rsv23 \/ f.masked # IsServer
            \/ f.rsv1 /\ ~(Deflate /\ f.opcode \in {1, 2})
            \/ data /\ (f.opcode = 0) # w
            \/ ~data /\ (f.opcode \notin Control \/ ~f.fin \/ f.form # 7)
  BY DEF HeaderWrong
<1> HIDE DEF f, w, data
<1>7. (f.opcode = 0) # w <=> (f.opcode = 0 /\ ~w) \/ (f.opcode # 0 /\ w)
  BY <1>3 DEF w
<1>8. QED
  BY <1>4, <1>5, <1>6, <1>7 DEF Control, f

\* A sound data frame goes on with its message, or opens one.
LEMMA DataFrame ==
    ASSUME TypeOK, NEW i \in 1..MaxFrames, ~HeaderWrong(i), IsData(i),
           Within(i) => wire[Opening(i - 1)].opcode \in {1, 2}
    PROVE  /\ wire[Opening(i)].opcode \in {1, 2}
           /\ Within(i + 1) <=> ~wire[i].fin
           /\ wire[i].opcode = 0 => /\ Within(i) /\ i > 1 /\ Opening(i) = Opening(i - 1)
                                    /\ Deflated(i) = Deflated(i - 1)
           /\ wire[i].opcode # 0 => /\ ~Within(i) /\ wire[i].opcode \in {1, 2}
                                    /\ Opening(i) = i /\ Deflated(i) = wire[i].rsv1
           /\ Lengths(i)[i] = wire[i].length
           /\ Content(i)[i] = IF Deflated(i) THEN wire[i].inflated ELSE wire[i].length
           /\ SumOfFirst(Lengths(i), i) = TotalAt(i - 1) + wire[i].length
           /\ SumOfFirst(Content(i), i) = LengthAt(i - 1) + Content(i)[i]
           /\ PartsSeq(i) = IF Content(i)[i] > 0 THEN Append(PartsAt(i - 1), i)
                            ELSE PartsAt(i - 1)
<1>1. i - 1 + 1 = i /\ i \in Nat \ {0} /\ MaxFrames \in Nat
  BY BoundsAssumption
<1>2. /\ wire[i].opcode \in {0, 1, 2}
      /\ wire[i].opcode = 0 => Within(i)
      /\ wire[i].opcode # 0 => ~Within(i)
  <2>1. Within(i) \in BOOLEAN
    BY DEF Within
  <2>2. QED
    BY <2>1 DEF HeaderWrong, IsData
<1>3. /\ Within(i) => i > 1
      /\ Within(i + 1) <=> ~wire[i].fin
  BY <1>1, Withins
<1>4. i \in PartsTo(i)
  <2>1. Opening(i) \in 1..i
    BY <1>1, Openings
  <2>2. i \in Opening(i)..i
    BY <1>1, <2>1
  <2>3. QED
    BY <2>2 DEF PartsTo
<1>5. /\ Lengths(i)[i] = wire[i].length
      /\ Content(i)[i] = IF Deflated(i) THEN wire[i].inflated ELSE wire[i].length
  BY <1>4 DEF Lengths, Content
<1>6. Lengths(i)[i] \in Nat /\ Content(i)[i] \in Nat
  BY Counting
<1>7. CASE wire[i].opcode = 0
  <2>1. Within(i) /\ i > 1
    BY <1>2, <1>3, <1>7
  <2>2. /\ TotalAt(i - 1) = SumOfFirst(Lengths(i - 1), i - 1)
        /\ LengthAt(i - 1) = SumOfFirst(Content(i - 1), i - 1)
        /\ PartsAt(i - 1) = PartsSeq(i - 1)
    BY <1>1, <2>1 DEF TotalAt, LengthAt, PartsAt
  <2>3. /\ SumOfFirst(Lengths(i), i) = SumOfFirst(Lengths(i - 1), i - 1) + wire[i].length
        /\ SumOfFirst(Content(i), i) = SumOfFirst(Content(i - 1), i - 1) + Content(i)[i]
        /\ PartsSeq(i) = IF Content(i)[i] > 0 THEN Append(PartsSeq(i - 1), i)
                         ELSE PartsSeq(i - 1)
        /\ Deflated(i) = Deflated(i - 1) /\ Opening(i) = Opening(i - 1)
    BY <1>7, <2>1, MessageContinues
  <2>4. QED
    BY <1>3, <1>5, <1>7, <2>1, <2>2, <2>3
<1>8. CASE wire[i].opcode # 0
  <2>1. ~Within(i) /\ wire[i].opcode \in {1, 2}
    BY <1>2, <1>8
  <2>2. TotalAt(i - 1) = 0 /\ LengthAt(i - 1) = 0 /\ PartsAt(i - 1) = <<>>
    BY <1>1, <2>1 DEF TotalAt, LengthAt, PartsAt
  <2>3. /\ SumOfFirst(Lengths(i), i) = wire[i].length
        /\ SumOfFirst(Content(i), i) = Content(i)[i]
        /\ PartsSeq(i) = IF Content(i)[i] > 0 THEN <<i>> ELSE <<>>
        /\ Deflated(i) = wire[i].rsv1
    BY <2>1, MessageOpens
  <2>4. Opening(i) = i
    BY <1>1, <2>1, Openings
  <2>5. Append(<<>>, i) = <<i>>
    OBVIOUS
  <2>6. /\ SumOfFirst(Lengths(i), i) = 0 + wire[i].length
        /\ SumOfFirst(Content(i), i) = 0 + Content(i)[i]
    BY <1>5, <1>6, <2>3
  <2>7. PartsSeq(i) = IF Content(i)[i] > 0 THEN Append(<<>>, i) ELSE <<>>
    BY <2>3, <2>5
  <2>8. QED
    BY <1>3, <1>5, <1>8, <2>1, <2>2, <2>3, <2>4, <2>6, <2>7
<1>9. QED
  BY <1>7, <1>8

\* A sound control frame leaves the message around it alone.
LEMMA ControlFrame ==
    ASSUME TypeOK, NEW i \in 1..MaxFrames, ~HeaderWrong(i), ~IsData(i),
           Within(i) => wire[Opening(i - 1)].opcode \in {1, 2}
    PROVE  /\ wire[i].opcode \in Control /\ wire[i].fin /\ wire[i].form = 7
           /\ Within(i + 1) <=> Within(i)
           /\ TotalAt(i) = TotalAt(i - 1) /\ LengthAt(i) = LengthAt(i - 1)
           /\ PartsAt(i) = PartsAt(i - 1) /\ OpcodeAt(i) = OpcodeAt(i - 1)
           /\ Within(i) => /\ Deflated(i) = Deflated(i - 1)
                           /\ wire[Opening(i)].opcode \in {1, 2}
<1>1. i - 1 + 1 = i /\ i \in Nat \ {0} /\ MaxFrames \in Nat
  BY BoundsAssumption
<1>2. wire[i].opcode \in Control /\ wire[i].fin /\ wire[i].form = 7
  BY DEF HeaderWrong
<1>3. (Within(i) => i > 1) /\ (Within(i + 1) <=> Within(i))
  BY <1>1, Withins
<1>4. CASE Within(i)
  <2>1. /\ SumOfFirst(Lengths(i), i) = SumOfFirst(Lengths(i - 1), i - 1)
        /\ SumOfFirst(Content(i), i) = SumOfFirst(Content(i - 1), i - 1)
        /\ PartsSeq(i) = PartsSeq(i - 1) /\ Deflated(i) = Deflated(i - 1)
        /\ Opening(i) = Opening(i - 1)
    BY <1>3, <1>4, MessageStays
  <2>2. QED
    BY <1>1, <1>2, <1>3, <1>4, <2>1 DEF TotalAt, LengthAt, PartsAt, OpcodeAt
<1>5. CASE ~Within(i)
  BY <1>1, <1>2, <1>3, <1>5 DEF TotalAt, LengthAt, PartsAt, OpcodeAt
<1>6. QED
  BY <1>4, <1>5

\* haveLength() finds the lengths that are wrong, and counts the others.
LEMMA HaveLengthReads ==
    ASSUME TypeOK, NEW i \in 1..MaxFrames, ~HeaderWrong(i),
           Within(i) => wire[Opening(i - 1)].opcode \in {1, 2},
           totalPayloadLength = TotalAt(i - 1),
           wire[i].form = 64 => ~(wire[i].length >= Unsafe),
           NEW op, NEW mask, op \in Control <=> ~IsData(i),
           HaveLength(op, mask, wire[i].length)
    PROVE  \/ Fail(1009) /\ LengthWrong(i)
           \/ /\ ~LengthWrong(i)
              /\ failed' = failed /\ loop' = TRUE /\ queue' = queue
              /\ state' \in {"GET_MASK", "GET_DATA"}
              /\ totalPayloadLength' = IF IsData(i) THEN SumOfFirst(Lengths(i), i)
                                       ELSE TotalAt(i)
<1> DEFINE n == wire[i].length
           total == SumOfFirst(Lengths(i), i)
           Over == MaxPayload > 0 /\ n > 0 /\ total > MaxPayload
<1>1. IsData(i) => total = totalPayloadLength + n /\ Lengths(i)[i] = n
  BY DataFrame
<1>2. LengthWrong(i) <=> IsData(i) /\ Over
  BY <1>1 DEF LengthWrong, TooMuch
<1>3. ~IsData(i) => TotalAt(i) = totalPayloadLength
  BY ControlFrame
<1>4. totalPayloadLength \in Nat
  BY TypesApart DEF MessageTypes
<1>5. CASE IsData(i) /\ Over
  <2>1. Fail(1009)
    BY <1>1, <1>5 DEF HaveLength
  <2>2. QED
    BY <1>2, <1>5, <2>1
<1>6. CASE ~(IsData(i) /\ Over)
  <2>1. /\ GoOn(IF mask THEN "GET_MASK" ELSE "GET_DATA")
        /\ totalPayloadLength' = totalPayloadLength + IF op \in Control THEN 0 ELSE n
    BY <1>1, <1>6 DEF HaveLength
  <2>2. /\ failed' = failed /\ loop' = TRUE /\ queue' = queue
        /\ state' \in {"GET_MASK", "GET_DATA"}
    BY <2>1 DEF GoOn
  <2>3. totalPayloadLength' = IF IsData(i) THEN total ELSE TotalAt(i)
    <3>1. CASE IsData(i)
      BY <1>1, <2>1, <3>1
    <3>2. CASE ~IsData(i)
      <4>1. totalPayloadLength' = totalPayloadLength + 0
        BY <2>1, <3>2
      <4>2. QED
        BY <1>3, <1>4, <3>2, <4>1
    <3>3. QED
      BY <3>1, <3>2
  <2>4. QED
    BY <1>2, <1>6, <2>2, <2>3
<1>7. QED
  BY <1>5, <1>6

-----------------------------------------------------------------------------
(***************************************************************************)
(* The ways a step leaves the parser                                       *)
(***************************************************************************)

\* The loop, and the callback of zlib, run in a parser that can still read.
LEMMA AtWork ==
    ASSUME IInv, Reading, loop \/ Inflating
    PROVE  /\ failed = 0 /\ ~Concluded /\ ReadSoFar
           /\ state = "GET_INFO" => AfterFrame(frame)
           /\ state # "GET_INFO" => HeaderRead(frame) /\ LengthRead(frame)
           /\ Done \in 0..MaxFrames
           /\ state # "GET_INFO" => frame \in 1..MaxFrames /\ Done = frame - 1
<1>1. failed = 0 /\ ~Concluded
  BY DEF IInv, Running, Inflating, Concluded
<1>2. QED
  BY <1>1, ArrivedFar DEF Reading

\* A frame was read to its end.
LEMMA FrameDone ==
    ASSUME IInv, Reading, failed = 0, ~Concluded, state # "GET_INFO",
           wire' = wire, frame' = frame, failed' = 0, state' = "GET_INFO",
           loop' \/ Concluded', SoundFrame(frame), wire[frame].opcode = 8 <=> Concluded',
           Concluded' => Arrived' >= Bytes(frame),
           Within(frame + 1) => wire[Opening(frame)].opcode \in {1, 2},
           emitted' = ToldTo(frame),
           messageLength' = LengthAt(frame), fragments' = PartsAt(frame),
           totalPayloadLength' = TotalAt(frame), fragmented' = OpcodeAt(frame),
           Within(frame + 1) => compressed' = Deflated(frame)
    PROVE  Reading'
<1>1. Done = frame - 1 /\ frame \in 1..MaxFrames /\ Done' = frame
  BY ArrivedFar DEF Done
<1>2. ReadSoFar
  BY DEF Reading
<1>3. \A j \in 1..(frame - 1) : SoundFrame(j) /\ wire[j].opcode # 8
  BY <1>1, <1>2 DEF ReadSoFar
<1>4. \A j \in 1..frame : SoundFrame(j) /\ (wire[j].opcode = 8 => j = frame /\ Concluded')
  <2> TAKE j \in 1..frame
  <2>1. j = frame \/ j \in 1..(frame - 1)
    BY <1>1
  <2>2. QED
    BY <1>3, <2>1
<1>5. ReadSoFar'
  <2>1. \A j \in 1..Done' : SoundFrame(j)' /\ (wire'[j].opcode = 8 => j = Done' /\ Concluded')
    BY <1>1, <1>4, SameReading
  <2>2. Within(frame + 1)' => wire'[Opening(frame)'].opcode \in {1, 2}
    BY SameMessages
  <2>3. Concluded' => frame > 0 /\ wire'[frame].opcode = 8 /\ Arrived' >= Bytes(frame)'
    BY <1>1, SameBytes
  <2>4. emitted' = ToldTo(frame)'
    BY SameReading
  <2>5. QED
    BY <1>1, <2>1, <2>2, <2>3, <2>4 DEF ReadSoFar
<1>6. AfterFrame(frame)'
  BY SameReading, SameMessages DEF AfterFrame
<1>7. Stopped'
  BY DEF Stopped
<1>8. QED
  BY <1>5, <1>6, <1>7 DEF Reading

\* A frame is in hand and was not read to its end.
LEMMA FrameGoesOn ==
    ASSUME IInv, Reading, failed = 0, ~Concluded, NEW i \in 1..MaxFrames, i = Done + 1,
           wire' = wire, frame' = i, failed' = 0, state' # "GET_INFO",
           loop' \/ state' = "INFLATING", emitted' = emitted,
           HeaderRead(i)', LengthRead(i)'
    PROVE  Reading'
<1>1. Done' = Done /\ Done \in 0..MaxFrames
  BY ArrivedFar DEF Done
<1>2. ReadSoFar
  BY DEF Reading
<1>3. ~Concluded'
  BY DEF Concluded
<1>4. ReadSoFar'
  <2>0. PICK d : d = Done
    OBVIOUS
  <2>1. \A j \in 1..d : SoundFrame(j)' /\ ~(wire'[j].opcode = 8)
    BY <1>2, <2>0, SameReading DEF ReadSoFar
  <2>2. Within(d + 1)' => wire'[Opening(d)'].opcode \in {1, 2}
    <3>1. Within(d + 1) => wire[Opening(d)].opcode \in {1, 2}
      BY <1>2, <2>0 DEF ReadSoFar
    <3>2. QED
      BY <3>1, SameMessages
  <2>3. emitted' = ToldTo(d)'
    BY <1>2, <2>0, SameReading DEF ReadSoFar
  <2>4. Done' = d
    BY <1>1, <2>0
  <2>5. QED
    BY <1>3, <2>1, <2>2, <2>3, <2>4 DEF ReadSoFar
<1>5. Stopped'
  BY DEF Stopped, Inflating
<1>6. QED
  BY <1>4, <1>5 DEF Reading

\* The error is given to the callback.
LEMMA FrameFails ==
    ASSUME IInv, Reading, failed = 0, ~Concluded, NEW i \in 1..MaxFrames, i = Done + 1,
           wire' = wire, unsent' = unsent, emitted' = emitted,
           NEW code \in Errors, Fail(code), Wrong(i, code)
    PROVE  Reading'
<1>1. failed' = code /\ failed' # 0 /\ queue' = <<>>
  BY DEF Fail, Errors
<1>2. /\ ReadSoFar /\ Done \in 0..MaxFrames /\ Done = i - 1
      /\ Arrived \in Int /\ Bytes(MaxFrames) \in Nat /\ unsent \in Nat
      /\ queue \in Seq(1..MaxChunk)
  <2>1. ReadSoFar /\ Done \in 0..MaxFrames /\ Arrived \in Int
    BY ArrivedFar DEF Reading
  <2>2. MaxFrames \in Nat
    BY BoundsAssumption
  <2>3. Bytes(MaxFrames) \in Nat /\ unsent \in Nat /\ queue \in Seq(1..MaxChunk)
    BY <2>2, BytesUpTo, TypesApart DEF IInv, WritableTypes
  <2>4. Done = i - 1
    BY <2>1
  <2>5. QED
    BY <2>1, <2>3, <2>4
<1>3. \A j \in 1..(i - 1) : SoundFrame(j) /\ wire[j].opcode # 8
  BY <1>2 DEF ReadSoFar
<1>4. Arrived' >= Arrived /\ Arrived' \in Int
  <2> DEFINE waiting == SumOfFirst(queue, Len(queue))
  <2>1. waiting \in Nat
    BY <1>2, SumIsNumber
  <2>2. waiting' = 0
    BY <1>1, SumOfNone
  <2>3. Arrived = Bytes(MaxFrames) - unsent - waiting
    BY DEF Arrived
  <2>4. Arrived' = Bytes(MaxFrames) - unsent - waiting'
    BY SameBytes DEF Arrived
  <2> HIDE DEF waiting
  <2>5. QED
    BY <1>2, <2>1, <2>2, <2>3, <2>4
<1>5. Wrong(i, failed)'
  <2> DEFINE a == Bytes(i - 1)
             b == Bytes(i)
             x == ExtendedLength(wire[i])
  <2>1. a \in Nat /\ b \in Nat /\ x \in Nat /\ a' = a /\ b' = b /\ x' = x
    BY FrameSize, SameBytes DEF IInv
  <2>2. \/ code = 1002 /\ HeaderWrong(i) /\ Arrived >= a + 2
        \/ code = 1009 /\ ~HeaderWrong(i) /\ LengthWrong(i) /\ Arrived >= a + 2 + x
        \/ code = PayloadError(i) /\ ~HeaderWrong(i) /\ ~LengthWrong(i) /\ Arrived >= b
    BY DEF Wrong
  <2>3. Wrong(i, failed)' <=>
        \/ failed' = 1002 /\ HeaderWrong(i)' /\ Arrived' >= a' + 2
        \/ failed' = 1009 /\ ~HeaderWrong(i)' /\ LengthWrong(i)' /\ Arrived' >= a' + 2 + x'
        \/ failed' = PayloadError(i)' /\ ~HeaderWrong(i)' /\ ~LengthWrong(i)' /\ Arrived' >= b'
    BY DEF Wrong
  <2> HIDE DEF a, b, x
  <2>4. /\ Arrived >= a + 2 => Arrived' >= a' + 2
        /\ Arrived >= a + 2 + x => Arrived' >= a' + 2 + x'
        /\ Arrived >= b => Arrived' >= b'
    BY <1>2, <1>4, <2>1
  <2>5. QED
    BY <1>1, <2>2, <2>3, <2>4, SameReading
<1>6. \A j \in 1..(i - 1) : SoundFrame(j)' /\ wire'[j].opcode # 8
  BY <1>3, SameReading
<1>7. emitted' = ToldTo(i - 1)'
  BY <1>2, SameReading DEF ReadSoFar
<1>8. FailedAt(i)'
  BY <1>5, <1>6, <1>7 DEF FailedAt
<1>9. QED
  BY <1>1, <1>8 DEF Reading

\* The parser does nothing; the chunks move, and the loop may start.
LEMMA NothingRead ==
    ASSUME IInv, Reading, failed' = failed, UNCHANGED Parser,
           Arrived' \in Int, Arrived \in Int, Arrived' >= Arrived,
           \/ loop' \/ Concluded \/ Stopped'
           \/ loop' = loop /\ bufferedBytes' = bufferedBytes,
           failed = 0
    PROVE  Reading'
<1>1. /\ wire' = wire /\ frame' = frame /\ state' = state
      /\ payloadLength' = payloadLength /\ emitted' = emitted
      /\ opcode' = opcode /\ fin' = fin /\ masked' = masked
      /\ compressed' = compressed /\ fragmented' = fragmented
      /\ totalPayloadLength' = totalPayloadLength /\ messageLength' = messageLength
      /\ fragments' = fragments
  BY DEF Parser, headerVars, messageVars
<1>2. (Concluded' <=> Concluded) /\ Done' = Done /\ (Inflating' <=> Inflating)
  BY <1>1 DEF Concluded, Done, Inflating
<1>3. ReadSoFar'
  <2>0. PICK d : d = Done
    OBVIOUS
  <2>1. \A j \in 1..d : SoundFrame(j)' /\ (wire'[j].opcode = 8 => j = d /\ Concluded)
    <3>1. \A j \in 1..d : SoundFrame(j) /\ (wire[j].opcode = 8 => j = d /\ Concluded)
      BY <2>0 DEF Reading, ReadSoFar
    <3>2. QED
      BY <1>1, <3>1, SameReading
  <2>2. Within(d + 1)' => wire'[Opening(d)'].opcode \in {1, 2}
    <3>1. Within(d + 1) => wire[Opening(d)].opcode \in {1, 2}
      BY <2>0 DEF Reading, ReadSoFar
    <3>2. QED
      BY <1>1, <3>1, SameMessages
  <2>3. Concluded => d > 0 /\ wire'[d].opcode = 8 /\ Arrived' >= Bytes(d)'
    <3>1. SUFFICES ASSUME Concluded
                   PROVE  d > 0 /\ wire'[d].opcode = 8 /\ Arrived' >= Bytes(d)'
      OBVIOUS
    <3>2. d > 0 /\ wire[d].opcode = 8 /\ Arrived >= Bytes(d)
      BY <2>0, <3>1 DEF Reading, ReadSoFar
    <3>3. Bytes(d)' = Bytes(d)
      BY <1>1, SameBytes
    <3>4. Bytes(d) \in Nat
      <4>1. d \in 0..MaxFrames
        BY <2>0, <3>1, TypesApart DEF Done, Concluded, IInv, HeaderTypes
      <4>2. QED
        BY <4>1, BytesUpTo DEF IInv
    <3>5. Arrived' >= Bytes(d)
      BY <3>2, <3>4
    <3>6. QED
      BY <1>1, <3>2, <3>3, <3>5
  <2>4. emitted' = ToldTo(d)'
    <3>1. emitted = ToldTo(d)
      BY <2>0 DEF Reading, ReadSoFar
    <3>2. QED
      BY <1>1, <3>1, SameReading
  <2>5. Done' = d
    BY <1>2, <2>0
  <2>6. QED
    BY <1>2, <2>1, <2>2, <2>3, <2>4, <2>5 DEF ReadSoFar
<1>4. Stopped'
  <2>1. Needed' = Needed
    BY <1>1 DEF Needed
  <2>2. QED
    BY <1>2, <2>1 DEF Stopped, Reading
<1>5. state = "GET_INFO" => AfterFrame(frame)'
  BY <1>1, SameReading, SameMessages DEF Reading, AfterFrame
<1>6. state # "GET_INFO" => HeaderRead(frame)' /\ LengthRead(frame)'
  <2>1. SUFFICES ASSUME state # "GET_INFO" PROVE HeaderRead(frame)' /\ LengthRead(frame)'
    OBVIOUS
  <2>2. HeaderRead(frame) /\ LengthRead(frame)
    BY <2>1 DEF Reading
  <2>3. HeaderRead(frame)'
    BY <1>1, <2>2, SameReading, SameMessages DEF HeaderRead
  <2>4. LengthRead(frame)'
    BY <1>1, <2>2, SameReading, SameMessages DEF LengthRead
  <2>5. QED
    BY <2>3, <2>4
<1>7. QED
  BY <1>1, <1>3, <1>4, <1>5, <1>6 DEF Reading

-----------------------------------------------------------------------------
(***************************************************************************)
(* What each step reads                                                    *)
(***************************************************************************)

\* Bytes only arrive.
LEMMA MoreArrives ==
    ASSUME TypeOK, wire' = wire, queue' \in Seq(1..MaxChunk), unsent' \in Nat,
           SumOfFirst(queue', Len(queue')) + unsent'
               <= SumOfFirst(queue, Len(queue)) + unsent
    PROVE  Arrived \in Int /\ Arrived' \in Int /\ Arrived' >= Arrived
<1> DEFINE w == SumOfFirst(queue, Len(queue))
           v == SumOfFirst(queue', Len(queue'))
           total == Bytes(MaxFrames)
<1>1. queue \in Seq(1..MaxChunk) /\ unsent \in Nat /\ total \in Nat
  <2>1. MaxFrames \in Nat
    BY BoundsAssumption
  <2>2. QED
    BY <2>1, BytesUpTo, TypesApart DEF WritableTypes
<1>2. w \in Nat /\ v \in Nat
  BY <1>1, SumIsNumber
<1>3. total' = total
  BY SameBytes
<1>4. Arrived = total - unsent - w /\ Arrived' = total - unsent' - v
  BY <1>3 DEF Arrived
<1> DEFINE u == unsent'
           a == Arrived'
<1>5. v + u <= w + unsent /\ u \in Nat /\ a = total - u - v
  BY <1>4
<1> HIDE DEF w, v, total, u, a
<1>6. Arrived \in Int /\ a \in Int /\ a >= Arrived
  BY <1>1, <1>2, <1>4, <1>5
<1>7. QED
  BY <1>6 DEF a

LEMMA WriteReads ==
    ASSUME IInv, Reading, NEW n \in 1..MaxChunk, Write(n)
    PROVE  Reading'
<1>0. MaxChunk \in Nat
  BY BoundsAssumption
<1>1. /\ queue \in Seq(1..MaxChunk) /\ unsent \in Nat /\ n \in Nat /\ ~loop /\ failed = 0
      /\ unsent' = unsent - n /\ n <= unsent /\ unsent' \in Nat
  BY <1>0, TypesApart DEF IInv, WritableTypes, Write
<1>2. queue \in Seq(Nat) /\ SumOfFirst(queue, Len(queue)) \in Nat
  BY <1>1, ChunksAreNumbers, SumIsNumber
<1>3. CASE Inflating
  <2>1. /\ queue' = Append(queue, n)
        /\ UNCHANGED <<failed, bufferedBytes, loop>> /\ UNCHANGED Parser
    BY <1>3 DEF Write
  <2>2. queue' \in Seq(1..MaxChunk) /\ wire' = wire
    BY <1>1, <2>1, AppendProperties DEF Parser
  <2>3. SumOfFirst(queue', Len(queue')) = SumOfFirst(queue, Len(queue)) + n
    BY <1>1, <1>2, <2>1, SumOfAppend
  <2> DEFINE w == SumOfFirst(queue, Len(queue))
             v == SumOfFirst(queue', Len(queue'))
  <2>4. v = w + n /\ w \in Nat
    BY <1>2, <2>3
  <2> HIDE DEF w, v
  <2>5. v + unsent' <= w + unsent
    BY <1>1, <2>4
  <2>6. Arrived \in Int /\ Arrived' \in Int /\ Arrived' >= Arrived
    BY <1>1, <2>2, <2>5, MoreArrives DEF IInv, w, v
  <2>7. QED
    BY <1>1, <2>1, <2>6, NothingRead
<1>4. CASE ~Inflating
  <2>1. queue' = queue /\ _write(n)
    BY <1>4 DEF Write
  <2>2. failed' = failed /\ UNCHANGED Parser /\ (loop' \/ Concluded)
    BY <2>1 DEF _write, Concluded
  <2>3. wire' = wire
    BY <2>2 DEF Parser
  <2> DEFINE w == SumOfFirst(queue, Len(queue))
             v == SumOfFirst(queue', Len(queue'))
  <2>4. v = w /\ w \in Nat
    BY <1>2, <2>1
  <2> HIDE DEF w, v
  <2>5. v + unsent' <= w + unsent
    BY <1>1, <2>4
  <2>6. Arrived \in Int /\ Arrived' \in Int /\ Arrived' >= Arrived
    BY <1>1, <2>1, <2>3, <2>5, MoreArrives DEF IInv, w, v
  <2>7. QED
    BY <1>1, <2>2, <2>6, NothingRead
<1>5. QED
  BY <1>3, <1>4

LEMMA NextChunkReads ==
    ASSUME IInv, Reading, NextChunk
    PROVE  Reading'
<1>1. /\ queue \in Seq(1..MaxChunk) /\ unsent \in Nat /\ queue # <<>> /\ failed = 0
      /\ unsent' = unsent /\ queue' = Tail(queue) /\ _write(Head(queue))
  BY TypesApart DEF IInv, WritableTypes, NextChunk
<1>2. queue \in Seq(Nat) /\ SumOfFirst(queue, Len(queue)) \in Nat
  BY <1>1, ChunksAreNumbers, SumIsNumber
<1>3. queue' \in Seq(1..MaxChunk)
  BY <1>1, HeadTailProperties
<1>4. failed' = failed /\ UNCHANGED Parser /\ (loop' \/ Concluded)
  BY <1>1 DEF _write, Concluded
<1>5. wire' = wire
  BY <1>4 DEF Parser
<1> DEFINE w == SumOfFirst(queue, Len(queue))
           v == SumOfFirst(queue', Len(queue'))
           n == Head(queue)
<1>6. v = w - n /\ n \in Nat /\ w \in Nat
  BY <1>1, <1>2, SumOfTail
<1> HIDE DEF w, v, n
<1>7. v + unsent' <= w + unsent
  BY <1>1, <1>6
<1>8. Arrived \in Int /\ Arrived' \in Int /\ Arrived' >= Arrived
  BY <1>1, <1>3, <1>5, <1>7, MoreArrives DEF IInv, w, v
<1>9. QED
  BY <1>1, <1>4, <1>8, NothingRead

\* end(), the loop out of bytes, and what changes nothing.
LEMMA StopReads ==
    ASSUME IInv, Reading, End \/ NotEnough \/ UNCHANGED vars
    PROVE  Reading'
<1>1. CASE UNCHANGED vars
  <2>1. /\ wire' = wire /\ frame' = frame /\ state' = state /\ failed' = failed
        /\ payloadLength' = payloadLength /\ emitted' = emitted
        /\ opcode' = opcode /\ loop' = loop /\ bufferedBytes' = bufferedBytes
        /\ unsent' = unsent /\ queue' = queue /\ UNCHANGED Parser
    BY <1>1 DEF vars, writableVars, headerVars, messageVars, Parser
  <2>2. Arrived' = Arrived /\ Arrived \in Int
    BY <2>1, SameBytes, ArrivedBytes DEF Arrived
  <2>3. CASE failed = 0
    BY <2>1, <2>2, <2>3, NothingRead
  <2>4. CASE failed # 0
    <3>1. PICK i \in 1..MaxFrames : FailedAt(i)
      BY <2>4 DEF Reading
    <3>2. Wrong(i, failed)'
      <4>1. Bytes(i)' = Bytes(i) /\ Bytes(i - 1)' = Bytes(i - 1)
            /\ ExtendedLength(wire[i])' = ExtendedLength(wire[i])
        BY <2>1, SameBytes
      <4>2. QED
        BY <2>1, <2>2, <3>1, <4>1, SameReading DEF FailedAt, Wrong
    <3>3. FailedAt(i)'
      <4>1. \A j \in 1..(i - 1) : SoundFrame(j)' /\ wire'[j].opcode # 8
        BY <2>1, <3>1, SameReading DEF FailedAt
      <4>2. emitted' = ToldTo(i - 1)'
        BY <2>1, <3>1, SameReading DEF FailedAt
      <4>3. QED
        BY <3>2, <4>1, <4>2 DEF FailedAt
    <3>4. QED
      BY <2>1, <2>4, <3>3 DEF Reading
  <2>5. QED
    BY <2>3, <2>4
<1>2. CASE End
  <2>1. /\ failed' = failed /\ failed = 0 /\ UNCHANGED Parser /\ loop' = loop
        /\ bufferedBytes' = bufferedBytes /\ unsent' = unsent /\ queue' = queue
    BY <1>2 DEF End
  <2>2. wire' = wire
    BY <2>1 DEF Parser
  <2>3. Arrived' = Arrived /\ Arrived \in Int
    BY <2>1, <2>2, SameBytes, ArrivedBytes DEF Arrived
  <2>4. QED
    BY <2>1, <2>3, NothingRead
<1>3. CASE NotEnough
  <2>1. /\ loop /\ failed' = failed /\ UNCHANGED Parser /\ loop' = FALSE
        /\ bufferedBytes' = bufferedBytes /\ bufferedBytes < Needed
        /\ unsent' = unsent /\ queue' = queue
    BY <1>3 DEF NotEnough, Callback, Outside
  <2>2. /\ wire' = wire /\ frame' = frame /\ state' = state
        /\ payloadLength' = payloadLength /\ emitted' = emitted
        /\ opcode' = opcode /\ fin' = fin /\ masked' = masked
        /\ compressed' = compressed /\ fragmented' = fragmented
        /\ totalPayloadLength' = totalPayloadLength /\ messageLength' = messageLength
        /\ fragments' = fragments
    BY <2>1 DEF Parser, headerVars, messageVars
  <2>3. failed = 0 /\ ~Concluded /\ state # "INFLATING"
    BY <2>1 DEF IInv, Running
  <2>4. Stopped'
    BY <2>1, <2>2 DEF Stopped, Needed
  <2>5. Arrived' = Arrived /\ Arrived \in Int
    BY <2>1, <2>2, SameBytes, ArrivedBytes DEF Arrived
  <2>6. QED
    BY <2>1, <2>3, <2>4, <2>5, NothingRead
<1>4. QED
  BY <1>1, <1>2, <1>3

\* getInfo() refuses the headers that are wrong, and keeps of the others what the stream
\* says of their frames.
LEMMA GetInfoReads ==
    ASSUME IInv, Reading, GetInfo
    PROVE  Reading'
<1>1. /\ loop /\ state = "GET_INFO" /\ bufferedBytes >= 2 /\ frame' = frame + 1
      /\ UNCHANGED <<wire, unsent, messageLength, fragments, emitted>>
  BY DEF GetInfo, Consume, Outside
<1>2. /\ failed = 0 /\ ~Concluded /\ ReadSoFar /\ AfterFrame(frame)
      /\ Done = frame
  BY <1>1, AtWork DEF Done
<1>3. PICK i \in 1..MaxFrames : i = frame + 1
  BY <1>1, AnotherFrame
<1>4. /\ Consumed = Bytes(i - 1) /\ frame = i - 1 /\ i = Done + 1 /\ i - 1 + 1 = i
      /\ Bytes(i - 1) \in Nat /\ TypeOK
  <2>1. Consumed = Bytes(frame) /\ frame \in 0..MaxFrames
    BY <1>1, AnotherFrame
  <2>2. frame = i - 1
    BY <1>3, <2>1
  <2>3. Bytes(i - 1) \in Nat /\ TypeOK
    BY FrameSize DEF IInv
  <2>4. QED
    BY <1>2, <1>3, <2>1, <2>2, <2>3
<1>5. Within(i) => wire[Opening(i - 1)].opcode \in {1, 2}
  BY <1>2, <1>4 DEF ReadSoFar
<1>6. /\ fragmented = OpcodeAt(i - 1) /\ totalPayloadLength = TotalAt(i - 1)
      /\ messageLength = LengthAt(i - 1) /\ fragments = PartsAt(i - 1)
      /\ Within(i) => compressed = Deflated(i - 1)
  BY <1>2, <1>4 DEF AfterFrame
<1>7. Arrived >= Bytes(i - 1) + 2
  <2>1. Arrived = Consumed + bufferedBytes /\ bufferedBytes \in Nat
    BY <1>2, ArrivedBytes, TypesApart DEF IInv, WritableTypes
  <2>2. QED
    BY <1>1, <1>4, <2>1
<1> DEFINE f == wire[i]
<1>8. WrongInfo(f) <=> HeaderWrong(i)
  BY <1>4, <1>5, <1>6, HeaderRefused
<1>9. /\ f.fin \in BOOLEAN /\ f.masked \in BOOLEAN /\ f.form \in {7, 16, 64}
  BY <1>4, WireFrame
<1>10. CASE WrongInfo(f)
  <2>1. Fail(1002)
    BY <1>3, <1>10 DEF GetInfo
  <2>2. 1002 \in Errors /\ Wrong(i, 1002)
    BY <1>7, <1>8, <1>10 DEF Errors, Wrong
  <2>3. QED
    BY <1>1, <1>2, <1>4, <2>1, <2>2, FrameFails
<1>11. CASE ~WrongInfo(f)
  <2>1. /\ fin' = f.fin
        /\ opcode' = IF f.opcode = 0 THEN fragmented ELSE f.opcode
        /\ compressed' = IF f.opcode \in {1, 2} THEN f.rsv1 ELSE compressed
        /\ fragmented' = IF ~f.fin /\ fragmented = 0 THEN opcode' ELSE fragmented
        /\ CASE f.form = 16 ->
                  GoOn("GET_PAYLOAD_LENGTH_16") /\ UNCHANGED totalPayloadLength
             [] f.form = 64 ->
                  GoOn("GET_PAYLOAD_LENGTH_64") /\ UNCHANGED totalPayloadLength
             [] OTHER -> HaveLength(opcode', f.masked, f.length)
    BY <1>3, <1>11 DEF GetInfo
  <2>2. ~HeaderWrong(i)
    BY <1>8, <1>11
  <2>3. ASSUME IsData(i)
        PROVE  /\ opcode' = wire[Opening(i)].opcode /\ opcode' \in {1, 2}
               /\ compressed' = Deflated(i)
               /\ ~f.fin => fragmented' = opcode'
    <3>1. /\ wire[Opening(i)].opcode \in {1, 2}
          /\ f.opcode = 0 => /\ Within(i) /\ Opening(i) = Opening(i - 1)
                             /\ Deflated(i) = Deflated(i - 1)
          /\ f.opcode # 0 => /\ ~Within(i) /\ f.opcode \in {1, 2}
                             /\ Opening(i) = i /\ Deflated(i) = f.rsv1
      BY <1>4, <1>5, <2>2, <2>3, DataFrame
    <3>2. CASE f.opcode = 0
      <4>1. fragmented = wire[Opening(i)].opcode
        BY <1>4, <1>6, <3>1, <3>2 DEF OpcodeAt
      <4>2. QED
        BY <1>6, <2>1, <3>1, <3>2, <4>1
    <3>3. CASE f.opcode # 0
      <4>1. fragmented = 0
        BY <1>4, <1>6, <3>1, <3>3 DEF OpcodeAt
      <4>2. QED
        BY <2>1, <3>1, <3>3, <4>1
    <3>4. QED
      BY <3>2, <3>3
  <2>4. ASSUME ~IsData(i)
        PROVE  /\ opcode' = f.opcode /\ f.opcode \in Control /\ f.form = 7
               /\ fragmented' = OpcodeAt(i)
               /\ Within(i + 1) => compressed' = Deflated(i)
    <3>1. /\ f.opcode \in Control /\ f.fin /\ f.form = 7
          /\ Within(i + 1) <=> Within(i)
          /\ OpcodeAt(i) = OpcodeAt(i - 1)
          /\ Within(i) => Deflated(i) = Deflated(i - 1)
      BY <1>4, <1>5, <2>2, <2>4, ControlFrame
    <3>2. f.opcode # 0 /\ f.opcode \notin {1, 2}
      BY <3>1 DEF Control
    <3>3. QED
      BY <1>6, <2>1, <3>1, <3>2
  <2>5. HeaderRead(i)'
    <3>1. ~HeaderWrong(i)' /\ fin' = wire'[i].fin
      BY <1>1, <2>1, <2>2, SameReading
    <3>2. messageLength' = LengthAt(i - 1)' /\ fragments' = PartsAt(i - 1)'
      BY <1>1, <1>6, SameReading
    <3>3. IsData(i)' => /\ opcode' = wire'[Opening(i)'].opcode
                        /\ compressed' = Deflated(i)'
                        /\ ~fin' => fragmented' = opcode'
      BY <1>1, <2>1, <2>3, SameMessages
    <3>4. ~IsData(i)' => /\ opcode' = wire'[i].opcode
                         /\ fragmented' = OpcodeAt(i)'
                         /\ Within(i + 1)' => compressed' = Deflated(i)'
      BY <1>1, <2>4, SameMessages, SameReading
    <3>5. QED
      BY <3>1, <3>2, <3>3, <3>4 DEF HeaderRead
  <2>6. CASE f.form # 7
    <3>1. /\ failed' = 0 /\ loop' /\ totalPayloadLength' = totalPayloadLength
          /\ state' \in {"GET_PAYLOAD_LENGTH_16", "GET_PAYLOAD_LENGTH_64"}
      BY <1>2, <1>9, <2>1, <2>6 DEF GoOn
    <3>2. LengthRead(i)'
      <4>1. TotalAt(i - 1)' = TotalAt(i - 1)
        BY <1>1, SameReading
      <4>2. QED
        BY <1>6, <3>1, <4>1 DEF LengthRead
    <3>3. QED
      BY <1>1, <1>2, <1>3, <1>4, <2>5, <3>1, <3>2, FrameGoesOn
  <2>7. CASE f.form = 7
    <3>1. HaveLength(opcode', f.masked, f.length)
      BY <2>1, <2>7
    <3>2. opcode' \in Control <=> ~IsData(i)
      BY <2>3, <2>4 DEF Control
    <3>3. ExtendedLength(f) = 0
      BY <2>7 DEF ExtendedLength
    <3>4. \/ Fail(1009) /\ LengthWrong(i)
          \/ /\ ~LengthWrong(i)
             /\ failed' = failed /\ loop' = TRUE /\ queue' = queue
             /\ state' \in {"GET_MASK", "GET_DATA"}
             /\ totalPayloadLength' = IF IsData(i) THEN SumOfFirst(Lengths(i), i)
                                      ELSE TotalAt(i)
      <4> DEFINE op == opcode'
                 mask == f.masked
      <4>1. HaveLength(op, mask, wire[i].length) /\ (op \in Control <=> ~IsData(i))
        BY <3>1, <3>2
      <4>2. wire[i].form = 64 => ~(wire[i].length >= Unsafe)
        BY <2>7
      <4> HIDE DEF op, mask
      <4>3. QED
        BY <1>4, <1>5, <1>6, <2>2, <4>1, <4>2, HaveLengthReads, ZenonT(60)
    <3>5. CASE Fail(1009) /\ LengthWrong(i)
      <4>1. 1009 \in Errors /\ Arrived >= Bytes(i - 1) + 2 + ExtendedLength(wire[i])
        BY <1>4, <1>7, <3>3 DEF Errors
      <4>2. Wrong(i, 1009)
        BY <2>2, <3>5, <4>1 DEF Wrong
      <4>3. QED
        BY <1>1, <1>2, <1>4, <3>5, <4>1, <4>2, FrameFails
    <3>6. CASE /\ ~LengthWrong(i)
               /\ failed' = failed /\ loop' = TRUE /\ queue' = queue
               /\ state' \in {"GET_MASK", "GET_DATA"}
               /\ totalPayloadLength' = IF IsData(i) THEN SumOfFirst(Lengths(i), i)
                                        ELSE TotalAt(i)
      <4>1. LengthRead(i)'
        <5>1. ~LengthWrong(i)' /\ TotalAt(i)' = TotalAt(i) /\ Lengths(i)' = Lengths(i)
              /\ (IsData(i)' <=> IsData(i))
          BY <1>1, <3>6, SameReading, SameMessages
        <5>2. QED
          BY <3>6, <5>1 DEF LengthRead
      <4>2. QED
        BY <1>1, <1>2, <1>3, <1>4, <2>5, <3>6, <4>1, FrameGoesOn
    <3>7. QED
      BY <3>4, <3>5, <3>6, ZenonT(60)
  <2>8. QED
    BY <2>6, <2>7
<1>12. QED
  BY <1>10, <1>11

LEMMA SameHeader ==
    ASSUME NEW i, HeaderRead(i), wire' = wire,
           UNCHANGED <<opcode, fin, compressed, fragmented, messageLength, fragments>>
    PROVE  HeaderRead(i)'
  BY SameReading, SameMessages DEF HeaderRead

\* The frame in hand, of which the header was read.
LEMMA FrameInHand ==
    ASSUME IInv, Reading, loop \/ Inflating, state # "GET_INFO"
    PROVE  /\ frame \in 1..MaxFrames /\ Done = frame - 1 /\ frame = Done + 1
           /\ TypeOK /\ failed = 0 /\ ~Concluded /\ ReadSoFar
           /\ HeaderRead(frame) /\ LengthRead(frame) /\ ~HeaderWrong(frame)
           /\ payloadLength = wire[frame].length /\ fin = wire[frame].fin
           /\ Within(frame) => wire[Opening(frame - 1)].opcode \in {1, 2}
           /\ opcode \in Control <=> ~IsData(frame)
           /\ IsData(frame) => opcode \in {1, 2}
<1>1. /\ frame \in 1..MaxFrames /\ Done = frame - 1
      /\ TypeOK /\ failed = 0 /\ ~Concluded /\ ReadSoFar
      /\ HeaderRead(frame) /\ LengthRead(frame)
  BY AtWork DEF IInv
<1>2. ~HeaderWrong(frame) /\ fin = wire[frame].fin
  BY <1>1 DEF HeaderRead
<1>3. payloadLength = wire[frame].length
  BY <1>1 DEF IInv, InHand
<1>4. frame = Done + 1 /\ frame - 1 + 1 = frame
  BY <1>1
<1>5. Within(frame) => wire[Opening(frame - 1)].opcode \in {1, 2}
  BY <1>1, <1>4 DEF ReadSoFar
<1>6. CASE IsData(frame)
  <2>1. opcode \in {1, 2}
    BY <1>1, <1>2, <1>5, <1>6, DataFrame DEF HeaderRead
  <2>2. QED
    BY <1>1, <1>2, <1>3, <1>4, <1>5, <1>6, <2>1 DEF Control
<1>7. CASE ~IsData(frame)
  <2>1. opcode \in Control
    BY <1>1, <1>2, <1>5, <1>7, ControlFrame DEF HeaderRead
  <2>2. QED
    BY <1>1, <1>2, <1>3, <1>4, <1>5, <1>7, <2>1
<1>8. QED
  BY <1>6, <1>7

\* getPayloadLength16() and getPayloadLength64() refuse the lengths that are wrong.
LEMMA GetPayloadLengthReads ==
    ASSUME IInv, Reading, NEW s, NEW n, GetPayloadLength(s, n),
           \/ s = "GET_PAYLOAD_LENGTH_16" /\ n = 2
           \/ s = "GET_PAYLOAD_LENGTH_64" /\ n = 8
    PROVE  Reading'
<1>1. /\ loop /\ state = s /\ state # "GET_INFO" /\ bufferedBytes >= n
      /\ UNCHANGED <<wire, unsent, frame, messageLength, fragments, emitted>>
      /\ UNCHANGED <<opcode, fin, compressed, fragmented>>
  BY DEF GetPayloadLength, Consume, Outside, headerVars
<1>2. PICK i \in 1..MaxFrames : i = frame
  BY <1>1, FrameInHand
<1>3. /\ i = Done + 1 /\ TypeOK /\ failed = 0 /\ ~Concluded
      /\ HeaderRead(i) /\ LengthRead(i) /\ ~HeaderWrong(i)
      /\ payloadLength = wire[i].length
      /\ Within(i) => wire[Opening(i - 1)].opcode \in {1, 2}
      /\ opcode \in Control <=> ~IsData(i)
  BY <1>1, <1>2, FrameInHand
<1>4. totalPayloadLength = TotalAt(i - 1)
  BY <1>1, <1>3 DEF LengthRead
<1>5. Arrived >= Bytes(i - 1) + 2 + ExtendedLength(wire[i])
  <2>1. Arrived = Consumed + bufferedBytes /\ bufferedBytes \in Nat
    BY <1>3, ArrivedBytes, TypesApart DEF IInv, WritableTypes
  <2>2. Consumed = Bytes(i - 1) + 2 /\ Bytes(i - 1) \in Nat
    BY <1>1, <1>2, <1>3, ConsumedNow
  <2>3. ExtendedLength(wire[i]) = n
    BY <1>1, <1>2, <1>3 DEF IInv, InHand, ExtendedLength
  <2>4. n \in {2, 8}
    OBVIOUS
  <2>5. QED
    BY <1>1, <2>1, <2>2, <2>3, <2>4
<1>6. ASSUME Fail(1009), LengthWrong(i) PROVE Reading'
  <2>1. 1009 \in Errors /\ Wrong(i, 1009)
    BY <1>3, <1>5, <1>6 DEF Errors, Wrong
  <2>2. QED
    BY <1>1, <1>3, <1>6, <2>1, FrameFails
<1>7. CASE payloadLength >= Unsafe
  <2>1. Fail(1009)
    BY <1>7 DEF GetPayloadLength
  <2>2. wire[i].length >= Unsafe => wire[i].form = 64
    BY <1>3, WireFrame
  <2>3. LengthWrong(i)
    BY <1>3, <1>7, <2>2 DEF LengthWrong
  <2>4. QED
    BY <1>6, <2>1, <2>3
<1>8. CASE ~(payloadLength >= Unsafe)
  <2>1. HaveLength(opcode, masked, wire[i].length)
    BY <1>3, <1>8 DEF GetPayloadLength
  <2>2. \/ Fail(1009) /\ LengthWrong(i)
        \/ /\ ~LengthWrong(i)
           /\ failed' = failed /\ loop' = TRUE /\ queue' = queue
           /\ state' \in {"GET_MASK", "GET_DATA"}
           /\ totalPayloadLength' = IF IsData(i) THEN SumOfFirst(Lengths(i), i)
                                    ELSE TotalAt(i)
    <3> DEFINE op == opcode
               mask == masked
    <3>1. /\ HaveLength(op, mask, wire[i].length) /\ (op \in Control <=> ~IsData(i))
          /\ ~(wire[i].length >= Unsafe)
      BY <1>3, <1>8, <2>1
    <3> HIDE DEF op, mask
    <3>2. QED
      BY <1>3, <1>4, <3>1, HaveLengthReads, ZenonT(60)
  <2>3. CASE Fail(1009) /\ LengthWrong(i)
    BY <1>6, <2>3
  <2>4. CASE /\ ~LengthWrong(i)
             /\ failed' = failed /\ loop' = TRUE /\ queue' = queue
             /\ state' \in {"GET_MASK", "GET_DATA"}
             /\ totalPayloadLength' = IF IsData(i) THEN SumOfFirst(Lengths(i), i)
                                      ELSE TotalAt(i)
    <3>1. ~LengthWrong(i)' /\ TotalAt(i)' = TotalAt(i) /\ Lengths(i)' = Lengths(i)
          /\ (IsData(i)' <=> IsData(i))
      BY <1>1, <2>4, SameReading, SameMessages
    <3>2. LengthRead(i)'
      BY <2>4, <3>1 DEF LengthRead
    <3>3. HeaderRead(i)'
      BY <1>1, <1>3, SameHeader
    <3>4. QED
      BY <1>1, <1>2, <1>3, <2>4, <3>2, <3>3, FrameGoesOn
  <2>5. QED
    BY <2>2, <2>3, <2>4, ZenonT(60)
<1>9. QED
  BY <1>7, <1>8

LEMMA GetMaskReads ==
    ASSUME IInv, Reading, GetMask
    PROVE  Reading'
<1>1. /\ loop /\ state = "GET_MASK" /\ loop' = TRUE /\ state' = "GET_DATA"
      /\ failed' = failed
      /\ UNCHANGED <<wire, frame, messageLength, fragments, emitted, totalPayloadLength>>
      /\ UNCHANGED <<opcode, fin, compressed, fragmented>>
  BY DEF GetMask, GoOn, Outside, headerVars, messageVars
<1>2. PICK i \in 1..MaxFrames : i = frame
  BY <1>1, FrameInHand
<1>3. i = Done + 1 /\ failed = 0 /\ ~Concluded /\ HeaderRead(i) /\ LengthRead(i)
  BY <1>1, <1>2, FrameInHand
<1>4. HeaderRead(i)'
  BY <1>1, <1>3, SameHeader
<1>5. LengthRead(i)'
  <2>1. (LengthWrong(i)' <=> LengthWrong(i)) /\ TotalAt(i)' = TotalAt(i)
        /\ Lengths(i)' = Lengths(i) /\ (IsData(i)' <=> IsData(i))
    BY <1>1, SameReading, SameMessages
  <2>2. QED
    BY <1>1, <1>3, <2>1 DEF LengthRead
<1>6. QED
  BY <1>1, <1>2, <1>3, <1>4, <1>5, FrameGoesOn

\* The payload of the frame in hand has arrived.
LEMMA PayloadArrived ==
    ASSUME IInv, Reading, loop \/ Inflating,
           \/ state = "GET_DATA" /\ bufferedBytes >= payloadLength
           \/ state = "INFLATING"
    PROVE  Arrived >= Bytes(frame)
<1>1. /\ frame \in 1..MaxFrames /\ failed = 0 /\ ~Concluded
      /\ payloadLength = wire[frame].length /\ payloadLength \in Nat
  BY FrameInHand, TypesApart DEF IInv, HeaderTypes
<1>2. Arrived = Consumed + bufferedBytes /\ bufferedBytes \in Nat /\ Bytes(frame) \in Nat
  BY <1>1, ArrivedBytes, FrameSize, TypesApart DEF IInv, WritableTypes
<1>3. /\ state = "GET_DATA" => Consumed = Bytes(frame) - payloadLength
      /\ state = "INFLATING" => Consumed = Bytes(frame)
  BY <1>1, ConsumedNow
<1>4. QED
  BY <1>1, <1>2, <1>3

\* What is left when a control frame has been read.
LEMMA ControlRead ==
    ASSUME IInv, Reading, loop, state = "GET_DATA", opcode \in Control
    PROVE  /\ ~IsData(frame) /\ opcode = wire[frame].opcode /\ ~LengthWrong(frame)
           /\ ToldTo(frame) = Append(emitted, EventOf(frame))
           /\ messageLength = LengthAt(frame) /\ fragments = PartsAt(frame)
           /\ totalPayloadLength = TotalAt(frame) /\ fragmented = OpcodeAt(frame)
           /\ Within(frame + 1) => /\ compressed = Deflated(frame)
                                   /\ wire[Opening(frame)].opcode \in {1, 2}
<1>1. /\ frame \in 1..MaxFrames /\ Done = frame - 1 /\ TypeOK /\ ReadSoFar
      /\ HeaderRead(frame) /\ LengthRead(frame) /\ ~HeaderWrong(frame)
      /\ Within(frame) => wire[Opening(frame - 1)].opcode \in {1, 2}
      /\ ~IsData(frame)
  BY FrameInHand
<1>2. /\ Within(frame + 1) <=> Within(frame)
      /\ LengthAt(frame) = LengthAt(frame - 1) /\ PartsAt(frame) = PartsAt(frame - 1)
      /\ Within(frame) => wire[Opening(frame)].opcode \in {1, 2}
  BY <1>1, ControlFrame
<1>3. /\ opcode = wire[frame].opcode /\ fragmented = OpcodeAt(frame)
      /\ messageLength = LengthAt(frame - 1) /\ fragments = PartsAt(frame - 1)
      /\ Within(frame + 1) => compressed = Deflated(frame)
  BY <1>1 DEF HeaderRead
<1>4. ~LengthWrong(frame) /\ totalPayloadLength = TotalAt(frame)
  BY <1>1 DEF LengthRead
<1>5. ToldTo(frame) = Append(emitted, EventOf(frame))
  <2>1. Completes(frame) /\ emitted = ToldTo(frame - 1)
    BY <1>1 DEF Completes, ReadSoFar
  <2>2. QED
    BY <1>1, <2>1, ToldGrows
<1>6. QED
  BY <1>1, <1>2, <1>3, <1>4, <1>5

LEMMA PingPongReads ==
    ASSUME IInv, Reading, loop, state = "GET_DATA", opcode \in Control, opcode # 8, PingPong,
           UNCHANGED <<wire, frame, opcode, compressed, fragmented, messageVars>>
    PROVE  Reading'
<1>1. /\ frame \in 1..MaxFrames /\ failed = 0 /\ ~Concluded /\ ~HeaderWrong(frame)
      /\ payloadLength = wire[frame].length
  BY FrameInHand
<1>2. /\ ~IsData(frame) /\ opcode = wire[frame].opcode /\ ~LengthWrong(frame)
      /\ ToldTo(frame) = Append(emitted, EventOf(frame))
      /\ messageLength = LengthAt(frame) /\ fragments = PartsAt(frame)
      /\ totalPayloadLength = TotalAt(frame) /\ fragmented = OpcodeAt(frame)
      /\ Within(frame + 1) => /\ compressed = Deflated(frame)
                              /\ wire[Opening(frame)].opcode \in {1, 2}
  BY ControlRead
<1>3. SoundFrame(frame)
  <2>1. PayloadError(frame) = 0
    BY <1>2 DEF PayloadError
  <2>2. QED
    BY <1>1, <1>2, <2>1 DEF SoundFrame
<1>4. emitted' = ToldTo(frame)
  <2>1. EventOf(frame) = Event("control", <<frame>>, payloadLength, opcode)
    BY <1>1, <1>2 DEF EventOf
  <2>2. QED
    BY <1>2, <2>1 DEF PingPong
<1>5. /\ failed' = 0 /\ state' = "GET_INFO" /\ loop' /\ ~Concluded'
      /\ messageLength' = messageLength /\ fragments' = fragments
      /\ totalPayloadLength' = totalPayloadLength
  BY <1>1 DEF PingPong, GoOn, Concluded, messageVars
<1>6. QED
  BY <1>1, <1>2, <1>3, <1>4, <1>5, FrameDone

LEMMA ConcludeReads ==
    ASSUME IInv, Reading, loop, state = "GET_DATA", opcode = 8, Conclude,
           bufferedBytes >= payloadLength,
           UNCHANGED <<wire, unsent, frame, opcode, compressed, fragmented, messageVars>>
    PROVE  Reading'
<1>0. opcode \in Control /\ state # "GET_INFO"
  BY DEF Control
<1>1. /\ frame \in 1..MaxFrames /\ failed = 0 /\ ~Concluded /\ ~HeaderWrong(frame)
      /\ payloadLength = wire[frame].length /\ payloadLength \in Nat
      /\ frame = Done + 1 /\ TypeOK
  BY <1>0, FrameInHand, TypesApart DEF IInv, HeaderTypes
<1>2. /\ ~IsData(frame) /\ opcode = wire[frame].opcode /\ ~LengthWrong(frame)
      /\ ToldTo(frame) = Append(emitted, EventOf(frame))
      /\ messageLength = LengthAt(frame) /\ fragments = PartsAt(frame)
      /\ totalPayloadLength = TotalAt(frame) /\ fragmented = OpcodeAt(frame)
      /\ Within(frame + 1) => /\ compressed = Deflated(frame)
                              /\ wire[Opening(frame)].opcode \in {1, 2}
  BY <1>0, ControlRead
<1>3. Arrived >= Bytes(frame)
  BY PayloadArrived
<1> DEFINE code == wire[frame].code
           text == ValidText(<<frame>>)
           valid == IsValidStatusCode(code)
<1>4. valid \in BOOLEAN /\ text \in BOOLEAN
  BY DEF IsValidStatusCode, ValidText
<1>5. PayloadError(frame) =
          CASE payloadLength > 0 /\ ~(payloadLength > 1 /\ valid) -> 1002
            [] payloadLength > 1 /\ valid /\ ~text -> 1007
            [] OTHER -> 0
  BY <1>1, <1>2 DEF PayloadError
<1>6. ASSUME NEW error \in Errors, error = PayloadError(frame), Fail(error),
             UNCHANGED emitted
      PROVE  Reading'
  <2>1. Wrong(frame, error)
    BY <1>1, <1>2, <1>3, <1>6 DEF Wrong
  <2>2. PICK i \in 1..MaxFrames : i = frame
    BY <1>1
  <2>3. QED
    BY <1>1, <1>6, <2>1, <2>2, FrameFails
<1>7. CASE payloadLength > 0 /\ (payloadLength = 1 \/ ~valid)
  <2>1. Fail(1002) /\ UNCHANGED emitted
    BY <1>1, <1>7 DEF Conclude
  <2>2. ~(payloadLength > 1 /\ valid)
    BY <1>1, <1>7
  <2> HIDE DEF valid, text
  <2>3. PayloadError(frame) = 1002
    BY <1>5, <1>7, <2>2
  <2>4. QED
    BY <1>6, <2>1, <2>3 DEF Errors
<1>8. CASE ~(payloadLength > 0 /\ (payloadLength = 1 \/ ~valid)) /\ payloadLength > 0 /\ ~text
  <2>1. Fail(1007) /\ UNCHANGED emitted
    BY <1>1, <1>8 DEF Conclude
  <2>2. payloadLength > 1 /\ valid
    BY <1>1, <1>8
  <2> HIDE DEF valid, text
  <2>3. PayloadError(frame) = 1007
    BY <1>5, <1>8, <2>2
  <2>4. QED
    BY <1>6, <2>1, <2>3 DEF Errors
<1>9. CASE /\ ~(payloadLength > 0 /\ (payloadLength = 1 \/ ~valid))
           /\ ~(payloadLength > 0 /\ ~text)
  <2>1. /\ Callback /\ state' = "GET_INFO"
        /\ emitted' = Append(emitted, Event("conclude", <<>>, 0,
                                IF payloadLength = 0 THEN 1005 ELSE code))
    BY <1>1, <1>9 DEF Conclude
  <2>2. /\ ~(payloadLength > 0 /\ ~(payloadLength > 1 /\ valid))
        /\ ~(payloadLength > 1 /\ valid /\ ~text)
    BY <1>1, <1>9
  <2>3. PayloadError(frame) = 0
    <3> HIDE DEF valid, text
    <3>1. QED
      BY <1>5, <2>2
  <2>4. SoundFrame(frame)
    BY <1>1, <1>2, <2>3 DEF SoundFrame
  <2>5. emitted' = ToldTo(frame)
    <3>1. EventOf(frame) = Event("conclude", <<>>, 0,
                                 IF payloadLength = 0 THEN 1005 ELSE code)
      BY <1>1, <1>2 DEF EventOf
    <3>2. QED
      BY <1>2, <2>1, <3>1
  <2>6. /\ failed' = 0 /\ queue' = queue /\ Concluded'
        /\ messageLength' = messageLength /\ fragments' = fragments
        /\ totalPayloadLength' = totalPayloadLength
    BY <1>1, <2>1 DEF Callback, Concluded, messageVars
  <2>7. Arrived' >= Bytes(frame)
    <3>1. Arrived' = Arrived
      BY <2>6, SameBytes DEF Arrived
    <3>2. QED
      BY <1>3, <3>1
  <2>8. QED
    BY <1>1, <1>2, <2>1, <2>4, <2>5, <2>6, <2>7, FrameDone
<1>10. QED
  BY <1>7, <1>8, <1>9

\* dataMessage() tells of the message the stream has, or finds its text wrong.
LEMMA DataMessageReads ==
    ASSUME IInv, Reading, loop \/ Inflating, state \in {"GET_DATA", "INFLATING"},
           IsData(frame), Arrived >= Bytes(frame),
           UNCHANGED <<wire, unsent, frame, opcode, fin, compressed>>,
           NEW length, NEW parts, DataMessage(length, parts),
           length = SumOfFirst(Content(frame), frame), parts = PartsSeq(frame),
           PayloadError(frame) = IF fin /\ opcode = 1 /\ ~ValidText(parts) THEN 1007 ELSE 0
    PROVE  Reading'
<1>1. /\ frame \in 1..MaxFrames /\ failed = 0 /\ ~Concluded /\ ~HeaderWrong(frame)
      /\ frame = Done + 1 /\ Done = frame - 1 /\ TypeOK /\ ReadSoFar
      /\ HeaderRead(frame) /\ LengthRead(frame)
      /\ Within(frame) => wire[Opening(frame - 1)].opcode \in {1, 2}
      /\ state # "GET_INFO" /\ opcode \in {1, 2} /\ fin = wire[frame].fin
  BY FrameInHand
<1>2. ~LengthWrong(frame) /\ totalPayloadLength = SumOfFirst(Lengths(frame), frame)
  BY <1>1 DEF LengthRead
<1>3. /\ opcode = wire[Opening(frame)].opcode /\ compressed = Deflated(frame)
      /\ ~fin => fragmented = opcode
  BY <1>1 DEF HeaderRead
<1>4. Within(frame + 1) <=> ~fin
  BY <1>1, DataFrame
<1>5. fin \in BOOLEAN
  BY TypesApart DEF IInv, HeaderTypes
<1>6. CASE fin /\ opcode = 1 /\ ~ValidText(parts)
  <2>1. Fail(1007) /\ emitted' = emitted
    BY <1>6 DEF DataMessage
  <2>2. 1007 \in Errors /\ Wrong(frame, 1007)
    BY <1>1, <1>2, <1>6 DEF Errors, Wrong
  <2>3. PICK i \in 1..MaxFrames : i = frame
    BY <1>1
  <2>4. QED
    BY <1>1, <2>1, <2>2, <2>3, FrameFails
<1>7. CASE ~(fin /\ opcode = 1 /\ ~ValidText(parts))
  <2>1. /\ GoOn("GET_INFO")
        /\ messageLength' = IF fin THEN 0 ELSE length
        /\ fragments' = IF fin THEN <<>> ELSE parts
        /\ fragmented' = IF fin THEN 0 ELSE fragmented
        /\ totalPayloadLength' = IF fin THEN 0 ELSE totalPayloadLength
        /\ emitted' = IF fin THEN Append(emitted, Event("message", parts, length, opcode))
                      ELSE emitted
    BY <1>7 DEF DataMessage
  <2>2. SoundFrame(frame)
    BY <1>1, <1>2, <1>7 DEF SoundFrame
  <2>3. emitted' = ToldTo(frame)
    <3>1. EventOf(frame) = Event("message", parts, length, opcode)
      <4>1. IsData(frame) /\ wire[frame].opcode # 8
        BY DEF IsData
      <4>2. EventOf(frame) = Event("message", PartsSeq(frame), SumOfFirst(Content(frame), frame),
                                   wire[Opening(frame)].opcode)
        BY ONLY <4>1 DEF EventOf
      <4>3. QED
        BY <1>3, <4>2
    <3>2. emitted = ToldTo(frame - 1) /\ (Completes(frame) <=> fin)
      BY <1>1 DEF ReadSoFar, Completes
    <3>3. /\ Completes(frame) => ToldTo(frame) = Append(ToldTo(frame - 1), EventOf(frame))
          /\ ~Completes(frame) => ToldTo(frame) = ToldTo(frame - 1)
      BY <1>1, ToldGrows
    <3>4. CASE fin
      BY <2>1, <3>1, <3>2, <3>3, <3>4
    <3>5. CASE ~fin
      BY <2>1, <3>1, <3>2, <3>3, <3>5
    <3>6. QED
      BY <3>4, <3>5
  <2>4. /\ messageLength' = LengthAt(frame) /\ fragments' = PartsAt(frame)
        /\ totalPayloadLength' = TotalAt(frame) /\ fragmented' = OpcodeAt(frame)
    <3>1. CASE fin
      BY <1>4, <2>1, <3>1 DEF LengthAt, PartsAt, TotalAt, OpcodeAt
    <3>2. CASE ~fin
      BY <1>2, <1>3, <1>4, <2>1, <3>2 DEF LengthAt, PartsAt, TotalAt, OpcodeAt
    <3>3. QED
      BY <3>1, <3>2
  <2>5. failed' = 0 /\ state' = "GET_INFO" /\ loop' /\ ~Concluded'
    BY <1>1, <2>1 DEF GoOn, Concluded
  <2>6. wire[frame].opcode # 8
    BY DEF IsData
  <2>7. QED
    BY <1>1, <1>3, <2>2, <2>3, <2>4, <2>5, <2>6, FrameDone
<1>8. QED
  BY <1>6, <1>7

\* getData() reads the payload, and gives a compressed one to zlib.
LEMMA GetDataReads ==
    ASSUME IInv, Reading, GetData
    PROVE  Reading'
<1>1. /\ loop /\ state = "GET_DATA" /\ state # "GET_INFO" /\ bufferedBytes >= payloadLength
      /\ UNCHANGED <<wire, unsent, frame, opcode, fin, compressed>>
  BY DEF GetData, Consume, Outside
<1>2. PICK i \in 1..MaxFrames : i = frame
  BY <1>1, FrameInHand
<1>3. /\ i = Done + 1 /\ failed = 0 /\ ~Concluded /\ TypeOK
      /\ HeaderRead(i) /\ LengthRead(i) /\ ~HeaderWrong(i)
      /\ payloadLength = wire[i].length /\ payloadLength \in Nat
      /\ Within(i) => wire[Opening(i - 1)].opcode \in {1, 2}
      /\ opcode \in Control <=> ~IsData(i)
      /\ fin = wire[i].fin
  BY <1>1, <1>2, FrameInHand, TypesApart DEF IInv, HeaderTypes
<1>4. Arrived >= Bytes(frame)
  BY <1>1, PayloadArrived
<1>5. CASE /\ opcode \in Control
           /\ IF opcode = 8 THEN Conclude ELSE PingPong
           /\ UNCHANGED <<fragmented, messageVars>>
  <2>1. CASE opcode = 8
    BY <1>1, <1>5, <2>1, ConcludeReads
  <2>2. CASE opcode # 8
    BY <1>1, <1>5, <2>2, PingPongReads
  <2>3. QED
    BY <2>1, <2>2
<1>6. CASE /\ opcode \notin Control
           /\ compressed
           /\ state' = "INFLATING"
           /\ loop' = FALSE
           /\ UNCHANGED <<queue, failed, owed, ended, fragmented, messageVars, emitted>>
  <2>1. IsData(i) /\ Deflated(i)
    BY <1>3, <1>6 DEF HeaderRead
  <2>2. /\ UNCHANGED <<messageLength, fragments, totalPayloadLength, fragmented, emitted>>
        /\ failed' = failed
    BY <1>6 DEF messageVars
  <2>3. HeaderRead(i)'
    BY <1>1, <1>3, <2>2, SameHeader
  <2>4. LengthRead(i)'
    <3>1. /\ (LengthWrong(i)' <=> LengthWrong(i)) /\ TotalAt(i)' = TotalAt(i)
          /\ Lengths(i)' = Lengths(i) /\ (IsData(i)' <=> IsData(i))
          /\ Deflated(i)' = Deflated(i)
      BY <1>1, SameReading, SameMessages
    <3>2. QED
      BY <1>1, <1>3, <1>6, <2>1, <2>2, <3>1 DEF LengthRead
  <2>5. QED
    BY <1>1, <1>2, <1>3, <1>6, <2>2, <2>3, <2>4, FrameGoesOn
<1>7. CASE /\ opcode \notin Control
           /\ ~compressed
           /\ IF payloadLength > 0
              THEN DataMessage(totalPayloadLength, Append(fragments, frame))
              ELSE DataMessage(messageLength, fragments)
           /\ UNCHANGED ended
  <2>1. IsData(i) /\ ~Deflated(i) /\ opcode = wire[Opening(i)].opcode
    BY <1>3, <1>7 DEF HeaderRead
  <2>2. /\ Content(i)[i] = payloadLength
        /\ SumOfFirst(Lengths(i), i) = TotalAt(i - 1) + wire[i].length
        /\ SumOfFirst(Content(i), i) = LengthAt(i - 1) + Content(i)[i]
        /\ PartsSeq(i) = IF Content(i)[i] > 0 THEN Append(PartsAt(i - 1), i)
                         ELSE PartsAt(i - 1)
    BY <1>3, <2>1, DataFrame
  <2>3. Content(i) = Lengths(i)
    BY <2>1 DEF Content, Lengths
  <2>4. totalPayloadLength = SumOfFirst(Lengths(i), i)
    BY <1>1, <1>3, <2>1 DEF LengthRead
  <2>5. messageLength = LengthAt(i - 1) /\ fragments = PartsAt(i - 1)
    BY <1>3 DEF HeaderRead
  <2>6. PayloadError(i) = IF fin /\ opcode = 1 /\ ~ValidText(PartsSeq(i)) THEN 1007 ELSE 0
    <3>1. wire[i].opcode # 8
      BY <2>1 DEF IsData
    <3>2. QED
      BY <1>3, <2>1, <3>1 DEF PayloadError
  <2>7. DataMessage(SumOfFirst(Content(i), i), PartsSeq(i))
    <3>1. CASE payloadLength > 0
      BY <1>2, <1>7, <2>2, <2>3, <2>4, <2>5, <3>1
    <3>2. CASE ~(payloadLength > 0)
      <4>1. payloadLength = 0 /\ messageLength \in Nat
        BY <1>3, <3>2, TypesApart DEF MessageTypes
      <4>2. SumOfFirst(Content(i), i) = messageLength /\ PartsSeq(i) = fragments
        BY <2>2, <2>5, <4>1
      <4>3. QED
        BY <1>7, <3>2, <4>2
    <3>3. QED
      BY <3>1, <3>2
  <2>8. QED
    BY <1>1, <1>2, <1>4, <2>1, <2>6, <2>7, DataMessageReads
<1>8. QED
  BY <1>5, <1>6, <1>7 DEF GetData

\* The callback of decompress() finds what zlib made of the frame wrong, or adds it.
LEMMA InflatedReads ==
    ASSUME IInv, Reading, Inflated
    PROVE  Reading'
<1>1. /\ Inflating /\ state = "INFLATING" /\ state # "GET_INFO"
      /\ UNCHANGED <<wire, unsent, frame, opcode, fin, compressed>>
  BY DEF Inflated, Inflating, Outside
<1>2. PICK i \in 1..MaxFrames : i = frame
  BY <1>1, FrameInHand
<1>3. /\ i = Done + 1 /\ failed = 0 /\ ~Concluded /\ TypeOK
      /\ HeaderRead(i) /\ LengthRead(i) /\ ~HeaderWrong(i)
      /\ Within(i) => wire[Opening(i - 1)].opcode \in {1, 2}
      /\ fin = wire[i].fin
  BY <1>1, <1>2, FrameInHand
<1>4. Arrived >= Bytes(frame)
  BY <1>1, PayloadArrived
<1>5. IsData(i) /\ Deflated(i) /\ ~LengthWrong(i)
  BY <1>1, <1>3 DEF LengthRead
<1>6. /\ opcode = wire[Opening(i)].opcode
      /\ messageLength = LengthAt(i - 1) /\ fragments = PartsAt(i - 1)
  BY <1>3, <1>5 DEF HeaderRead
<1> DEFINE n == wire[i].inflated
           all == SumOfFirst(Content(i), i)
<1>7. /\ Content(i)[i] = n /\ all = messageLength + n
      /\ PartsSeq(i) = IF n > 0 THEN Append(fragments, frame) ELSE fragments
  <2>1. /\ Content(i)[i] = n
        /\ SumOfFirst(Content(i), i) = LengthAt(i - 1) + Content(i)[i]
        /\ PartsSeq(i) = IF Content(i)[i] > 0 THEN Append(PartsAt(i - 1), i)
                         ELSE PartsAt(i - 1)
    BY <1>3, <1>5, DataFrame
  <2>2. all = messageLength + n
    BY <1>6, <2>1
  <2>3. PartsSeq(i) = IF n > 0 THEN Append(fragments, frame) ELSE fragments
    BY <1>2, <1>6, <2>1
  <2>4. QED
    BY <2>1, <2>2, <2>3
<1>8. n \in Nat /\ messageLength \in Nat
  BY <1>3, WireFrame, TypesApart DEF MessageTypes
<1>9. TooMuch(Content(i), i) <=> MaxPayload > 0 /\ n > 0 /\ all > MaxPayload
  BY <1>7 DEF TooMuch
<1>10. wire[i].opcode # 8
  BY <1>5 DEF IsData
<1>11. ASSUME NEW error \in Errors, Fail(error), UNCHANGED emitted, error = PayloadError(i)
       PROVE  Reading'
  <2>1. Wrong(i, error)
    BY <1>2, <1>3, <1>4, <1>5, <1>11 DEF Wrong
  <2>2. QED
    BY <1>1, <1>3, <1>11, <2>1, FrameFails
<1>12. CASE n = Corrupt
  <2>1. Fail(1007) /\ UNCHANGED emitted
    BY <1>2, <1>12 DEF Inflated
  <2>2. PayloadError(i) = 1007
    BY <1>5, <1>10, <1>12 DEF PayloadError
  <2>3. QED
    BY <1>11, <2>1, <2>2 DEF Errors
<1>13. CASE n # Corrupt /\ n > 0 /\ MaxPayload > 0 /\ messageLength + n > MaxPayload
  <2>1. Fail(1009) /\ UNCHANGED emitted
    BY <1>2, <1>13 DEF Inflated
  <2>2. TooMuch(Content(i), i)
    BY <1>7, <1>9, <1>13
  <2>3. PayloadError(i) = 1009
    BY <1>5, <1>10, <1>13, <2>2 DEF PayloadError
  <2>4. QED
    BY <1>11, <2>1, <2>3 DEF Errors
<1>14. CASE n # Corrupt /\ ~(n > 0 /\ MaxPayload > 0 /\ messageLength + n > MaxPayload)
  <2>1. ~TooMuch(Content(i), i)
    BY <1>7, <1>9, <1>14
  <2>2. PayloadError(i) = IF fin /\ opcode = 1 /\ ~ValidText(PartsSeq(i)) THEN 1007 ELSE 0
    BY <1>3, <1>5, <1>6, <1>10, <1>14, <2>1 DEF PayloadError
  <2>3. DataMessage(all, PartsSeq(i))
    <3>1. CASE n > 0
      <4>1. DataMessage(messageLength + n, Append(fragments, frame))
        BY <1>2, <1>14, <3>1 DEF Inflated
      <4>2. QED
        BY <1>7, <3>1, <4>1
    <3>2. CASE ~(n > 0)
      <4>1. DataMessage(messageLength, fragments)
        BY <1>2, <1>14, <3>2 DEF Inflated
      <4>2. all = messageLength
        BY <1>7, <1>8, <3>2
      <4>3. QED
        BY <1>7, <3>2, <4>1, <4>2
    <3>3. QED
      BY <3>1, <3>2
  <2>4. QED
    BY <1>1, <1>2, <1>4, <1>5, <2>2, <2>3, DataMessageReads
<1>15. QED
  BY <1>12, <1>13, <1>14

-----------------------------------------------------------------------------
(***************************************************************************)
(* The events                                                              *)
(***************************************************************************)
LEMMA InitReading == Init => Reading
<1> SUFFICES ASSUME Init PROVE Reading
  OBVIOUS
<1>1. /\ failed = 0 /\ state = "GET_INFO" /\ frame = 0 /\ ~loop /\ opcode = 0
      /\ bufferedBytes = 0 /\ emitted = <<>> /\ messageLength = 0 /\ fragments = <<>>
      /\ totalPayloadLength = 0 /\ fragmented = 0 /\ MaxFrames \in Nat
  BY BoundsAssumption DEF Init
<1>2. ~Within(0 + 1)
  BY Withins
<1>3. AfterFrame(frame)
  BY <1>1, <1>2 DEF AfterFrame, LengthAt, PartsAt, TotalAt, OpcodeAt
<1>4. ToldTo(0) = <<>>
  <2>1. 0 \in 0..MaxFrames
    BY <1>1
  <2>2. ToldTo(0) \in Seq({EventOf(j) : j \in Nat}) /\ Len(ToldTo(0)) = Len(Telling(0))
    BY <2>1, Tolds
  <2>3. Len(ToldTo(0)) = 0
    BY <2>2, Tellings, EmptySeq
  <2>4. QED
    BY <2>2, <2>3, EmptySeq
<1>5. ReadSoFar
  BY <1>1, <1>2, <1>4 DEF ReadSoFar, Done, Concluded
<1>6. Stopped
  BY <1>1 DEF Stopped, Needed
<1>7. QED
  BY <1>1, <1>3, <1>5, <1>6 DEF Reading

LEMMA NextKeepsReading == IInv /\ Reading /\ [Next]_vars => Reading'
<1> SUFFICES ASSUME IInv, Reading, [Next]_vars PROVE Reading'
  OBVIOUS
<1>1. CASE \E n \in 1..MaxChunk : Write(n)
  BY <1>1, WriteReads
<1>2. CASE NextChunk
  BY <1>2, NextChunkReads
<1>3. CASE End \/ NotEnough \/ UNCHANGED vars
  BY <1>3, StopReads
<1>4. CASE GetInfo
  BY <1>4, GetInfoReads
<1>5. CASE GetPayloadLength("GET_PAYLOAD_LENGTH_16", 2)
  BY <1>5, GetPayloadLengthReads
<1>6. CASE GetPayloadLength("GET_PAYLOAD_LENGTH_64", 8)
  BY <1>6, GetPayloadLengthReads
<1>7. CASE GetMask
  BY <1>7, GetMaskReads
<1>8. CASE GetData
  BY <1>8, GetDataReads
<1>9. CASE Inflated
  BY <1>9, InflatedReads
<1>10. QED
  BY <1>1, <1>2, <1>3, <1>4, <1>5, <1>6, <1>7, <1>8, <1>9 DEF Next

\* For every stream of frames, sound or wrong, cut into chunks anywhere, and however long
\* zlib takes: the receiver emits exactly the messages, pings, pongs and the close frame
\* the stream holds, in order, up to the first frame that is wrong, and fails at that one
\* with its status code as soon as the bytes that tell have been read.
THEOREM StreamParsed == Spec => []ParsesTheStream
<1>1. Init => Reading
  BY InitReading
<1>2. IInv /\ Reading /\ [Next]_vars => Reading'
  BY NextKeepsReading
<1>3. IInv /\ Reading => ParsesTheStream
  BY ReadingParses
<1>4. QED
  BY <1>1, <1>2, <1>3, Invariance, PTL DEF Spec
===============================================================================
