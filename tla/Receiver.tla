------------------------------- MODULE Receiver -------------------------------
(***************************************************************************)
(* The parser of incoming frames (src/ws/lib/receiver.js), a Writable that *)
(* is given the bytes of the peer in chunks cut anywhere.  A step of its   *)
(* loop reads one part of a frame, if all of it has arrived; a compressed  *)
(* payload takes the loop out of the turn until zlib answers, and chunks   *)
(* written meanwhile wait in the Writable.                                 *)
(*                                                                         *)
(* The peer's stream is a sequence of frames and its content is taken from *)
(* there; the parser's own state is what the code keeps, counts of bytes   *)
(* included.  While _loop is TRUE nothing else runs.                       *)
(***************************************************************************)
EXTENDS Integers, SequencesExt, FiniteSetsExt

CONSTANTS
    Frames,        \* frames the peer may send
    MaxFrames,     \* bound: frames of a stream
    MaxChunk,      \* bound: bytes of a chunk
    MaxQueued,     \* bound: chunks that wait in the Writable
    IsServer,      \* options.isServer
    Deflate,       \* was permessage-deflate negotiated?
    MaxPayload     \* options.maxPayload; 0 is no limit

ASSUME BoundsAssumption == {MaxFrames, MaxChunk, MaxQueued, MaxPayload} \subseteq Nat
ASSUME FlagsAssumption == {IsServer, Deflate} \subseteq BOOLEAN

\* Stands for a length above 2^53 - 1.
Unsafe == 9

\* inflated is the length a compressed payload inflates to, Corrupt if zlib refuses
\* it; text says what the bytes are in UTF-8: valid, wrong, or the two halves of a
\* character that was cut; code is the status code of a close frame.
Corrupt == Unsafe

Frame == [fin : BOOLEAN, rsv1 : BOOLEAN, rsv23 : BOOLEAN, opcode : 0..15, masked : BOOLEAN,
          form : {7, 16, 64}, length : 0..Unsafe, inflated : 0..Corrupt,
          text : {"ok", "bad", "head", "tail"}, code : Nat]

\* Only eight bytes can hold an unsafe length.
ASSUME FramesAssumption ==
    Frames \subseteq {f \in Frame : f.length >= Unsafe => f.form = 64}

VARIABLES
    wire,                \* the frames of the peer
    unsent,              \* bytes of wire that have not arrived yet
    queue,               \* lengths of the chunks that wait in the Writable
    ended,               \* end() was called
    failed,              \* 0, or the status code of the error given to the callback
    owed,                \* history: calls of _write() minus calls of their callbacks
    bufferedBytes,       \* _bufferedBytes
    frame,               \* history: the frame being parsed, or the last one parsed
    state, loop,         \* _state, _loop
    opcode, fin, masked, compressed, payloadLength, fragmented,
    totalPayloadLength, messageLength, fragments,
    emitted              \* history: events

writableVars == <<unsent, queue, ended, failed, owed>>
headerVars   == <<opcode, fin, masked, compressed, fragmented>>
messageVars  == <<totalPayloadLength, messageLength, fragments>>
vars == <<wire, writableVars, bufferedBytes, frame, state, loop, payloadLength,
          headerVars, messageVars, emitted>>

\* Bytes of the parts of a frame.
ExtendedLength(f) == CASE f.form = 7 -> 0 [] f.form = 16 -> 2 [] f.form = 64 -> 8
Mask(f)           == IF f.masked THEN 4 ELSE 0
Size(f)           == 2 + ExtendedLength(f) + Mask(f) + f.length

\* The sum of the first n numbers of a sequence.
SumOfFirst(numbers, n) ==
    LET upTo[i \in 0..n] == IF i = 0 THEN 0 ELSE upTo[i - 1] + numbers[i]
    IN  upTo[n]

\* The bytes of the first n frames of wire.
Bytes(n) == SumOfFirst([i \in 1..MaxFrames |-> Size(wire[i])], n)

Control == {8, 9, 10}

TypeOK ==
    /\ wire \in [1..MaxFrames -> Frames]
    /\ queue \in Seq(1..MaxChunk)
    /\ {ended, loop, fin, masked, compressed} \subseteq BOOLEAN
    /\ failed \in {0, 1002, 1007, 1009}
    /\ owed \in {0, 1}
    /\ frame \in 0..MaxFrames
    /\ {unsent, bufferedBytes, payloadLength, totalPayloadLength, messageLength} \subseteq Nat
    /\ state \in {"GET_INFO", "GET_PAYLOAD_LENGTH_16", "GET_PAYLOAD_LENGTH_64",
                  "GET_MASK", "GET_DATA", "INFLATING"}
    /\ opcode \in {0, 1, 2} \cup Control
    /\ fragmented \in {0, 1, 2}
    /\ fragments \in Seq(1..MaxFrames)
    /\ emitted \in Seq([type : {"message", "control", "conclude"}, parts : Seq(1..MaxFrames),
                        length : Nat, code : Nat])

Event(type, parts, length, code) ==
    [type |-> type, parts |-> parts, length |-> length, code |-> code]

Init ==
    /\ wire \in TupleOf(Frames, MaxFrames)
    /\ unsent = Bytes(MaxFrames)
    /\ queue = <<>>
    /\ ended = FALSE
    /\ failed = 0
    /\ owed = 0
    /\ bufferedBytes = 0
    /\ frame = 0
    /\ state = "GET_INFO" /\ loop = FALSE
    /\ opcode = 0 /\ fin = FALSE /\ masked = FALSE /\ compressed = FALSE
    /\ payloadLength = 0
    /\ fragmented = 0
    /\ totalPayloadLength = 0 /\ messageLength = 0 /\ fragments = <<>>
    /\ emitted = <<>>

-----------------------------------------------------------------------------
(***************************************************************************)
(* The Writable                                                            *)
(***************************************************************************)

Parser == <<wire, frame, state, payloadLength, headerVars, messageVars, emitted>>

\* _write(); what follows a close frame is dropped, and answered at once.
_write(n) ==
    /\ IF opcode = 8 /\ state = "GET_INFO"
       THEN UNCHANGED <<owed, bufferedBytes, loop>>
       ELSE owed' = owed + 1 /\ bufferedBytes' = bufferedBytes + n /\ loop' = TRUE
    /\ UNCHANGED <<ended, failed, Parser>>

Inflating == state = "INFLATING" /\ failed = 0

\* receiver.write() of socketOnData, with any number of the bytes on their way.
Write(n) ==
    /\ ~loop /\ ~ended /\ failed = 0
    /\ n <= unsent
    /\ unsent' = unsent - n
    /\ IF Inflating
       THEN /\ Len(queue) < MaxQueued
            /\ queue' = Append(queue, n)
            /\ UNCHANGED <<ended, failed, owed, bufferedBytes, loop, Parser>>
       ELSE /\ queue = <<>>
            /\ _write(n)
            /\ UNCHANGED queue

\* The callback of a chunk takes the next one.
NextChunk ==
    /\ ~loop /\ ~Inflating /\ failed = 0
    /\ queue # <<>>
    /\ queue' = Tail(queue)
    /\ _write(Head(queue))
    /\ UNCHANGED unsent

\* receiver.end() of socketOnClose.
End ==
    /\ ~loop /\ ~ended /\ failed = 0
    /\ ended' = TRUE
    /\ UNCHANGED <<unsent, queue, failed, owed, bufferedBytes, loop, Parser>>

\* cb(): the loop has read what there is.
Callback ==
    /\ loop' = FALSE
    /\ owed' = owed - 1
    /\ UNCHANGED <<queue, failed>>

\* cb(err): the Writable gives up its queue.  What an error leaves in the parser is
\* never read again.
Fail(code) ==
    /\ loop' = FALSE
    /\ failed' = code
    /\ owed' = owed - 1
    /\ queue' = <<>>

GoOn(next) == loop' = TRUE /\ state' = next /\ UNCHANGED <<queue, failed, owed>>

Outside == <<wire, unsent>>

-----------------------------------------------------------------------------
(***************************************************************************)
(* The loop                                                                *)
(***************************************************************************)
Consume(n) == bufferedBytes >= n /\ bufferedBytes' = bufferedBytes - n

\* The part that is due has not arrived completely.
Needed ==
    CASE state = "GET_INFO" -> 2
      [] state = "GET_PAYLOAD_LENGTH_16" -> 2
      [] state = "GET_PAYLOAD_LENGTH_64" -> 8
      [] state = "GET_MASK" -> 4
      [] OTHER -> payloadLength

NotEnough ==
    /\ loop
    /\ bufferedBytes < Needed
    /\ Callback
    /\ UNCHANGED <<Outside, ended, bufferedBytes, Parser>>

\* haveLength()
HaveLength(op, mask, n) ==
    IF op \notin Control /\ n > 0 /\ MaxPayload > 0 /\ totalPayloadLength + n > MaxPayload
    THEN Fail(1009) /\ UNCHANGED <<state, totalPayloadLength>>
    ELSE /\ GoOn(IF mask THEN "GET_MASK" ELSE "GET_DATA")
         /\ totalPayloadLength' = totalPayloadLength + IF op \in Control THEN 0 ELSE n

\* What getInfo() refuses.
WrongInfo(f) ==
    \/ f.rsv23
    \/ f.rsv1 /\ ~(Deflate /\ f.opcode \in {1, 2})
    \/ f.opcode = 0 /\ fragmented = 0
    \/ f.opcode \in {1, 2} /\ fragmented # 0
    \/ f.opcode \in Control /\ (~f.fin \/ f.form # 7)
    \/ f.opcode \notin {0, 1, 2} \cup Control
    \/ f.masked # IsServer

\* getInfo()
GetInfo ==
    /\ loop /\ state = "GET_INFO"
    /\ Consume(2)
    /\ frame' = frame + 1
    /\ LET f == wire[frame + 1]
       IN IF WrongInfo(f)
          THEN /\ Fail(1002)
               /\ UNCHANGED <<state, payloadLength, headerVars, totalPayloadLength>>
          ELSE /\ fin' = f.fin
               /\ masked' = f.masked
               /\ opcode' = IF f.opcode = 0 THEN fragmented ELSE f.opcode
               /\ compressed' = IF f.opcode \in {1, 2} THEN f.rsv1 ELSE compressed
               /\ fragmented' = IF ~f.fin /\ fragmented = 0 THEN opcode' ELSE fragmented
               /\ payloadLength' = f.length
               /\ CASE f.form = 16 ->
                         GoOn("GET_PAYLOAD_LENGTH_16") /\ UNCHANGED totalPayloadLength
                    [] f.form = 64 ->
                         GoOn("GET_PAYLOAD_LENGTH_64") /\ UNCHANGED totalPayloadLength
                    [] OTHER -> HaveLength(opcode', f.masked, f.length)
    /\ UNCHANGED <<Outside, ended, messageLength, fragments, emitted>>

\* getPayloadLength16() and getPayloadLength64()
GetPayloadLength(s, n) ==
    /\ loop /\ state = s
    /\ Consume(n)
    /\ IF payloadLength >= Unsafe
       THEN Fail(1009) /\ UNCHANGED <<state, totalPayloadLength>>
       ELSE HaveLength(opcode, masked, payloadLength)
    /\ UNCHANGED <<Outside, ended, frame, payloadLength, headerVars, messageLength,
                   fragments, emitted>>

GetMask ==
    /\ loop /\ state = "GET_MASK"
    /\ Consume(4)
    /\ GoOn("GET_DATA")
    /\ UNCHANGED <<Outside, ended, frame, payloadLength, headerVars, messageVars, emitted>>

\* isValidUTF8() of frames put together: no wrong byte, and every half of a character
\* next to its other half.
ValidText(parts) ==
    LET text == [i \in DOMAIN parts |-> wire[parts[i]].text]
    IN \A i \in DOMAIN text :
          /\ text[i] # "bad"
          /\ text[i] = "head" => i < Len(text) /\ text[i + 1] = "tail"
          /\ text[i] = "tail" => i > 1 /\ text[i - 1] = "head"

\* Mutant of DataMessage: the bytes of the finished message go on counting.
DataMessageKeepsTotal(length, parts) ==
    IF fin /\ opcode = 1 /\ ~ValidText(parts)
    THEN Fail(1007) /\ UNCHANGED <<state, fragmented, messageVars, emitted>>
    ELSE /\ GoOn("GET_INFO")
         /\ messageLength' = IF fin THEN 0 ELSE length
         /\ fragments' = IF fin THEN <<>> ELSE parts
         /\ fragmented' = IF fin THEN 0 ELSE fragmented
         /\ UNCHANGED totalPayloadLength
         /\ emitted' = IF fin THEN Append(emitted, Event("message", parts, length, opcode))
                       ELSE emitted

\* dataMessage(), with messageLength and fragments as they are then.
DataMessage(length, parts) ==
    IF fin /\ opcode = 1 /\ ~ValidText(parts)
    THEN Fail(1007) /\ UNCHANGED <<state, fragmented, messageVars, emitted>>
    ELSE /\ GoOn("GET_INFO")
         /\ messageLength' = IF fin THEN 0 ELSE length
         /\ fragments' = IF fin THEN <<>> ELSE parts
         /\ fragmented' = IF fin THEN 0 ELSE fragmented
         /\ totalPayloadLength' = IF fin THEN 0 ELSE totalPayloadLength
         /\ emitted' = IF fin THEN Append(emitted, Event("message", parts, length, opcode))
                       ELSE emitted

\* controlMessage() of a ping or a pong.
PingPong ==
    /\ GoOn("GET_INFO")
    /\ emitted' = Append(emitted, Event("control", <<frame>>, payloadLength, opcode))
    /\ UNCHANGED ended

\* validation.js isValidStatusCode()
IsValidStatusCode(code) ==
    \/ code \in 1000..1014 /\ code \notin {1004, 1005, 1006}
    \/ code \in 3000..4999

\* controlMessage() of a close frame.
Conclude ==
    LET code == IF payloadLength = 0 THEN 1005 ELSE wire[frame].code
    IN IF payloadLength > 0 /\ (payloadLength = 1 \/ ~IsValidStatusCode(code))
       THEN Fail(1002) /\ UNCHANGED <<state, ended, emitted>>
       ELSE IF payloadLength > 0 /\ ~ValidText(<<frame>>)
       THEN Fail(1007) /\ UNCHANGED <<state, ended, emitted>>
       ELSE /\ Callback
            /\ state' = "GET_INFO"
            /\ ended' = TRUE
            /\ emitted' = Append(emitted, Event("conclude", <<>>, 0, code))

\* getData()
GetData ==
    /\ loop /\ state = "GET_DATA"
    /\ Consume(payloadLength)
    /\ \/ /\ opcode \in Control
          /\ IF opcode = 8 THEN Conclude ELSE PingPong
          /\ UNCHANGED <<fragmented, messageVars>>
       \/ /\ opcode \notin Control
          /\ compressed
          /\ state' = "INFLATING"
          /\ loop' = FALSE
          /\ UNCHANGED <<queue, failed, owed, ended, fragmented, messageVars, emitted>>
       \/ /\ opcode \notin Control
          /\ ~compressed
          /\ IF payloadLength > 0
             THEN DataMessage(totalPayloadLength, Append(fragments, frame))
             ELSE DataMessage(messageLength, fragments)
          /\ UNCHANGED ended
    /\ UNCHANGED <<Outside, frame, payloadLength, opcode, fin, masked, compressed>>

\* Mutant of Inflated: it goes on after zlib's error, and the 1009 check is missing.
InflatedGoesOn ==
    /\ Inflating
    /\ LET n == wire[frame].inflated
       IN IF n = Corrupt
          THEN /\ failed' = 1007 /\ owed' = owed - 1
               /\ queue' = <<>> /\ loop' = TRUE
               /\ UNCHANGED <<state, fragmented, messageVars, emitted>>
          ELSE IF n = 0 THEN DataMessage(messageLength, fragments)
          ELSE DataMessage(messageLength + n, Append(fragments, frame))
    /\ UNCHANGED <<Outside, ended, bufferedBytes, frame, payloadLength, opcode, fin, masked,
                   compressed>>

\* The callback of decompress(): what zlib made of the frame.
Inflated ==
    /\ Inflating
    /\ LET n == wire[frame].inflated
       IN IF n = Corrupt
          THEN Fail(1007) /\ UNCHANGED <<state, fragmented, messageVars, emitted>>
          ELSE IF n > 0 /\ MaxPayload > 0 /\ messageLength + n > MaxPayload
          THEN Fail(1009) /\ UNCHANGED <<state, fragmented, messageVars, emitted>>
          ELSE IF n > 0 THEN DataMessage(messageLength + n, Append(fragments, frame))
          ELSE DataMessage(messageLength, fragments)
    /\ UNCHANGED <<Outside, ended, bufferedBytes, frame, payloadLength, opcode, fin, masked,
                   compressed>>

Next ==
    \/ \E n \in 1..MaxChunk : Write(n)
    \/ NextChunk \/ End
    \/ NotEnough
    \/ GetInfo
    \/ GetPayloadLength("GET_PAYLOAD_LENGTH_16", 2)
    \/ GetPayloadLength("GET_PAYLOAD_LENGTH_64", 8)
    \/ GetMask \/ GetData
    \/ Inflated

Spec == Init /\ [][Next]_vars

-----------------------------------------------------------------------------
(***************************************************************************)
(* What the stream says, frame by frame and without a parser.              *)
(***************************************************************************)
\* The numbers up to n that are in a set, in ascending order.
InOrder(set, n) ==
    LET upTo[i \in 0..n] == IF i = 0 THEN <<>>
                            ELSE IF i \in set THEN Append(upTo[i - 1], i) ELSE upTo[i - 1]
    IN  upTo[n]

IsData(i) == wire[i].opcode \in {0, 1, 2}

\* Frame i comes in the middle of a message.
Within(i) ==
    LET before == {j \in 1..(i - 1) : IsData(j)}
    IN before # {} /\ ~wire[Max(before)].fin

\* The message of data frame i: where it starts, whether it is compressed, its frames
\* up to i, the bytes of each on the wire, and what becomes of them.
Opening(i)  == Max({1} \cup {j \in 1..i : wire[j].opcode \in {1, 2}})
Deflated(i) == wire[Opening(i)].rsv1
PartsTo(i)  == {j \in Opening(i)..i : IsData(j)}
Lengths(i)  == [j \in 1..MaxFrames |-> IF j \in PartsTo(i) THEN wire[j].length ELSE 0]
Content(i)  == [j \in 1..MaxFrames |->
                  IF j \notin PartsTo(i) THEN 0
                  ELSE IF Deflated(i) THEN wire[j].inflated ELSE wire[j].length]
PartsSeq(i) == InOrder({j \in PartsTo(i) : Content(i)[j] > 0}, i)
TooMuch(sizes, i) ==
    /\ MaxPayload > 0
    /\ sizes[i] > 0
    /\ SumOfFirst(sizes, i) > MaxPayload

HeaderWrong(i) ==
    LET f == wire[i]
    IN \/ f.rsv23 \/ f.masked # IsServer
       \/ f.rsv1 /\ ~(Deflate /\ f.opcode \in {1, 2})
       \/ IsData(i) /\ (f.opcode = 0) # Within(i)
       \/ ~IsData(i) /\ (f.opcode \notin Control \/ ~f.fin \/ f.form # 7)

LengthWrong(i) ==
    \/ wire[i].form = 64 /\ wire[i].length >= Unsafe
    \/ IsData(i) /\ TooMuch(Lengths(i), i)

\* The status code of an error in the payload, or 0.
PayloadError(i) ==
    LET f == wire[i]
    IN CASE IsData(i) /\ Deflated(i) /\ f.inflated = Corrupt -> 1007
         [] IsData(i) /\ Deflated(i) /\ f.inflated # Corrupt /\ TooMuch(Content(i), i) -> 1009
         [] f.opcode = 8 /\ f.length > 0 /\ ~(f.length > 1 /\ IsValidStatusCode(f.code)) -> 1002
         [] f.opcode = 8 /\ f.length > 1 /\ IsValidStatusCode(f.code)
               /\ ~ValidText(<<i>>) -> 1007
         [] OTHER -> IF IsData(i) /\ f.fin /\ wire[Opening(i)].opcode = 1
                        /\ ~ValidText(PartsSeq(i))
                     THEN 1007 ELSE 0

\* The bytes given to _write().
Arrived == Bytes(MaxFrames) - unsent - SumOfFirst(queue, Len(queue))

\* Frame i is sound, or not there yet, or wrong, as soon as the bytes that tell are there.
Sound   == 0
Missing == 1
Verdict(i) ==
    LET from == Bytes(i - 1)
        ext  == ExtendedLength(wire[i])
    IN CASE Arrived < from + 2 -> Missing
         [] Arrived >= from + 2 /\ HeaderWrong(i) -> 1002
         [] Arrived \in (from + 2)..(from + 1 + ext) /\ ~HeaderWrong(i) -> Missing
         [] OTHER -> IF LengthWrong(i) THEN 1009
                     ELSE IF Arrived < Bytes(i) THEN Missing
                     ELSE PayloadError(i)

\* The first frame that is not sound, or the close frame.
LastRead ==
    Min({MaxFrames + 1} \cup
        {i \in 1..MaxFrames : Verdict(i) # Sound \/ wire[i].opcode = 8})

EventOf(i) ==
    CASE IsData(i) -> Event("message", PartsSeq(i), SumOfFirst(Content(i), i),
                            wire[Opening(i)].opcode)
      [] wire[i].opcode = 8 -> Event("conclude", <<>>, 0,
                                     IF wire[i].length = 0 THEN 1005 ELSE wire[i].code)
      [] OTHER -> Event("control", <<i>>, wire[i].length, wire[i].opcode)

\* A frame at which an event is due.
Completes(i) == IsData(i) => wire[i].fin

\* The events of some frames, and those and the error of the bytes that arrived.
EventsOf(frames) ==
    LET told == InOrder(frames, MaxFrames)
    IN  [k \in 1..Len(told) |-> EventOf(told[k])]

Told(last) ==
    EventsOf({i \in 1..MaxFrames : /\ i < last \/ (i = last /\ Verdict(i) = Sound)
                                   /\ Completes(i)})

ErrorIn(last) ==
    IF last <= MaxFrames /\ Verdict(last) \notin {Sound, Missing} THEN Verdict(last) ELSE 0

-----------------------------------------------------------------------------
(***************************************************************************)
(* Properties                                                              *)
(***************************************************************************)

\* However the bytes are cut into chunks and however long zlib takes, the receiver
\* emits the messages, pings, pongs and the close frame that the stream holds, in
\* order, each put together from its own frames with its exact length, up to the
\* first frame that is wrong; and it finds that one as soon as the bytes are there.
ParsesTheStream ==
    LET last == LastRead
    IN IF loop \/ Inflating
       THEN failed = 0 /\ IsPrefix(emitted, Told(last))
       ELSE failed = ErrorIn(last) /\ emitted = Told(last)

\* Every chunk given to _write() is answered once: the Writable is told neither twice,
\* which is an error of its own, nor never, which stops the connection.
EveryChunkAnsweredOnce ==
    owed = IF loop \/ Inflating THEN 1 ELSE 0
=============================================================================
