------------------------ MODULE PerMessageDeflate_proofs ------------------------
(***************************************************************************)
(* Proofs about PerMessageDeflate, for any connections, any limit and any  *)
(* number of calls.  The limiter is used as it has to be, so that what is  *)
(* proved of it in Limiter_proofs holds of the one all connections share.  *)
(* The last part is about Negotiation: two ends that both run this code    *)
(* agree, for every pair of options.                                       *)
(***************************************************************************)
EXTENDS PerMessageDeflate, Negotiation, FiniteSetTheorems, SequenceTheorems, TLAPS

\* What is proved of the limiter, for the jobs of this module.
Proved == INSTANCE Limiter_proofs

-----------------------------------------------------------------------------
(***************************************************************************)
(* The inductive invariant                                                 *)
(***************************************************************************)

\* A job the limiter still has: it waits or zlib works on it.
Waits(j) == Was(jobs, j)
Live(j)  == j \in running \/ Waits(j)

\* A job that was not answered is the job of a call, and a live job was not answered.
Answers ==
    \A j \in Job : /\ answered[j] <= 1
                   /\ answered[j] = 1 => Was(added, j) /\ ~Live(j)
                   /\ Live(j) => Was(added, j)

\* The sender and the receiver of a connection have one job each at a time.
OneEach ==
    \A j, k \in Job :
        Live(j) /\ Live(k) /\ j.conn = k.conn /\ j.op = k.op => j = k

\* After cleanup() the only job a connection still has is a message that waited.
Leftover ==
    \A c \in cleaned :
        /\ c \in destroyed
        /\ stream[c] # {} => c \in overdue /\ stream[c] = {"deflate"}
        /\ \A j \in Job : Live(j) /\ j.conn = c => j.op = "deflate" /\ c \in overdue

\* A job that was interrupted by cleanup() was the last one of its connection: no
\* stream is opened for it again.
Interruption ==
    \A j \in late : /\ j.op = "deflate"
                    /\ j.conn \in cleaned
                    /\ stream[j.conn] = {}
                    /\ \A k \in Job : k.conn = j.conn => ~Live(k)

IInv ==
    /\ TypeOK
    /\ Proved!IInv
    /\ Answers
    /\ OneEach
    /\ Leftover
    /\ Interruption

\* No callback is called twice: cleanup() answers the job it interrupts, and the
\* flush callback of that stream, which zlib still calls, does not.
AnsweredAtMostOnce == \A j \in Job : answered[j] <= 1

-----------------------------------------------------------------------------
(***************************************************************************)
(* Jobs                                                                    *)
(***************************************************************************)

LEMMA JobFields ==
    /\ \A j \in Job : j.conn \in Conn /\ j.op \in Op
    /\ \A c \in Conn, op \in Op : \A n \in 1..MaxCalls[op] :
          [conn |-> c, op |-> op, n |-> n] \in Job
<1>1. ASSUME NEW j \in Job PROVE j.conn \in Conn /\ j.op \in Op
  <2>1. PICK op \in Op : j \in [conn : Conn, op : {op}, n : 1..MaxCalls[op]]
    BY DEF Job
  <2>2. QED
    BY <2>1
<1>2. ASSUME NEW c \in Conn, NEW op \in Op, NEW n \in 1..MaxCalls[op]
      PROVE  [conn |-> c, op |-> op, n |-> n] \in Job
  <2>1. [conn |-> c, op |-> op, n |-> n] \in [conn : Conn, op : {op}, n : 1..MaxCalls[op]]
    OBVIOUS
  <2>2. QED
    BY <2>1 DEF Job
<1>3. QED
  BY <1>1, <1>2

\* The number of the next call is a number.
LEMMA CallsIsNat ==
    ASSUME added \in Seq(Job), NEW c \in Conn, NEW op \in Op
    PROVE  Calls(c, op) \in Nat
<1> DEFINE S == {j \in Job : j.conn = c /\ j.op = op /\ Was(added, j)}
           T == {added[i] : i \in 1..Len(added)}
<1>1. Len(added) \in Nat
  BY LenProperties
<1>2. IsFiniteSet(1..Len(added))
  BY <1>1, FS_Interval
<1>3. IsFiniteSet(T)
  <2>1. added \in Surjection(1..Len(added), T)
    BY LenProperties DEF Surjection
  <2>2. QED
    BY <1>2, <2>1, FS_Surjection
<1>4. S \subseteq T
  BY DEF Was
<1>5. IsFiniteSet(S)
  BY <1>3, <1>4, FS_Subset
<1>6. QED
  BY <1>5, FS_CardinalityType DEF Calls

-----------------------------------------------------------------------------
(***************************************************************************)
(* The steps of the limiter                                                *)
(***************************************************************************)

LEMMA LimiterInit == TheLimiter!Init => Proved!IInv
<1>1. Concurrency \in Nat \ {0}
  BY DeflateAssumption
<1>2. Proved!Init => Proved!IInv
  BY <1>1, Proved!InitIInv
<1>3. QED
  BY <1>2 DEF TheLimiter!Init, Proved!Init

LEMMA LimiterAdd ==
    ASSUME Proved!IInv, NEW j \in Job, TheLimiter!Add(j)
    PROVE  Proved!IInv'
<1>1. Concurrency \in Nat \ {0}
  BY DeflateAssumption
<1>2. Proved!Add(j)
  BY DEF TheLimiter!Add, Proved!Add, TheLimiter!Fresh, Proved!Fresh, TheLimiter!Run,
         Proved!Run
<1>3. QED
  BY <1>1, <1>2, Proved!AddKeepsIInv

LEMMA LimiterDone ==
    ASSUME Proved!IInv, NEW j \in Job, TheLimiter!Done(j)
    PROVE  Proved!IInv'
<1>1. Concurrency \in Nat \ {0}
  BY DeflateAssumption
<1>2. Proved!Done(j)
  BY DEF TheLimiter!Done, Proved!Done, TheLimiter!Run, Proved!Run
<1>3. QED
  BY <1>1, <1>2, Proved!DoneKeepsIInv

LEMMA LimiterRests ==
    ASSUME Proved!IInv, UNCHANGED limiterVars
    PROVE  Proved!IInv'
BY DEF limiterVars, Proved!IInv, Proved!TypeOK, Proved!NeverOverLimit,
       Proved!WorkConserving, Proved!StartedInOrder, Proved!AddedOnce,
       Proved!RunningStarted

\* A running job does not wait as well.
LEMMA RunningDoesNotWait ==
    ASSUME Proved!IInv, NEW j \in running
    PROVE  ~Waits(j)
<1>1. /\ jobs \in Seq(Job) /\ started \in Seq(Job) /\ added \in Seq(Job)
      /\ started \o jobs = added
      /\ \A i, k \in 1..Len(added) : added[i] = added[k] => i = k
  BY DEF Proved!IInv, Proved!TypeOK, Proved!StartedInOrder, Proved!AddedOnce
<1>2. PICK i \in 1..Len(started) : started[i] = j
  BY DEF Proved!IInv, Proved!RunningStarted
<1>3. SUFFICES ASSUME NEW k \in 1..Len(jobs), jobs[k] = j PROVE FALSE
  BY DEF Waits, Was
<1>4. /\ Len(added) = Len(started) + Len(jobs)
      /\ added[i] = j /\ added[Len(started) + k] = j
  BY <1>1, <1>2, <1>3, ConcatProperties
<1>5. QED
  BY <1>1, <1>2, <1>3, <1>4

\* kRun loses no job.
LEMMA RunMoves ==
    ASSUME NEW q \in Seq(Job), NEW n \in Int, NEW r \in SUBSET Job,
           started \in Seq(Job), TheLimiter!Run(q, n, r)
    PROVE  /\ \A j : Live(j)' <=> j \in r \/ Was(q, j)
           /\ \/ started' = started
              \/ \E h \in Job : Was(q, h) /\ started' = Append(started, h)
<1>1. CASE n # Concurrency /\ q # <<>>
  <2> DEFINE h == Head(q)
  <2>1. /\ h \in Job /\ Tail(q) \in Seq(Job) /\ Len(q) \in Nat \ {0} /\ q[1] = h
        /\ Len(Tail(q)) = Len(q) - 1
        /\ \A i \in 1..Len(Tail(q)) : Tail(q)[i] = q[i + 1]
    BY <1>1, HeadTailProperties, EmptySeq
  <2>2. /\ jobs' = Tail(q) /\ running' = r \cup {h}
        /\ started' = Append(started, h)
    BY <1>1 DEF TheLimiter!Run
  <2> HIDE DEF h
  <2>3. ASSUME NEW j PROVE Was(q, j) <=> j = h \/ Was(Tail(q), j)
    <3>1. ASSUME Was(q, j), j # h PROVE Was(Tail(q), j)
      <4>1. PICK i \in 1..Len(q) : q[i] = j
        BY <3>1 DEF Was
      <4>2. i - 1 \in 1..Len(Tail(q)) /\ Tail(q)[i - 1] = q[(i - 1) + 1]
        BY <2>1, <3>1, <4>1
      <4>3. Tail(q)[i - 1] = j
        BY <2>1, <4>1, <4>2
      <4>4. QED
        BY <4>2, <4>3 DEF Was
    <3>2. ASSUME Was(Tail(q), j) PROVE Was(q, j)
      BY <2>1, <3>2 DEF Was
    <3>3. Was(q, h)
      BY <2>1 DEF Was
    <3>4. QED
      BY <3>1, <3>2, <3>3
  <2>4. \A j : Live(j)' <=> j \in r \/ Was(q, j)
    BY <2>2, <2>3 DEF Live, Waits, Was
  <2>5. QED
    BY <2>1, <2>2, <2>3, <2>4
<1>2. CASE ~(n # Concurrency /\ q # <<>>)
  <2>1. /\ jobs' = q /\ running' = r /\ started' = started
    BY <1>2 DEF TheLimiter!Run
  <2>2. QED
    BY <2>1 DEF Live, Waits, Was
<1>3. QED
  BY <1>1, <1>2

\* The job it starts opens its stream.
LEMMA StartOpens ==
    ASSUME started \in Seq(Job), NEW s, NEW h \in Job, started' = Append(started, h)
    PROVE  Opened(s) = [s EXCEPT ![h.conn] = @ \cup {h.op}]
<1>1. /\ Len(started') = Len(started) + 1 /\ started'[Len(started) + 1] = h
      /\ Len(started) \in Nat
  BY AppendProperties, LenProperties
<1>2. QED
  BY <1>1 DEF Opened

LEMMA NoStart == ASSUME NEW s, started' = started PROVE Opened(s) = s
BY DEF Opened

\* add() makes one job live that was not.
LEMMA AddMoves ==
    ASSUME Proved!IInv, NEW j \in Job, TheLimiter!Add(j), NEW s
    PROVE  /\ \A k : Live(k)' <=> Live(k) \/ k = j
           /\ \A k : Was(added, k)' <=> Was(added, k) \/ k = j
           /\ ~Was(added, j)
           /\ \/ Opened(s) = s
              \/ \E h \in Job : Live(h)' /\ Opened(s) = [s EXCEPT ![h.conn] = @ \cup {h.op}]
<1>1. /\ jobs \in Seq(Job) /\ started \in Seq(Job) /\ added \in Seq(Job)
      /\ running \in SUBSET Job /\ pending \in Int
  BY DEF Proved!IInv, Proved!TypeOK
<1>2. /\ TheLimiter!Run(Append(jobs, j), pending, running)
      /\ added' = Append(added, j)
      /\ ~Was(added, j)
  BY DEF TheLimiter!Add, TheLimiter!Fresh, Was
<1>3. ASSUME NEW t \in Seq(Job), NEW k PROVE Was(Append(t, j), k) <=> Was(t, k) \/ k = j
  <2>1. /\ Len(t) \in Nat /\ Len(Append(t, j)) = Len(t) + 1
        /\ \A i \in 1..Len(t) : Append(t, j)[i] = t[i]
        /\ Append(t, j)[Len(t) + 1] = j
    BY AppendProperties, LenProperties
  <2>2. ASSUME NEW i \in 1..(Len(t) + 1) PROVE i \in 1..Len(t) \/ i = Len(t) + 1
    BY <2>1
  <2>3. QED
    BY <2>1, <2>2 DEF Was
<1> DEFINE q == Append(jobs, j)
<1>4. q \in Seq(Job) /\ TheLimiter!Run(q, pending, running)
  BY <1>1, <1>2, AppendProperties
<1> HIDE DEF q
<1>5. \A k : Live(k)' <=> k \in running \/ Was(q, k)
  BY <1>1, <1>4, RunMoves
<1>6. \A k : Live(k)' <=> Live(k) \/ k = j
  BY <1>1, <1>3, <1>5 DEF Live, Waits, q
<1>7. \A k : Was(added, k)' <=> Was(added, k) \/ k = j
  BY <1>1, <1>2, <1>3 DEF Was
<1>8. \/ Opened(s) = s
      \/ \E h \in Job : /\ Was(q, h)
                        /\ Opened(s) = [s EXCEPT ![h.conn] = @ \cup {h.op}]
  <2>1. \/ started' = started
        \/ \E h \in Job : Was(q, h) /\ started' = Append(started, h)
    BY <1>1, <1>4, RunMoves
  <2>2. QED
    BY <1>1, <2>1, StartOpens, NoStart
<1>9. QED
  BY <1>2, <1>5, <1>6, <1>7, <1>8

\* done() ends one live job.
LEMMA DoneMoves ==
    ASSUME Proved!IInv, NEW j \in Job, TheLimiter!Done(j), NEW s
    PROVE  /\ j \in running /\ Live(j) /\ added' = added
           /\ \A k : Live(k)' <=> Live(k) /\ k # j
           /\ \/ Opened(s) = s
              \/ \E h \in Job : Live(h)' /\ Opened(s) = [s EXCEPT ![h.conn] = @ \cup {h.op}]
<1>1. /\ jobs \in Seq(Job) /\ started \in Seq(Job)
      /\ running \in SUBSET Job /\ pending - 1 \in Int
  BY DEF Proved!IInv, Proved!TypeOK
<1>2. /\ j \in running /\ added' = added
      /\ TheLimiter!Run(jobs, pending - 1, running \ {j})
  BY DEF TheLimiter!Done
<1>3. ~Waits(j)
  BY <1>2, RunningDoesNotWait
<1>4. \A k : Live(k)' <=> k \in running \ {j} \/ Was(jobs, k)
  BY <1>1, <1>2, RunMoves
<1>5. \A k : Live(k)' <=> Live(k) /\ k # j
  BY <1>3, <1>4 DEF Live, Waits
<1>6. \/ Opened(s) = s
      \/ \E h \in Job : /\ Was(jobs, h)
                        /\ Opened(s) = [s EXCEPT ![h.conn] = @ \cup {h.op}]
  <2>1. \/ started' = started
        \/ \E h \in Job : Was(jobs, h) /\ started' = Append(started, h)
    BY <1>1, <1>2, RunMoves
  <2>2. QED
    BY <1>1, <2>1, StartOpens, NoStart
<1>7. QED
  BY <1>2, <1>4, <1>5, <1>6 DEF Live

-----------------------------------------------------------------------------
(***************************************************************************)
(* The steps of the connections                                            *)
(***************************************************************************)

\* What starts, if anything, for streams s.
Starts(s) ==
    \/ stream' = s
    \/ \E h \in Job : Live(h)' /\ stream' = [s EXCEPT ![h.conn] = @ \cup {h.op}]

LEMMA StreamTypes ==
    ASSUME NEW s \in [Conn -> SUBSET Op], Starts(s)
    PROVE  stream' \in [Conn -> SUBSET Op]
<1>1. CASE stream' = s
  BY <1>1
<1>2. ASSUME NEW h \in Job, stream' = [s EXCEPT ![h.conn] = @ \cup {h.op}]
      PROVE  stream' \in [Conn -> SUBSET Op]
  <2>1. h.op \in Op
    BY JobFields
  <2>2. QED
    BY <1>2, <2>1
<1>3. QED
  BY <1>1, <1>2 DEF Starts

\* A connection that was cleaned up gets no stream but that of a job it still has.
LEMMA StreamsStay ==
    ASSUME IInv, NEW s \in [Conn -> SUBSET Op], Starts(s),
           \A c \in Conn : s[c] \subseteq stream[c],
           UNCHANGED <<late, destroyed, cleaned, overdue>>,
           \A k \in Job : Live(k)' => Live(k) \/ k.conn \notin cleaned
    PROVE  Leftover' /\ Interruption'
<1>1. cleaned \subseteq Conn /\ late \subseteq Job
  BY DEF IInv, TypeOK
<1>2. ASSUME NEW c \in cleaned
      PROVE  \/ stream'[c] = s[c]
             \/ /\ \E h \in Job : Live(h) /\ h.conn = c
                /\ stream'[c] = s[c] \cup {"deflate"}
                /\ c \in overdue
  <2>1. CASE stream' = s
    BY <2>1
  <2>2. ASSUME NEW h \in Job, Live(h)', stream' = [s EXCEPT ![h.conn] = @ \cup {h.op}],
               h.conn = c
        PROVE  /\ Live(h) /\ stream'[c] = s[c] \cup {"deflate"} /\ c \in overdue
    <3>1. Live(h)
      BY <2>2
    <3>2. h.op = "deflate" /\ c \in overdue
      BY <2>2, <3>1 DEF IInv, Leftover
    <3>3. QED
      BY <1>1, <2>2, <3>1, <3>2
  <2>3. ASSUME NEW h \in Job, stream' = [s EXCEPT ![h.conn] = @ \cup {h.op}], h.conn # c
        PROVE  stream'[c] = s[c]
    BY <1>1, <2>3
  <2>4. QED
    BY <2>1, <2>2, <2>3 DEF Starts
<1>3. Leftover'
  <2>1. SUFFICES ASSUME NEW c \in cleaned
                 PROVE  /\ c \in destroyed
                        /\ stream'[c] # {} => c \in overdue /\ stream'[c] = {"deflate"}
                        /\ \A j \in Job : Live(j)' /\ j.conn = c
                                            => j.op = "deflate" /\ c \in overdue
    BY DEF Leftover
  <2>2. /\ c \in destroyed
        /\ stream[c] # {} => c \in overdue /\ stream[c] = {"deflate"}
        /\ \A j \in Job : Live(j) /\ j.conn = c => j.op = "deflate" /\ c \in overdue
    BY DEF IInv, Leftover
  <2>3. s[c] \subseteq stream[c]
    BY <1>1
  <2>4. s[c] # {} => c \in overdue /\ s[c] = {"deflate"}
    BY <2>2, <2>3
  <2>5. QED
    BY <1>2, <2>2, <2>4
<1>4. Interruption'
  <2>1. SUFFICES ASSUME NEW j \in late
                 PROVE  /\ j.op = "deflate" /\ j.conn \in cleaned /\ stream'[j.conn] = {}
                        /\ \A k \in Job : k.conn = j.conn => ~(Live(k)')
    BY DEF Interruption
  <2>2. /\ j.op = "deflate" /\ j.conn \in cleaned /\ stream[j.conn] = {}
        /\ \A k \in Job : k.conn = j.conn => ~Live(k)
    BY DEF IInv, Interruption
  <2>3. s[j.conn] = {}
    BY <1>1, <2>2
  <2>4. stream'[j.conn] = {}
    BY <1>2, <2>2, <2>3
  <2>5. QED
    BY <2>2, <2>4
<1>5. QED
  BY <1>3, <1>4

\* A call of a connection that has no job of this kind, and was not cleaned up.
LEMMA CallKeepsIInv ==
    ASSUME IInv, NEW c \in Conn, NEW op \in Op, c \notin cleaned, Call(c, op)
    PROVE  IInv' /\ \E j \in Job : TheLimiter!Add(j)
<1> DEFINE j == [conn |-> c, op |-> op, n |-> Calls(c, op) + 1]
<1>1. j \in Job /\ j.conn = c /\ j.op = op
  <2>1. added \in Seq(Job) /\ MaxCalls[op] \in Nat
    BY DeflateAssumption DEF IInv, Proved!IInv, Proved!TypeOK
  <2>2. Calls(c, op) + 1 \in 1..MaxCalls[op]
    BY <2>1, CallsIsNat DEF Call
  <2>3. QED
    BY <2>2, JobFields
<1>2. TheLimiter!Add(j)
  BY DEF Call
<1> HIDE DEF j
<1>3. Proved!IInv'
  BY <1>1, <1>2, LimiterAdd DEF IInv
<1>4. /\ \A k : Live(k)' <=> Live(k) \/ k = j
      /\ \A k : Was(added, k)' <=> Was(added, k) \/ k = j
      /\ ~Was(added, j)
      /\ \/ Opened(stream) = stream
         \/ \E h \in Job :
               Live(h)' /\ Opened(stream) = [stream EXCEPT ![h.conn] = @ \cup {h.op}]
  BY <1>1, <1>2, AddMoves DEF IInv
<1>5. Starts(stream) /\ stream \in [Conn -> SUBSET Op]
  BY <1>4 DEF Starts, Call, IInv, TypeOK
<1>6. UNCHANGED <<answered, late, destroyed, failed, cleaned, overdue>>
  BY DEF Call
<1>7. TypeOK'
  <2>1. TheLimiter!TypeOK'
    BY <1>3 DEF Proved!IInv, Proved!TypeOK, TheLimiter!TypeOK
  <2>2. QED
    BY <1>5, <1>6, <2>1, StreamTypes DEF IInv, TypeOK
<1>8. Answers'
  BY <1>4, <1>6 DEF IInv, Answers
<1>9. ASSUME NEW k \in Job, Live(k), k.conn = c, k.op = op PROVE FALSE
  <2>1. answered[k] = 0 /\ Was(added, k)
    BY <1>9 DEF IInv, Answers, TypeOK
  <2>2. k \in Outstanding(c, op)
    BY <1>9, <2>1 DEF Outstanding
  <2>3. QED
    BY <2>2 DEF Call
<1>10. OneEach'
  BY <1>1, <1>4, <1>9 DEF IInv, OneEach
<1>11. Leftover' /\ Interruption'
  BY <1>1, <1>4, <1>5, <1>6, StreamsStay
<1>12. QED
  BY <1>1, <1>2, <1>3, <1>7, <1>8, <1>10, <1>11 DEF IInv

\* The answer of a running job: done(), then its callback.
LEMMA AnswerKeeps ==
    ASSUME IInv, NEW j \in Job, NEW s \in [Conn -> SUBSET Op], Answer(j, s)
    PROVE  /\ Proved!IInv' /\ Answers' /\ OneEach' /\ Starts(s)
           /\ answered' \in [Job -> Nat] /\ stream' \in [Conn -> SUBSET Op]
           /\ j \in running /\ Live(j)
           /\ \A k : Live(k)' <=> Live(k) /\ k # j
<1>1. TheLimiter!Done(j) /\ stream' = Opened(s)
  BY DEF Answer
<1>2. Proved!IInv'
  BY <1>1, LimiterDone DEF IInv
<1>3. /\ j \in running /\ Live(j) /\ added' = added
      /\ \A k : Live(k)' <=> Live(k) /\ k # j
      /\ \/ Opened(s) = s
         \/ \E h \in Job : Live(h)' /\ Opened(s) = [s EXCEPT ![h.conn] = @ \cup {h.op}]
  BY <1>1, DoneMoves DEF IInv
<1>4. Starts(s)
  BY <1>1, <1>3 DEF Starts
<1>5. answered[j] = 0
  BY <1>3 DEF IInv, Answers, TypeOK
<1>6. answered' = [answered EXCEPT ![j] = 1]
  BY <1>5 DEF Answer, IInv, TypeOK
<1>7. answered' \in [Job -> Nat]
  BY <1>6 DEF IInv, TypeOK
<1>8. Answers'
  <2>1. SUFFICES ASSUME NEW k \in Job
                 PROVE  /\ answered'[k] <= 1
                        /\ answered'[k] = 1 => Was(added, k) /\ ~(Live(k)')
                        /\ Live(k)' => Was(added, k)
    BY <1>3 DEF Answers, Was
  <2>2. /\ answered[k] <= 1
        /\ answered[k] = 1 => Was(added, k) /\ ~Live(k)
        /\ Live(k) => Was(added, k)
    BY DEF IInv, Answers
  <2>3. CASE k = j
    BY <1>3, <1>6, <2>2, <2>3 DEF IInv, TypeOK
  <2>4. CASE k # j
    BY <1>3, <1>6, <2>2, <2>4 DEF IInv, TypeOK
  <2>5. QED
    BY <2>3, <2>4
<1>9. OneEach'
  BY <1>3 DEF IInv, OneEach
<1>10. QED
  BY <1>2, <1>3, <1>4, <1>7, <1>8, <1>9, StreamTypes

\* zlib's answers, and a socket's end.
LEMMA ZlibKeepsIInv ==
    ASSUME IInv, NEW j \in Job, NEW s \in [Conn -> SUBSET Op], Answer(j, s),
           \A c \in Conn : s[c] \subseteq stream[c],
           failed' \in SUBSET Conn, UNCHANGED <<late, destroyed, cleaned, overdue>>
    PROVE  IInv'
<1>1. /\ Proved!IInv' /\ Answers' /\ OneEach' /\ Starts(s)
      /\ answered' \in [Job -> Nat] /\ stream' \in [Conn -> SUBSET Op]
      /\ \A k : Live(k)' <=> Live(k) /\ k # j
  BY AnswerKeeps
<1>2. Leftover' /\ Interruption'
  BY <1>1, StreamsStay
<1>3. TypeOK'
  <2>1. TheLimiter!TypeOK'
    BY <1>1 DEF Proved!IInv, Proved!TypeOK, TheLimiter!TypeOK
  <2>2. QED
    BY <1>1, <2>1 DEF IInv, TypeOK
<1>4. QED
  BY <1>1, <1>2, <1>3 DEF IInv

LEMMA DeflatedKeepsIInv ==
    ASSUME IInv, NEW j \in Job, Deflated(j)
    PROVE  IInv' /\ TheLimiter!Done(j)
<1>1. /\ Answer(j, stream) /\ stream \in [Conn -> SUBSET Op]
      /\ failed' \in SUBSET Conn /\ UNCHANGED <<late, destroyed, cleaned, overdue>>
  BY DEF Deflated, IInv, TypeOK
<1>2. IInv'
  BY <1>1, ZlibKeepsIInv
<1>3. QED
  BY <1>1, <1>2 DEF Answer

LEMMA InflatedKeepsIInv ==
    ASSUME IInv, NEW j \in Job, NEW outcome \in Outcome, Inflated(j, outcome)
    PROVE  IInv' /\ TheLimiter!Done(j)
<1> DEFINE s == IF outcome = "data" THEN stream
                ELSE [stream EXCEPT ![j.conn] = @ \ {"inflate"}]
<1>1. /\ Answer(j, s) /\ UNCHANGED <<late, destroyed, cleaned, overdue>>
      /\ failed' = IF outcome \in {"data", "end"} THEN failed ELSE failed \cup {j.conn}
  BY DEF Inflated
<1>2. s \in [Conn -> SUBSET Op] /\ \A c \in Conn : s[c] \subseteq stream[c]
  BY DEF IInv, TypeOK
<1>3. failed' \in SUBSET Conn
  BY <1>1, JobFields DEF IInv, TypeOK
<1> HIDE DEF s
<1>4. IInv'
  BY <1>1, <1>2, <1>3, ZlibKeepsIInv
<1>5. QED
  BY <1>1, <1>4 DEF Answer

\* cleanup() leaves no stream behind, and of the jobs at most one that waits.
LEMMA CleanupKeepsIInv ==
    ASSUME IInv, NEW c \in Conn, Cleanup(c)
    PROVE  IInv' /\ (UNCHANGED limiterVars \/ \E j \in Job : TheLimiter!Done(j))
<1> DEFINE closed == [stream EXCEPT ![c] = {}]
<1>1. /\ c \in destroyed /\ c \notin cleaned
      /\ cleaned' = cleaned \cup {c}
      /\ overdue' = IF \E i \in 1..Len(jobs) : jobs[i].conn = c
                    THEN overdue \cup {c} ELSE overdue
      /\ late' = late \cup Interrupted(c)
      /\ UNCHANGED <<destroyed, failed>>
  BY DEF Cleanup, MayCleanup
<1>2. closed \in [Conn -> SUBSET Op] /\ closed[c] = {}
      /\ \A x \in Conn \ {c} : closed[x] = stream[x]
  BY DEF IInv, TypeOK
<1>3. ASSUME NEW k \in Job, Live(k), k.conn = c PROVE k.op = "deflate"
  <2>1. answered[k] = 0 /\ Was(added, k)
    BY <1>3 DEF IInv, Answers, TypeOK
  <2>2. k.op = "inflate" => k \in Outstanding(c, "inflate")
    BY <1>3, <2>1 DEF Outstanding
  <2>3. k.op \in {"deflate", "inflate"}
    BY JobFields DEF Op
  <2>4. QED
    BY <2>2, <2>3 DEF Cleanup, MayCleanup
<1>4. Interrupted(c) \subseteq Job /\ running \subseteq Job
  BY DEF Interrupted, IInv, Proved!IInv, Proved!TypeOK
<1>5. /\ UNCHANGED limiterVars \/ \E j \in Job : TheLimiter!Done(j)
      /\ Proved!IInv' /\ Answers' /\ OneEach' /\ Starts(closed)
      /\ answered' \in [Job -> Nat] /\ stream' \in [Conn -> SUBSET Op]
      /\ \A k : Live(k)' => Live(k)
      /\ \A k \in Job : Live(k)' /\ k.conn = c => Waits(k) /\ Interrupted(c) = {}
      /\ \A k \in Interrupted(c) : k.conn = c /\ k.op = "deflate"
  <2>1. CASE Interrupted(c) = {}
    <3>1. stream' = closed /\ UNCHANGED <<limiterVars, answered>>
      BY <2>1 DEF Cleanup
    <3>2. \A k : Live(k)' <=> Live(k)
      BY <3>1 DEF limiterVars, Live, Waits, Was
    <3>3. Proved!IInv'
      BY <3>1, LimiterRests DEF IInv
    <3>4. Answers' /\ OneEach'
      BY <3>1, <3>2 DEF IInv, Answers, OneEach, limiterVars, Was
    <3>5. answered' \in [Job -> Nat] /\ stream' \in [Conn -> SUBSET Op] /\ Starts(closed)
      BY <1>2, <3>1 DEF IInv, TypeOK, Starts
    <3>6. ASSUME NEW k \in Job, Live(k), k.conn = c PROVE Waits(k)
      BY <1>3, <2>1, <3>6 DEF Interrupted, Live
    <3>7. QED
      BY <2>1, <3>1, <3>2, <3>3, <3>4, <3>5, <3>6
  <2>2. ASSUME NEW j \in Interrupted(c), Answer(j, closed)
        PROVE  /\ \E k \in Job : TheLimiter!Done(k)
               /\ Proved!IInv' /\ Answers' /\ OneEach' /\ Starts(closed)
               /\ answered' \in [Job -> Nat] /\ stream' \in [Conn -> SUBSET Op]
               /\ \A k : Live(k)' => Live(k)
               /\ \A k \in Job : ~(Live(k)' /\ k.conn = c)
               /\ \A k \in Interrupted(c) : k.conn = c /\ k.op = "deflate"
    <3>1. j \in Job /\ j.conn = c /\ j.op = "deflate" /\ j \in running
      BY <1>4 DEF Interrupted
    <3>2. /\ Proved!IInv' /\ Answers' /\ OneEach' /\ Starts(closed)
          /\ answered' \in [Job -> Nat] /\ stream' \in [Conn -> SUBSET Op]
          /\ Live(j)
          /\ \A k : Live(k)' <=> Live(k) /\ k # j
      BY <1>2, <2>2, <3>1, AnswerKeeps
    <3>3. ASSUME NEW k \in Job, Live(k), k # j, k.conn = c PROVE FALSE
      BY <1>3, <3>1, <3>2, <3>3 DEF IInv, OneEach
    <3>4. TheLimiter!Done(j)
      BY <2>2 DEF Answer
    <3>5. QED
      BY <3>1, <3>2, <3>3, <3>4 DEF Interrupted
  <2>3. QED
    BY <2>1, <2>2 DEF Cleanup
<1> HIDE DEF closed
<1>6. TypeOK'
  <2>1. TheLimiter!TypeOK'
    BY <1>5 DEF Proved!IInv, Proved!TypeOK, TheLimiter!TypeOK
  <2>2. late' \in SUBSET Job /\ overdue' \in SUBSET Conn /\ cleaned' \in SUBSET Conn
    BY <1>1, <1>4 DEF IInv, TypeOK
  <2>3. QED
    BY <1>1, <1>5, <2>1, <2>2 DEF IInv, TypeOK
<1>7. ASSUME NEW k \in Job, Waits(k), k.conn = c PROVE c \in overdue'
  <2>1. \E i \in 1..Len(jobs) : jobs[i].conn = c
    BY <1>7 DEF Waits, Was
  <2>2. QED
    BY <1>1, <2>1
<1>8. /\ stream'[c] # {} => c \in overdue' /\ stream'[c] = {"deflate"}
      /\ Interrupted(c) # {} => stream'[c] = {}
  <2>1. CASE stream' = closed
    BY <1>2, <2>1
  <2>2. ASSUME NEW h \in Job, Live(h)', stream' = [closed EXCEPT ![h.conn] = @ \cup {h.op}]
        PROVE  <1>8!1 /\ <1>8!2
    <3>1. CASE h.conn = c
      <4>1. Waits(h) /\ Interrupted(c) = {} /\ Live(h)
        BY <1>5, <2>2, <3>1
      <4>2. h.op = "deflate"
        BY <1>3, <3>1, <4>1
      <4>3. c \in overdue'
        BY <1>7, <3>1, <4>1
      <4>4. stream'[c] = {"deflate"}
        BY <1>2, <2>2, <3>1, <4>2
      <4>5. QED
        BY <4>1, <4>3, <4>4
    <3>2. CASE h.conn # c
      BY <1>2, <2>2, <3>2
    <3>3. QED
      BY <3>1, <3>2
  <2>3. QED
    BY <1>5, <2>1, <2>2 DEF Starts
<1>9. ASSUME NEW x \in cleaned
      PROVE  \/ stream'[x] = stream[x]
             \/ /\ \E h \in Job : Live(h) /\ h.conn = x
                /\ stream'[x] = stream[x] \cup {"deflate"} /\ x \in overdue
  <2>1. x # c /\ x \in Conn
    BY <1>1 DEF IInv, TypeOK
  <2>2. CASE stream' = closed
    BY <1>2, <2>1, <2>2
  <2>3. ASSUME NEW h \in Job, Live(h)', stream' = [closed EXCEPT ![h.conn] = @ \cup {h.op}]
        PROVE  \/ stream'[x] = stream[x]
               \/ /\ Live(h) /\ h.conn = x
                  /\ stream'[x] = stream[x] \cup {"deflate"} /\ x \in overdue
    <3>1. CASE h.conn = x
      <4>1. Live(h)
        BY <1>5, <2>3
      <4>2. h.op = "deflate" /\ x \in overdue
        BY <3>1, <4>1 DEF IInv, Leftover
      <4>3. QED
        BY <1>2, <2>1, <2>3, <3>1, <4>1, <4>2
    <3>2. CASE h.conn # x
      BY <1>2, <2>1, <2>3, <3>2
    <3>3. QED
      BY <3>1, <3>2
  <2>4. QED
    BY <1>5, <2>2, <2>3 DEF Starts
<1>10. Leftover'
  <2>1. SUFFICES ASSUME NEW x \in cleaned'
                 PROVE  /\ x \in destroyed
                        /\ stream'[x] # {} => x \in overdue' /\ stream'[x] = {"deflate"}
                        /\ \A j \in Job : Live(j)' /\ j.conn = x
                                            => j.op = "deflate" /\ x \in overdue'
    BY <1>1 DEF Leftover
  <2>2. CASE x = c
    BY <1>1, <1>3, <1>5, <1>7, <1>8, <2>2
  <2>3. CASE x \in cleaned
    <3>1. /\ x \in destroyed
          /\ stream[x] # {} => x \in overdue /\ stream[x] = {"deflate"}
          /\ \A j \in Job : Live(j) /\ j.conn = x => j.op = "deflate" /\ x \in overdue
      BY <2>3 DEF IInv, Leftover
    <3>2. x \in overdue => x \in overdue'
      BY <1>1
    <3>3. stream'[x] # {} => x \in overdue' /\ stream'[x] = {"deflate"}
      BY <1>9, <2>3, <3>1, <3>2
    <3>4. QED
      BY <1>5, <3>1, <3>2, <3>3
  <2>4. QED
    BY <1>1, <2>2, <2>3
<1>11. Interruption'
  <2>1. SUFFICES ASSUME NEW j \in late'
                 PROVE  /\ j.op = "deflate" /\ j.conn \in cleaned' /\ stream'[j.conn] = {}
                        /\ \A k \in Job : k.conn = j.conn => ~(Live(k)')
    BY DEF Interruption
  <2>2. CASE j \in late
    <3>1. /\ j.op = "deflate" /\ j.conn \in cleaned /\ stream[j.conn] = {}
          /\ \A k \in Job : k.conn = j.conn => ~Live(k)
      BY <2>2 DEF IInv, Interruption
    <3>2. stream'[j.conn] = {}
      BY <1>9, <3>1
    <3>3. QED
      BY <1>1, <1>5, <3>1, <3>2
  <2>3. CASE j \in Interrupted(c)
    BY <1>1, <1>5, <1>8, <2>3
  <2>4. QED
    BY <1>1, <2>2, <2>3
<1>12. QED
  BY <1>5, <1>6, <1>10, <1>11 DEF IInv

\* The flush callback of a closed stream finds no _deflate.
LEMMA LateFlushKeepsIInv ==
    ASSUME IInv, NEW j \in Job, LateFlush(j)
    PROVE  IInv' /\ UNCHANGED limiterVars
<1>1. /\ late' = late \ {j}
      /\ UNCHANGED <<limiterVars, answered, stream, destroyed, failed, cleaned, overdue>>
  BY DEF LateFlush, IInv, Interruption
<1>2. Proved!IInv'
  BY <1>1, LimiterRests DEF IInv
<1>3. \A k : Live(k)' <=> Live(k)
  BY <1>1 DEF limiterVars, Live, Waits, Was
<1>4. TypeOK'
  <2>1. TheLimiter!TypeOK'
    BY <1>2 DEF Proved!IInv, Proved!TypeOK, TheLimiter!TypeOK
  <2>2. QED
    BY <1>1, <2>1 DEF IInv, TypeOK
<1>5. Answers' /\ OneEach'
  BY <1>1, <1>3 DEF IInv, Answers, OneEach, limiterVars, Was
<1>6. Leftover' /\ Interruption'
  BY <1>1, <1>3 DEF IInv, Leftover, Interruption
<1>7. QED
  BY <1>1, <1>2, <1>4, <1>5, <1>6 DEF IInv

LEMMA RestKeepsIInv ==
    ASSUME IInv, UNCHANGED <<limiterVars, answered, stream, late, failed, cleaned, overdue>>,
           destroyed \subseteq destroyed', destroyed' \subseteq Conn
    PROVE  IInv'
<1>1. Proved!IInv'
  BY LimiterRests DEF IInv
<1>2. \A k : Live(k)' <=> Live(k)
  BY DEF limiterVars, Live, Waits, Was
<1>3. TypeOK'
  <2>1. TheLimiter!TypeOK'
    BY <1>1 DEF Proved!IInv, Proved!TypeOK, TheLimiter!TypeOK
  <2>2. QED
    BY <2>1 DEF IInv, TypeOK
<1>4. Answers' /\ OneEach'
  BY <1>2 DEF IInv, Answers, OneEach, limiterVars, Was
<1>5. Leftover' /\ Interruption'
  BY <1>2 DEF IInv, Leftover, Interruption
<1>6. QED
  BY <1>1, <1>3, <1>4, <1>5 DEF IInv

-----------------------------------------------------------------------------
(***************************************************************************)
(* The theorems                                                            *)
(***************************************************************************)

LEMMA InitIInv == Init => IInv
<1> SUFFICES ASSUME Init PROVE IInv
  OBVIOUS
<1>1. Proved!IInv
  BY LimiterInit DEF Init
<1>2. \A k : ~Live(k)
  BY DEF Init, TheLimiter!Init, Live, Waits, Was
<1>3. TypeOK
  BY <1>1 DEF Init, TypeOK, Proved!IInv, Proved!TypeOK, TheLimiter!TypeOK
<1>4. Answers /\ OneEach /\ Leftover /\ Interruption
  BY <1>2 DEF Init, Answers, OneEach, Leftover, Interruption
<1>5. QED
  BY <1>1, <1>3, <1>4 DEF IInv

\* Every step keeps the invariant and is a step of the limiter or leaves it alone.
LEMMA NextKeepsIInv ==
    ASSUME IInv, [Next]_vars
    PROVE  IInv' /\ [TheLimiter!Next]_(TheLimiter!vars)
<1>1. ASSUME NEW c \in Conn, Compress(c)
      PROVE  IInv' /\ \E j \in Job : TheLimiter!Add(j)
  <2>1. c \notin cleaned
    BY <1>1 DEF Compress, IInv, Leftover
  <2>2. "deflate" \in Op /\ Call(c, "deflate")
    BY <1>1 DEF Op, Compress
  <2>3. QED
    BY <2>1, <2>2, CallKeepsIInv
<1>2. ASSUME NEW c \in Conn, Decompress(c)
      PROVE  IInv' /\ \E j \in Job : TheLimiter!Add(j)
  <2>1. "inflate" \in Op /\ Call(c, "inflate") /\ c \notin cleaned
    BY <1>2 DEF Op, Decompress
  <2>2. QED
    BY <2>1, CallKeepsIInv
<1>3. ASSUME NEW c \in Conn, SocketDestroyed(c)
      PROVE  IInv' /\ UNCHANGED limiterVars
  <2>1. /\ UNCHANGED <<limiterVars, answered, stream, late, failed, cleaned, overdue>>
        /\ destroyed \subseteq destroyed' /\ destroyed' \subseteq Conn
    BY <1>3 DEF SocketDestroyed, IInv, TypeOK
  <2>2. QED
    BY <2>1, RestKeepsIInv
<1>4. ASSUME UNCHANGED vars PROVE IInv' /\ UNCHANGED limiterVars
  <2>1. /\ UNCHANGED <<limiterVars, answered, stream, late, failed, cleaned, overdue>>
        /\ destroyed \subseteq destroyed' /\ destroyed' \subseteq Conn
    BY <1>4 DEF vars, IInv, TypeOK
  <2>2. QED
    BY <2>1, RestKeepsIInv
<1>5. ASSUME NEW j \in Job, Zlib(j) PROVE IInv' /\ TheLimiter!Done(j)
  BY <1>5, DeflatedKeepsIInv, InflatedKeepsIInv DEF Zlib
<1>6. /\ UNCHANGED limiterVars => UNCHANGED TheLimiter!vars
      /\ \A j \in Job : TheLimiter!Add(j) \/ TheLimiter!Done(j) => TheLimiter!Next
  BY DEF limiterVars, TheLimiter!vars, TheLimiter!Next
<1>7. QED
  BY <1>1, <1>2, <1>3, <1>4, <1>5, <1>6, CleanupKeepsIInv, LateFlushKeepsIInv DEF Next

LEMMA Invariance == Spec => []IInv
<1>1. IInv /\ [Next]_vars => IInv'
  BY NextKeepsIInv
<1>2. QED
  BY InitIInv, <1>1, PTL DEF Spec

\* Streams, answers and the sets of connections keep their types.
THEOREM TypeCorrect == Spec => []TypeOK
<1>1. IInv => TypeOK
  BY DEF IInv
<1>2. QED
  BY Invariance, <1>1, PTL

\* cleanup() leaves a stream behind only for a message that waited in the limiter.
THEOREM StreamsAreClosed == Spec => []OnlyOverdueStreams
<1>1. IInv => OnlyOverdueStreams
  BY DEF IInv, Leftover, OnlyOverdueStreams
<1>2. QED
  BY Invariance, <1>1, PTL

\* No callback of compress() or decompress() is called twice.
THEOREM NoSecondAnswer == Spec => []AnsweredAtMostOnce
<1>1. IInv => AnsweredAtMostOnce
  BY DEF IInv, Answers, AnsweredAtMostOnce
<1>2. QED
  BY Invariance, <1>1, PTL

\* The safety part of UsesLimiterWell: every step of any connection is one add() of
\* a new job, one done() of a running job, or leaves the limiter alone.
THEOREM LimiterUsedWell ==
    Spec => TheLimiter!Init /\ [][TheLimiter!Next]_(TheLimiter!vars)
<1>1. Init => TheLimiter!Init
  BY DEF Init
<1>2. IInv /\ [Next]_vars => [TheLimiter!Next]_(TheLimiter!vars)
  BY NextKeepsIInv
<1>3. QED
  BY Invariance, <1>1, <1>2, PTL DEF Spec

\* What Limiter_proofs proves of a limiter that is used well holds of the one that
\* the connections share: never more streams at work than concurrencyLimit, no slot
\* idle while a call waits, and calls are started in the order they were made.
THEOREM SharedLimit ==
    Spec => [](/\ TheLimiter!NeverOverLimit
               /\ TheLimiter!WorkConserving
               /\ TheLimiter!StartedInOrder)
<1>1. IInv => /\ TheLimiter!NeverOverLimit
              /\ TheLimiter!WorkConserving
              /\ TheLimiter!StartedInOrder
  BY DEF IInv, Proved!IInv, Proved!NeverOverLimit, Proved!WorkConserving,
         Proved!StartedInOrder, TheLimiter!NeverOverLimit, TheLimiter!WorkConserving,
         TheLimiter!StartedInOrder, Proved!Cardinality, TheLimiter!Cardinality
<1>2. QED
  BY Invariance, <1>1, PTL

-----------------------------------------------------------------------------
(***************************************************************************)
(* Negotiation: a case analysis over the one offer that the client makes.  *)
(***************************************************************************)

\* A single offer is answered when it is well formed and can be honoured.
LEMMA OneOffer ==
    ASSUME NEW c \in Options, NEW s \in Options
    PROVE  AcceptAsServer(s, <<Offer(c)>>) =
             IF WellFormed(Offer(c), TRUE) /\ Honours(s, Offer(c))
             THEN {Answered(s, Offer(c))} ELSE {}
  <1> DEFINE o == Offer(c)
  <1>1. DOMAIN <<o>> = {1} /\ <<o>>[1] = o
    OBVIOUS
  <1>2. 1..(1 - 1) = {}
    OBVIOUS
  <1> HIDE DEF o
  <1>3. AcceptAsServer(s, <<o>>) =
          IF ~WellFormed(o, TRUE) THEN {}
          ELSE {Answered(s, <<o>>[i]) : i \in {i \in {1} : Honours(s, <<o>>[i])
                                   /\ \A j \in 1..(i - 1) : ~Honours(s, <<o>>[j])}}
    BY <1>1, Zenon DEF AcceptAsServer
  <1>4. {i \in {1} : Honours(s, <<o>>[i]) /\ \A j \in 1..(i - 1) : ~Honours(s, <<o>>[j])}
          = IF Honours(s, o) THEN {1} ELSE {}
    BY <1>1, <1>2
  <1>5. AcceptAsServer(s, <<o>>) =
          IF WellFormed(o, TRUE) /\ Honours(s, o) THEN {Answered(s, o)} ELSE {}
    <2>1. CASE Honours(s, o)
      BY <2>1, <1>1, <1>3, <1>4
    <2>2. CASE ~Honours(s, o)
      BY <2>2, <1>3, <1>4
    <2> QED
      BY <2>1, <2>2
  <1> QED
    BY <1>5 DEF o

\* The fields of an option record are what Options says they are.
LEMMA Fields ==
    ASSUME NEW o \in Options
    PROVE  /\ o.serverNoContextTakeover \in {0, 1, 2}
           /\ o.clientNoContextTakeover \in {0, 1, 2}
           /\ o.serverMaxWindowBits \in {0, 1, 2} \cup 8..15
           /\ o.clientMaxWindowBits \in {0, 1, 2} \cup 8..15
  <1>1. /\ o.serverNoContextTakeover \in {0, 1, 2}
        /\ o.clientNoContextTakeover \in {0, 1, 2}
        /\ o.serverMaxWindowBits \in {0, 1, 2} \cup Window
        /\ o.clientMaxWindowBits \in {0, 1, 2} \cup Window
    BY DEF Options, Unset, On, Off
  <1> QED
    BY <1>1, WindowAssumption

\* One pair of options: the server refuses the offer, or answers it and the client
\* takes the answer or rejects it.
LEMMA OnePair ==
    ASSUME NEW c \in Options, NEW s \in Options
    PROVE  Agreement(c, s)
  <1> DEFINE o == Offer(c)
             r == Answered(s, o)
  <1>1. WellFormed(o, TRUE) <=> c.serverMaxWindowBits # On
    BY Fields DEF WellFormed, Offer, Unset, On, Off
  <1>2. CASE ~(WellFormed(o, TRUE) /\ Honours(s, o))
    <2>1. AcceptAsServer(s, <<o>>) = {}
      BY <1>2, OneOffer
    <2>2. Conflict(c, s)
      <3>1. CASE ~WellFormed(o, TRUE)
        BY <1>1, <3>1 DEF Conflict
      <3>2. CASE ~Honours(s, o)
        BY <3>2, Fields DEF Conflict, Honours, Offer, IsNumber, Unset, On, Off
      <3> QED
        BY <1>2, <3>1, <3>2
    <2> QED
      BY <2>1, <2>2 DEF Agreement
  <1>3. CASE WellFormed(o, TRUE) /\ Honours(s, o)
    <2>1. AcceptAsServer(s, <<o>>) = {r}
      BY <1>3, OneOffer
    <2>2. Conflict(c, s) <=> AcceptAsClient(c, r) = {}
      <3>1. AcceptAsClient(c, r) = {} <=> Rejects(c, r)
        BY DEF AcceptAsClient
      <3>2. Conflict(c, s) <=> Rejects(c, r)
        BY <1>1, <1>3, Fields
        DEF Conflict, Honours, Offer, Answered, Rejects, WellFormed, IsNumber,
            Unset, On, Off
      <3> QED
        BY <3>1, <3>2
    <2>3. ASSUME NEW q \in AcceptAsClient(c, r)
          PROVE  Fits(q, r)
      BY <1>1, <1>3, Fields
      DEF Fits, Honours, Offer, Answered, AcceptAsClient, Rejects, WellFormed, IsNumber,
          WindowBits, Unset, On, Off
    <2>4. ASSUME NEW q \in AcceptAsClient(c, r)
          PROVE  Kept(c, s, q, r)
      BY <1>1, <1>3, Fields
      DEF Kept, Honours, Offer, Answered, AcceptAsClient, Rejects, WellFormed, IsNumber,
          WindowBits, Unset, On, Off
    <2> QED
      BY <2>1, <2>2, <2>3, <2>4 DEF Agreement
  <1> QED
    BY <1>2, <1>3

\* Whatever the options of the two ends (permessage-deflate.js, offer() and accept()),
\* they agree exactly when the options do not conflict, and then on parameters that fit.
THEOREM EndsAgree == NegotiationAgrees
  BY OnePair DEF NegotiationAgrees
=============================================================================
