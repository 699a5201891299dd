-------------------------- MODULE PerMessageDeflate --------------------------
(***************************************************************************)
(* The compression of all connections of the process                       *)
(* (src/ws/lib/permessage-deflate.js) over the one Limiter they share.     *)
(* Every call of compress() or decompress() is a job of the limiter; the   *)
(* job runs when the limiter starts it, and zlib answers later.  The       *)
(* answer calls done(), which may start the job of another connection in   *)
(* the same turn, and then the caller's callback.  cleanup() comes from    *)
(* emitClose() at any moment between these steps.                          *)
(***************************************************************************)
EXTENDS Naturals, Sequences, FiniteSets

CONSTANTS
    Conn,          \* connections that negotiated the extension
    Concurrency,   \* options.concurrencyLimit
    MaxCalls       \* bound: MaxCalls[op], calls of each kind per connection

Op == {"deflate", "inflate"}

ASSUME DeflateAssumption ==
    /\ Concurrency \in Nat \ {0}
    /\ MaxCalls \in [Op -> Nat]

\* The n-th call of compress() ("deflate") or decompress() ("inflate").
Job == UNION {[conn : Conn, op : {op}, n : 1..MaxCalls[op]] : op \in Op}

VARIABLES
    jobs, pending, running, added, started,   \* of the Limiter
    stream,        \* stream[c]: which of _deflate, _inflate is there
    answered,      \* answered[j]: how often the callback of j was called
    late,          \* jobs whose closed stream may still call the flush callback
    destroyed,     \* connections whose socket is destroyed
    failed,        \* connections whose receiver failed
    cleaned,       \* connections after cleanup()
    overdue        \* history: connections with a job in the queue at cleanup()

limiterVars == <<jobs, pending, running, added, started>>
vars == <<limiterVars, stream, answered, late, destroyed, failed, cleaned, overdue>>

TheLimiter == INSTANCE Limiter

TypeOK ==
    /\ TheLimiter!TypeOK
    /\ stream \in [Conn -> SUBSET Op]
    /\ answered \in [Job -> Nat]
    /\ late \in SUBSET Job
    /\ destroyed \subseteq Conn
    /\ failed \subseteq Conn
    /\ cleaned \subseteq Conn
    /\ overdue \subseteq Conn

Init ==
    /\ TheLimiter!Init
    /\ stream = [c \in Conn |-> {}]
    /\ answered = [j \in Job |-> 0]
    /\ late = {}
    /\ destroyed = {}
    /\ failed = {}
    /\ cleaned = {}
    /\ overdue = {}

Was(s, j) == \E i \in 1..Len(s) : s[i] = j

\* The calls of connection c that were not answered yet.
Outstanding(c, op) ==
    {j \in Job : j.conn = c /\ j.op = op /\ Was(added, j) /\ answered[j] = 0}

Calls(c, op) == Cardinality({j \in Job : j.conn = c /\ j.op = op /\ Was(added, j)})

\* The streams after a step of the limiter that may have started a job: the
\* job creates the stream if there is none (_compress, _decompress).
Opened(s) ==
    IF Len(started') = Len(started) THEN s
    ELSE LET j == started'[Len(started')] IN [s EXCEPT ![j.conn] = @ \cup {j.op}]

-----------------------------------------------------------------------------
(***************************************************************************)
(* The callers.  The sender compresses one message at a time and none once *)
(* the socket is destroyed; the receiver inflates one message at a time,   *)
(* goes on with what it holds after the socket is gone and stops at its    *)
(* first error.                                                            *)
(***************************************************************************)
Call(c, op) ==
    /\ Outstanding(c, op) = {}
    /\ Calls(c, op) < MaxCalls[op]
    /\ TheLimiter!Add([conn |-> c, op |-> op, n |-> Calls(c, op) + 1])
    /\ stream' = Opened(stream)
    /\ UNCHANGED <<answered, late, destroyed, failed, cleaned, overdue>>

Compress(c) == c \notin destroyed /\ Call(c, "deflate")

\* Mutant of Decompress: the receiver goes on after 'close'.
DecompressAnyway(c) == c \notin failed /\ Call(c, "inflate")

Decompress(c) == c \notin failed \cup cleaned /\ Call(c, "inflate")

SocketDestroyed(c) ==
    /\ c \notin destroyed
    /\ destroyed' = destroyed \cup {c}
    /\ UNCHANGED <<limiterVars, stream, answered, late, failed, cleaned, overdue>>

-----------------------------------------------------------------------------
(***************************************************************************)
(* zlib's answers                                                          *)
(***************************************************************************)

\* The callback that compress() and decompress() wrap: done(), then the caller's.
Answer(j, s) ==
    /\ TheLimiter!Done(j)
    /\ answered' = [answered EXCEPT ![j] = @ + 1]
    /\ stream' = Opened(s)

\* The flush callback of _compress, of a stream that is still there.
Deflated(j) ==
    /\ j \in running
    /\ j.op = "deflate"
    /\ "deflate" \in stream[j.conn]
    /\ Answer(j, stream)
    /\ UNCHANGED <<late, destroyed, failed, cleaned, overdue>>

\* What an inflate stream may come to: a message, one that ended the stream, more
\* than maxPayload (inflateOnData, 1009), or an 'error' (inflateOnError, 1007).
Outcome == {"data", "end", "too large", "corrupt"}

\* The flush callback of _decompress, or the 'error' event in its place.  All
\* outcomes but the first leave no stream behind.
Inflated(j, outcome) ==
    /\ j \in running
    /\ j.op = "inflate"
    /\ Answer(j, IF outcome = "data" THEN stream
                 ELSE [stream EXCEPT ![j.conn] = @ \ {"inflate"}])
    /\ failed' = IF outcome \in {"data", "end"} THEN failed ELSE failed \cup {j.conn}
    /\ UNCHANGED <<late, destroyed, cleaned, overdue>>

-----------------------------------------------------------------------------
(***************************************************************************)
(* cleanup()                                                               *)
(***************************************************************************)

\* emitClose(): the socket is gone and the receiver has finished or failed, so that
\* nothing is left to inflate (MayFinish in WebSocketOps).
MayCleanup(c) ==
    /\ c \in destroyed \ cleaned
    /\ Outstanding(c, "inflate") = {}

\* _deflate[kCallback]: set while the stream works on a job.
Interrupted(c) == {j \in running : j.conn = c /\ j.op = "deflate"}

\* Mutant of Cleanup: the interrupted job is not told.
CleanupSilently(c) ==
    /\ MayCleanup(c)
    /\ stream' = [stream EXCEPT ![c] = {}]
    /\ cleaned' = cleaned \cup {c}
    /\ overdue' = IF \E i \in 1..Len(jobs) : jobs[i].conn = c
                  THEN overdue \cup {c} ELSE overdue
    /\ late' = late \cup Interrupted(c)
    /\ UNCHANGED <<limiterVars, answered, destroyed, failed>>

\* Both streams are closed; the job the deflate stream was working on is
\* answered with an error.  A job that still waits in the limiter is not.
Cleanup(c) ==
    /\ MayCleanup(c)
    /\ LET closed == [stream EXCEPT ![c] = {}]
       IN  IF Interrupted(c) = {}
           THEN stream' = closed /\ UNCHANGED <<limiterVars, answered>>
           ELSE \E j \in Interrupted(c) : Answer(j, closed)
    /\ cleaned' = cleaned \cup {c}
    /\ overdue' = IF \E i \in 1..Len(jobs) : jobs[i].conn = c
                  THEN overdue \cup {c} ELSE overdue
    /\ late' = late \cup Interrupted(c)
    /\ UNCHANGED <<destroyed, failed>>

\* The rest of the flush callback of an interrupted job: done() once more.
AnswerAgain(j) ==
    /\ TheLimiter!Run(jobs, pending - 1, running \ {j})
    /\ UNCHANGED added
    /\ answered' = [answered EXCEPT ![j] = @ + 1]
    /\ stream' = Opened(stream)

\* Mutant of LateFlush: without the test of _deflate.
LateFlushAnswers(j) ==
    /\ j \in late
    /\ late' = late \ {j}
    /\ AnswerAgain(j)
    /\ UNCHANGED <<destroyed, failed, cleaned, overdue>>

\* zlib finishes with a stream that cleanup() closed: the flush callback of
\* _compress returns at once if _deflate is gone.
LateFlush(j) ==
    /\ j \in late
    /\ late' = late \ {j}
    /\ IF "deflate" \in stream[j.conn] THEN AnswerAgain(j)
       ELSE UNCHANGED <<limiterVars, answered, stream>>
    /\ UNCHANGED <<destroyed, failed, cleaned, overdue>>

-----------------------------------------------------------------------------
Zlib(j) ==
    \/ Deflated(j)
    \/ \E outcome \in Outcome : Inflated(j, outcome)

Next ==
    \/ \E c \in Conn : Compress(c) \/ Decompress(c) \/ SocketDestroyed(c) \/ Cleanup(c)
    \/ \E j \in Job : Zlib(j) \/ LateFlush(j)

\* zlib answers what it works on.
Fairness == \A j \in Job : WF_vars(Zlib(j))

Spec == Init /\ [][Next]_vars /\ Fairness

-----------------------------------------------------------------------------
(***************************************************************************)
(* Properties                                                              *)
(***************************************************************************)

\* The limiter is used as it has to be: every step is one add() of a new job,
\* one done() of a running one or none, and every running job is done in the
\* end.  A job done twice, or never, would change the limit for every
\* connection of the process.
UsesLimiterWell == TheLimiter!Spec

\* Every compress() and decompress() calls its callback in the end, also when
\* the connection is cleaned up while the job waits or runs: the sender's queue
\* and the receiver's loop wait for it.
EveryCallIsAnswered ==
    \A c \in Conn, op \in Op : (Outstanding(c, op) # {}) ~> (Outstanding(c, op) = {})

\* After cleanup() the only stream a connection may still have is the one that
\* is created for a message that waited in the limiter: cleanup() does not see
\* it, and nothing closes that stream.
OnlyOverdueStreams ==
    \A c \in cleaned : stream[c] # {} => c \in overdue /\ stream[c] = {"deflate"}
=============================================================================
