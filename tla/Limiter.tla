------------------------------- MODULE Limiter -------------------------------
(***************************************************************************)
(* The job queue of src/ws/lib/limiter.js.  One instance of it, the        *)
(* module-level zlibLimiter of permessage-deflate.js, is shared by every   *)
(* compressed WebSocket connection of the process: a connection adds one   *)
(* job per message to deflate or inflate and the zlib callback calls the   *)
(* job's done().  A job is started synchronously inside add() or done();   *)
(* zlib always answers later, so done() is never called while a job is     *)
(* being started.                                                          *)
(***************************************************************************)
EXTENDS Naturals, Sequences, FiniteSets

CONSTANTS Job,          \* the jobs that may be added, each once
          Concurrency   \* options.concurrencyLimit, 10 by default

ASSUME ConcurrencyAssumption == Concurrency \in Nat \ {0}

VARIABLES jobs,      \* Limiter#jobs, the queue of jobs not started yet
          pending,   \* Limiter#pending
          running,   \* history: the jobs started whose done() is still to come
          added,     \* history: every job added, in the order of the calls
          started    \* history: every job started, in the order of the starts

vars == <<jobs, pending, running, added, started>>

TypeOK ==
    /\ jobs \in Seq(Job)
    /\ pending \in Nat
    /\ running \in SUBSET Job
    /\ added \in Seq(Job)
    /\ started \in Seq(Job)

Init ==
    /\ jobs = <<>>
    /\ pending = 0
    /\ running = {}
    /\ added = <<>>
    /\ started = <<>>

\* Mutants of Run: no test of the limit; pop() in place of shift().
RunUnlimited(q, p, r) ==
    /\ jobs' = IF q = <<>> THEN q ELSE Tail(q)
    /\ pending' = IF q = <<>> THEN p ELSE p + 1
    /\ running' = IF q = <<>> THEN r ELSE r \cup {Head(q)}
    /\ started' = IF q = <<>> THEN started ELSE Append(started, Head(q))

RunLast(q, p, r) ==
    LET last == q[Len(q)]
    IN  IF p # Concurrency /\ q # <<>>
        THEN /\ jobs' = SubSeq(q, 1, Len(q) - 1)
             /\ pending' = p + 1
             /\ running' = r \cup {last}
             /\ started' = Append(started, last)
        ELSE /\ jobs' = q
             /\ pending' = p
             /\ running' = r
             /\ UNCHANGED started

(***************************************************************************)
(* Limiter#[kRun], entered with queue q, p pending jobs and the set r of   *)
(* running ones: at most one job is started, and none when p has reached   *)
(* the limit (the code tests for equality).                                *)
(***************************************************************************)
Run(q, p, r) ==
    IF p # Concurrency /\ q # <<>>
    THEN /\ jobs' = Tail(q)
         /\ pending' = p + 1
         /\ running' = r \cup {Head(q)}
         /\ started' = Append(started, Head(q))
    ELSE /\ jobs' = q
         /\ pending' = p
         /\ running' = r
         /\ UNCHANGED started

Fresh(j) == \A i \in 1..Len(added) : added[i] # j

\* Limiter#add: push the job, then run.
Add(j) ==
    /\ Fresh(j)
    /\ added' = Append(added, j)
    /\ Run(Append(jobs, j), pending, running)

\* Mutant of Done: done() does not run the next job.
DoneWithoutRun(j) ==
    /\ j \in running
    /\ pending' = pending - 1
    /\ running' = running \ {j}
    /\ UNCHANGED <<jobs, added, started>>

\* Limiter#[kDone], called by the zlib callback of a running job.
Done(j) ==
    /\ j \in running
    /\ UNCHANGED added
    /\ Run(jobs, pending - 1, running \ {j})

Next == \E j \in Job : Add(j) \/ Done(j)

(***************************************************************************)
(* zlib answers every job it was given (cleanup() answers the deflate job  *)
(* it interrupts); nothing forces a job to be added.                       *)
(***************************************************************************)
Fairness == \A j \in Job : WF_vars(Done(j))

Spec == Init /\ [][Next]_vars /\ Fairness

-----------------------------------------------------------------------------
(***************************************************************************)
(* Properties                                                              *)
(***************************************************************************)

\* Never more jobs at the zlib thread pool than the limit, and `pending`,
\* which the equality test of kRun relies on, is exactly their number: a
\* count that skipped the limit would let every later job through.
NeverOverLimit ==
    /\ pending = Cardinality(running)
    /\ pending <= Concurrency

\* A job waits only while the limiter is full: kRun starts one job per call,
\* so a call to done() or add() that did not run one would leave a free slot
\* idle next to a waiting job for ever.
WorkConserving == jobs # <<>> => pending = Concurrency

\* Jobs start in the order in which they were added, none is lost and none is
\* started twice: messages of one connection are inflated in order.
StartedInOrder == started \o jobs = added

\* Every job added is started, whoever shares the limiter with it.
EveryJobStarts ==
    \A j \in Job : (\E i \in 1..Len(added) : added[i] = j)
                      ~> (\E i \in 1..Len(started) : started[i] = j)
=============================================================================
