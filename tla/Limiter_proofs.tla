---------------------------- MODULE Limiter_proofs ----------------------------
(***************************************************************************)
(* Proofs about Limiter, for every set of jobs and every limit.            *)
(***************************************************************************)
EXTENDS Limiter, FiniteSetTheorems, SequenceTheorems, TLAPS

\* No job is added twice (the history of a run, not a fact about the code).
AddedOnce ==
    \A i, k \in 1..Len(added) : added[i] = added[k] => i = k

\* What is running was started.
RunningStarted ==
    \A j \in running : \E i \in 1..Len(started) : started[i] = j

(***************************************************************************)
(* The inductive invariant.  NeverOverLimit counts the running set, so the *)
(* induction needs that the job taken from the queue is not running yet:   *)
(* that follows from the order of the starts and AddedOnce.                *)
(***************************************************************************)
IInv ==
    /\ TypeOK
    /\ NeverOverLimit
    /\ WorkConserving
    /\ StartedInOrder
    /\ IsFiniteSet(running)
    /\ AddedOnce
    /\ RunningStarted

\* The effect of kRun: from a queue, a count and a running set that agree,
\* one call re-establishes every part of the invariant but the history of adds.
LEMMA RunKeeps ==
    ASSUME NEW q \in Seq(Job), NEW p \in Nat, NEW r \in SUBSET Job,
           NEW a \in Seq(Job), started \in Seq(Job),
           IsFiniteSet(r), p = Cardinality(r), p <= Concurrency,
           started \o q = a,
           \A i, k \in 1..Len(a) : a[i] = a[k] => i = k,
           \A j \in r : \E i \in 1..Len(started) : started[i] = j,
           p = Concurrency \/ Len(q) <= 1 \/ p + 1 = Concurrency,
           Run(q, p, r)
    PROVE  /\ jobs' \in Seq(Job) /\ pending' \in Nat /\ running' \in SUBSET Job
           /\ started' \in Seq(Job)
           /\ IsFiniteSet(running')
           /\ pending' = Cardinality(running')
           /\ pending' <= Concurrency
           /\ jobs' # <<>> => pending' = Concurrency
           /\ started' \o jobs' = a
           /\ \A j \in running' : \E i \in 1..Len(started') : started'[i] = j
<1> USE ConcurrencyAssumption
<1>1. CASE p # Concurrency /\ q # <<>>
  <2> DEFINE h == Head(q)
  <2>1. /\ h \in Job /\ Tail(q) \in Seq(Job) /\ Len(q) \in Nat \ {0}
        /\ Len(Tail(q)) = Len(q) - 1
        /\ q = <<h>> \o Tail(q)
    BY <1>1, HeadTailProperties, EmptySeq
  <2>2. /\ jobs' = Tail(q) /\ pending' = p + 1 /\ running' = r \cup {h}
        /\ started' = Append(started, h)
    BY <1>1 DEF Run
  <2>3. h \notin r
    <3>1. SUFFICES ASSUME h \in r PROVE FALSE
      OBVIOUS
    <3>2. PICK i \in 1..Len(started) : started[i] = h
      BY <3>1
    <3>3. Len(a) = Len(started) + Len(q) /\ a[i] = h /\ a[Len(started) + 1] = h
      BY <2>1, <3>2, ConcatProperties
    <3>4. QED
      BY <2>1, <3>2, <3>3
  <2>4. /\ IsFiniteSet(r \cup {h}) /\ Cardinality(r \cup {h}) = p + 1
    BY <2>3, FS_AddElement
  <2>5. started' \o jobs' = a
    <3>1. Append(started, h) = started \o <<h>>
      BY <2>1, AppendIsConcat
    <3>2. (started \o <<h>>) \o Tail(q) = started \o (<<h>> \o Tail(q))
      BY SMTT(40), <2>1, ConcatAssociative
    <3>3. QED
      BY <2>1, <2>2, <3>1, <3>2
  <2>6. \A j \in running' : \E i \in 1..Len(started') : started'[i] = j
    <3>1. /\ Len(started') = Len(started) + 1
          /\ \A i \in 1..Len(started) : started'[i] = started[i]
          /\ started'[Len(started) + 1] = h
      BY <2>1, <2>2, AppendProperties
    <3>2. QED
      BY <2>2, <3>1
  <2>7. jobs' # <<>> => pending' = Concurrency
    BY <1>1, <2>1, <2>2, EmptySeq
  <2>8. p + 1 <= Concurrency
    BY <1>1
  <2>9. /\ jobs' \in Seq(Job) /\ pending' \in Nat /\ running' \in SUBSET Job
        /\ started' \in Seq(Job)
    BY <2>1, <2>2, AppendProperties
  <2>10. /\ IsFiniteSet(running') /\ pending' = Cardinality(running')
         /\ pending' <= Concurrency
    BY <2>2, <2>4, <2>8
  <2>11. QED
    BY <2>5, <2>6, <2>7, <2>9, <2>10
<1>2. CASE ~(p # Concurrency /\ q # <<>>)
  <2>1. /\ jobs' = q /\ pending' = p /\ running' = r /\ started' = started
    BY <1>2 DEF Run
  <2>2. QED
    BY <1>2, <2>1
<1>3. QED
  BY <1>1, <1>2

LEMMA InitIInv == Init => IInv
<1> SUFFICES ASSUME Init PROVE IInv
  OBVIOUS
<1>1. IsFiniteSet({}) /\ Cardinality({}) = 0
  BY FS_EmptySet
<1>2. TypeOK
  BY EmptySeq DEF Init, TypeOK
<1>3. StartedInOrder
  BY ConcatEmptySeq, EmptySeq DEF Init, StartedInOrder
<1>4. QED
  BY <1>1, <1>2, <1>3, ConcurrencyAssumption
  DEF IInv, Init, NeverOverLimit, WorkConserving, AddedOnce, RunningStarted

LEMMA AddKeepsIInv ==
    ASSUME IInv, NEW j \in Job, Add(j)
    PROVE  IInv'
<1> USE ConcurrencyAssumption
<1> DEFINE q == Append(jobs, j)
           a == Append(added, j)
<1>1. /\ jobs \in Seq(Job) /\ started \in Seq(Job) /\ added \in Seq(Job)
      /\ pending \in Nat /\ running \in SUBSET Job /\ IsFiniteSet(running)
      /\ pending = Cardinality(running) /\ pending <= Concurrency
  BY DEF IInv, TypeOK, NeverOverLimit
<1>2. q \in Seq(Job) /\ a \in Seq(Job) /\ Len(q) = Len(jobs) + 1
  BY <1>1, AppendProperties
<1>3. started \o q = a
  <2>1. started \o (jobs \o <<j>>) = (started \o jobs) \o <<j>>
    BY <1>1, ConcatAssociative
  <2>2. q = jobs \o <<j>> /\ a = added \o <<j>>
    BY <1>1, AppendIsConcat
  <2>3. QED
    BY <2>1, <2>2 DEF IInv, StartedInOrder
<1>4. \A i, k \in 1..Len(a) : a[i] = a[k] => i = k
  <2>1. /\ Len(a) = Len(added) + 1 /\ a[Len(added) + 1] = j
        /\ \A i \in 1..Len(added) : a[i] = added[i]
    BY <1>1, AppendProperties
  <2>2. \A i \in 1..Len(added) : added[i] # j
    BY DEF Add, Fresh
  <2>3. Len(added) \in Nat
    BY <1>1, LenProperties
  <2>4. \A i, k \in 1..Len(added) : added[i] = added[k] => i = k
    BY DEF IInv, AddedOnce
  <2>5. SUFFICES ASSUME NEW i \in 1..Len(a), NEW k \in 1..Len(a), a[i] = a[k]
                 PROVE  i = k
    OBVIOUS
  <2> HIDE DEF a
  <2>6. CASE i \in 1..Len(added) /\ k \in 1..Len(added)
    BY <2>1, <2>4, <2>5, <2>6
  <2>7. CASE i \in 1..Len(added) /\ k = Len(added) + 1
    BY <2>1, <2>2, <2>5, <2>7
  <2>8. CASE i = Len(added) + 1 /\ k \in 1..Len(added)
    BY <2>1, <2>2, <2>5, <2>8
  <2>9. CASE i = Len(added) + 1 /\ k = Len(added) + 1
    BY <2>9
  <2>10. QED
    BY <2>1, <2>3, <2>6, <2>7, <2>8, <2>9
<1>5. pending = Concurrency \/ Len(q) <= 1 \/ pending + 1 = Concurrency
  <2>1. pending # Concurrency => jobs = <<>>
    BY DEF IInv, WorkConserving
  <2>2. jobs = <<>> => Len(jobs) = 0
    BY EmptySeq
  <2>3. QED
    BY <1>2, <2>1, <2>2
<1>6. Run(q, pending, running)
  BY DEF Add
<1>7. \A x \in running : \E i \in 1..Len(started) : started[i] = x
  BY DEF IInv, RunningStarted
<1>8. added' = a
  BY DEF Add
<1> HIDE DEF q, a
<1>9. /\ jobs' \in Seq(Job) /\ pending' \in Nat /\ running' \in SUBSET Job
      /\ started' \in Seq(Job)
      /\ IsFiniteSet(running')
      /\ pending' = Cardinality(running')
      /\ pending' <= Concurrency
      /\ jobs' # <<>> => pending' = Concurrency
      /\ started' \o jobs' = a
      /\ \A x \in running' : \E i \in 1..Len(started') : started'[i] = x
  BY <1>1, <1>2, <1>3, <1>4, <1>5, <1>6, <1>7, RunKeeps
<1>10. QED
  BY <1>2, <1>4, <1>8, <1>9
  DEF IInv, TypeOK, NeverOverLimit, WorkConserving, StartedInOrder, AddedOnce,
      RunningStarted

LEMMA DoneKeepsIInv ==
    ASSUME IInv, NEW j \in Job, Done(j)
    PROVE  IInv'
<1> USE ConcurrencyAssumption
<1> DEFINE r == running \ {j}
<1>1. /\ jobs \in Seq(Job) /\ started \in Seq(Job) /\ added \in Seq(Job)
      /\ pending \in Nat /\ running \in SUBSET Job /\ IsFiniteSet(running)
      /\ pending = Cardinality(running) /\ pending <= Concurrency
  BY DEF IInv, TypeOK, NeverOverLimit
<1>2. IsFiniteSet(r) /\ Cardinality(r) = pending - 1 /\ pending - 1 \in Nat
  <2>1. j \in running
    BY DEF Done
  <2>2. IsFiniteSet(r) /\ Cardinality(r) = Cardinality(running) - 1
    BY <1>1, <2>1, FS_RemoveElement
  <2>3. Cardinality(r) \in Nat
    BY <2>2, FS_CardinalityType
  <2>4. QED
    BY <1>1, <2>2, <2>3
<1>3. pending - 1 = Concurrency \/ Len(jobs) <= 1 \/ (pending - 1) + 1 = Concurrency
  <2>1. pending # Concurrency => jobs = <<>>
    BY DEF IInv, WorkConserving
  <2>2. jobs = <<>> => Len(jobs) = 0
    BY EmptySeq
  <2>3. QED
    BY <1>1, <2>1, <2>2
<1>4. \A i, k \in 1..Len(added) : added[i] = added[k] => i = k
  BY DEF IInv, AddedOnce
<1>5. \A x \in r : \E i \in 1..Len(started) : started[i] = x
  BY DEF IInv, RunningStarted
<1>6. started \o jobs = added
  BY DEF IInv, StartedInOrder
<1>7. Run(jobs, pending - 1, r) /\ added' = added
  BY DEF Done
<1>8. r \in SUBSET Job /\ pending - 1 <= Concurrency
  BY <1>1
<1>9. QED
  BY <1>1, <1>2, <1>3, <1>4, <1>5, <1>6, <1>7, <1>8, RunKeeps
  DEF IInv, TypeOK, NeverOverLimit, WorkConserving, StartedInOrder, AddedOnce,
      RunningStarted

LEMMA IInvInvariant == Spec => []IInv
<1>1. IInv /\ [Next]_vars => IInv'
  <2> SUFFICES ASSUME IInv, [Next]_vars PROVE IInv'
    OBVIOUS
  <2>1. ASSUME NEW j \in Job, Add(j) PROVE IInv'
    BY <2>1, AddKeepsIInv
  <2>2. ASSUME NEW j \in Job, Done(j) PROVE IInv'
    BY <2>2, DoneKeepsIInv
  <2>3. CASE UNCHANGED vars
    BY <2>3 DEF vars, IInv, TypeOK, NeverOverLimit, WorkConserving,
                StartedInOrder, AddedOnce, RunningStarted
  <2>4. QED
    BY <2>1, <2>2, <2>3 DEF Next
<1>2. QED
  BY InitIInv, <1>1, PTL DEF Spec

\* Limiter's variables keep their types.
THEOREM TypeCorrect == Spec => []TypeOK
<1>1. IInv => TypeOK
  BY DEF IInv
<1>2. QED
  BY IInvInvariant, <1>1, PTL

\* For every limit: the zlib calls in flight never exceed it, and the counter
\* is their exact number.
THEOREM LimitHolds == Spec => []NeverOverLimit
<1>1. IInv => NeverOverLimit
  BY DEF IInv
<1>2. QED
  BY IInvInvariant, <1>1, PTL

\* A job waits only behind a full limiter, although kRun starts one job per
\* call: no slot is lost between a done() and the next add().
THEOREM SlotsAreUsed == Spec => []WorkConserving
<1>1. IInv => WorkConserving
  BY DEF IInv
<1>2. QED
  BY IInvInvariant, <1>1, PTL

\* Jobs start once each, in the order in which they were added.
THEOREM FirstComeFirstServed == Spec => []StartedInOrder
<1>1. IInv => StartedInOrder
  BY DEF IInv
<1>2. QED
  BY IInvInvariant, <1>1, PTL
=============================================================================
