------------------------- MODULE HashingPool_proofs -------------------------
(***************************************************************************)
(* HashingPool for any number of calls and workers and any queue size: the *)
(* safety properties, and that it implements HashingService.               *)
(***************************************************************************)
EXTENDS HashingPool, FiniteSetTheorems, SequenceTheorems, TLAPS

\* What a call can be before it is accepted, and what a result channel holds.
CallsInv == \A r \in Requests :
    /\ caller[r] \in {"new", "refused"} =>
          r \notin ToSet(tasks) /\ r \notin Busy /\ resultCh[r] = <<>>
    /\ resultCh[r] \in {<<>>, <<r>>}

\* The queue holds no call twice, and no call that a worker has.
PlaceInv ==
    /\ IsInjective(tasks)
    /\ ToSet(tasks) \cap Busy = {}
    /\ \A v, w \in Workers : (worker[v] \in Requests /\ worker[v] = worker[w]) => v = w
    /\ \A r \in ToSet(tasks) \cup Busy : resultCh[r] = <<>> /\ caller[r] # "answered"

\* A receive from a channel that holds a task does not block.
ParkedOnlyWhenEmpty == (\E w \in Workers : worker[w] = Parked) => tasks = <<>>

IInv == TypeOK /\ CallsInv /\ PlaceInv /\ AnswerIsOwn /\ ParkedOnlyWhenEmpty

-----------------------------------------------------------------------------
(* The channel as a set.                                                   *)

LEMMA EmptyChannel == ToSet(<<>>) = {} /\ IsInjective(<<>>)
  BY DEF ToSet, IsInjective

LEMMA AppendChannel ==
    ASSUME NEW S, NEW s \in Seq(S), NEW x \in S
    PROVE  /\ ToSet(Append(s, x)) = ToSet(s) \cup {x}
           /\ (IsInjective(s) /\ x \notin ToSet(s)) => IsInjective(Append(s, x))
  BY DEF ToSet, IsInjective

LEMMA TailChannel ==
    ASSUME NEW S, NEW s \in Seq(S), s # <<>>, IsInjective(s)
    PROVE  /\ Head(s) \in S /\ Tail(s) \in Seq(S) /\ Len(Tail(s)) = Len(s) - 1
           /\ Head(s) \in ToSet(s)
           /\ ToSet(Tail(s)) = ToSet(s) \ {Head(s)}
           /\ IsInjective(Tail(s))
  <1>1. /\ Len(s) \in Nat \ {0} /\ DOMAIN s = 1..Len(s)
        /\ \A i \in 1..Len(s) : s[i] \in S
    OBVIOUS
  <1>2. /\ Head(s) = s[1] /\ Tail(s) \in Seq(S) /\ Len(Tail(s)) = Len(s) - 1
        /\ \A i \in 1..(Len(s) - 1) : Tail(s)[i] = s[i + 1]
    OBVIOUS
  <1>3. DOMAIN Tail(s) = 1..(Len(s) - 1)
    BY <1>2
  <1>4. Head(s) \in S /\ Head(s) \in ToSet(s)
    BY <1>1, <1>2 DEF ToSet
  <1>5. IsInjective(Tail(s))
    BY <1>1, <1>2, <1>3 DEF IsInjective
  <1>6. ASSUME NEW x \in ToSet(Tail(s)) PROVE x \in ToSet(s) \ {Head(s)}
    <2>1. PICK i \in 1..(Len(s) - 1) : x = Tail(s)[i]
      BY <1>3, <1>6 DEF ToSet
    <2>2. i + 1 \in 1..Len(s) /\ x = s[i + 1]
      BY <1>1, <1>2, <2>1
    <2>3. s[i + 1] # s[1]
      BY <1>1, <2>2 DEF IsInjective
    <2> QED
      BY <1>1, <1>2, <2>2, <2>3 DEF ToSet
  <1>7. ASSUME NEW x \in ToSet(s) \ {Head(s)} PROVE x \in ToSet(Tail(s))
    <2>1. PICK j \in 1..Len(s) : x = s[j]
      BY <1>1, <1>7 DEF ToSet
    <2>2. j # 1
      BY <1>2, <1>7, <2>1
    <2>3. j - 1 \in 1..(Len(s) - 1) /\ x = Tail(s)[j - 1]
      BY <1>1, <1>2, <2>1, <2>2
    <2> QED
      BY <1>3, <2>3 DEF ToSet
  <1> QED
    BY <1>2, <1>4, <1>5, <1>6, <1>7

-----------------------------------------------------------------------------
USE PoolAssumption DEF PoolAssumption

LEMMA InitInv == Init => IInv
  <1> SUFFICES ASSUME Init PROVE IInv
    OBVIOUS
  <1>1. ToSet(tasks) = {} /\ Busy = {}
    BY EmptyChannel DEF Init, Busy
  <1>2. TypeOK
    BY DEF Init, TypeOK, CallerStates
  <1>3. CallsInv
    BY <1>1 DEF Init, CallsInv
  <1>4. PlaceInv
    BY <1>1, EmptyChannel DEF Init, PlaceInv
  <1>5. AnswerIsOwn /\ ParkedOnlyWhenEmpty
    BY DEF Init, AnswerIsOwn, ParkedOnlyWhenEmpty
  <1> QED
    BY <1>2, <1>3, <1>4, <1>5 DEF IInv

\* What each action does to the two places a call can be in.
LEMMA Places ==
    ASSUME IInv
    PROVE  /\ \A r \in Requests : Enqueue(r) =>
                 ToSet(tasks') = ToSet(tasks) \cup {r} /\ Busy' = Busy /\ IsInjective(tasks')
           /\ \A r \in Requests, w \in Workers : HandOver(r, w) =>
                 ToSet(tasks') = ToSet(tasks) /\ Busy' = Busy \cup {r}
           /\ \A w \in Workers : Park(w) =>
                 ToSet(tasks') = ToSet(tasks) /\ Busy' = Busy
           /\ \A w \in Workers : Take(w) =>
                 /\ Head(tasks) \in ToSet(tasks) /\ Head(tasks) \in Requests
                 /\ ToSet(tasks') = ToSet(tasks) \ {Head(tasks)}
                 /\ Busy' = Busy \cup {Head(tasks)}
                 /\ IsInjective(tasks')
           /\ \A w \in Workers : Complete(w) =>
                 /\ ToSet(tasks') = ToSet(tasks)
                 /\ Busy' = Busy \ {worker[w]}
                 /\ worker[w] \in Busy
  <1> USE DEF IInv, TypeOK
  <1>1. ASSUME NEW r \in Requests, Enqueue(r)
        PROVE  ToSet(tasks') = ToSet(tasks) \cup {r} /\ Busy' = Busy /\ IsInjective(tasks')
    <2>1. r \notin ToSet(tasks)
      BY <1>1 DEF Enqueue, CallsInv
    <2> QED
      BY <1>1, <2>1, AppendChannel DEF Enqueue, Busy, PlaceInv
  <1>2. ASSUME NEW r \in Requests, NEW w \in Workers, HandOver(r, w)
        PROVE  ToSet(tasks') = ToSet(tasks) /\ Busy' = Busy \cup {r}
    BY <1>2 DEF HandOver, Busy
  <1>3. ASSUME NEW w \in Workers, Park(w)
        PROVE  ToSet(tasks') = ToSet(tasks) /\ Busy' = Busy
    BY <1>3 DEF Park, Busy
  <1>4. ASSUME NEW w \in Workers, Take(w)
        PROVE  /\ Head(tasks) \in ToSet(tasks) /\ Head(tasks) \in Requests
               /\ ToSet(tasks') = ToSet(tasks) \ {Head(tasks)}
               /\ Busy' = Busy \cup {Head(tasks)}
               /\ IsInjective(tasks')
    <2>1. /\ tasks \in Seq(Requests) /\ tasks # <<>> /\ IsInjective(tasks)
          /\ tasks' = Tail(tasks)
      BY <1>4 DEF Take, PlaceInv
    <2>2. /\ Head(tasks) \in ToSet(tasks) /\ Head(tasks) \in Requests
          /\ ToSet(tasks') = ToSet(tasks) \ {Head(tasks)}
          /\ IsInjective(tasks')
      BY <2>1, TailChannel
    <2>3. Busy' = Busy \cup {Head(tasks)}
      BY <1>4, <2>2 DEF Take, Busy
    <2> QED
      BY <2>2, <2>3
  <1>5. ASSUME NEW w \in Workers, Complete(w)
        PROVE  /\ ToSet(tasks') = ToSet(tasks)
               /\ Busy' = Busy \ {worker[w]}
               /\ worker[w] \in Busy
    BY <1>5 DEF Complete, Busy, PlaceInv
  <1> QED
    BY <1>1, <1>2, <1>3, <1>4, <1>5

\* Each action, one conjunct of the invariant at a time.
LEMMA EnqueueInv == ASSUME IInv, NEW r \in Requests, Enqueue(r) PROVE IInv'
  <1> USE DEF IInv, TypeOK
  <1>1. /\ ToSet(tasks') = ToSet(tasks) \cup {r} /\ Busy' = Busy
        /\ IsInjective(tasks')
    BY Places
  <1>2. r \notin ToSet(tasks) /\ r \notin Busy /\ resultCh[r] = <<>>
    BY DEF Enqueue, CallsInv
  <1>3. TypeOK'
    BY DEF Enqueue, Return, CallerStates
  <1>4. CallsInv'
    BY <1>1, <1>2 DEF Enqueue, Return, CallsInv
  <1>5. PlaceInv'
    BY <1>1, <1>2 DEF Enqueue, Return, PlaceInv
  <1>6. AnswerIsOwn' /\ ParkedOnlyWhenEmpty'
    BY DEF Enqueue, Return, AnswerIsOwn, ParkedOnlyWhenEmpty
  <1> QED
    BY <1>3, <1>4, <1>5, <1>6

LEMMA HandOverInv ==
    ASSUME IInv, NEW r \in Requests, NEW w \in Workers, HandOver(r, w)
    PROVE  IInv'
  <1> USE DEF IInv, TypeOK
  <1>1. ToSet(tasks') = ToSet(tasks) /\ Busy' = Busy \cup {r}
    BY Places
  <1>2. r \notin ToSet(tasks) /\ r \notin Busy /\ resultCh[r] = <<>>
    BY DEF HandOver, CallsInv
  <1>3. TypeOK'
    BY DEF HandOver, Return, CallerStates
  <1>4. CallsInv'
    BY <1>1, <1>2 DEF HandOver, Return, CallsInv
  <1>5. \A u, v \in Workers :
            (worker'[u] \in Requests /\ worker'[u] = worker'[v]) => u = v
    BY <1>2 DEF HandOver, PlaceInv, Busy
  <1>6. PlaceInv'
    BY <1>1, <1>2, <1>5 DEF HandOver, Return, PlaceInv
  <1>7. AnswerIsOwn' /\ ParkedOnlyWhenEmpty'
    BY DEF HandOver, Return, AnswerIsOwn, ParkedOnlyWhenEmpty
  <1> QED
    BY <1>3, <1>4, <1>6, <1>7

LEMMA QueueFullInv == ASSUME IInv, NEW r \in Requests, QueueFull(r) PROVE IInv'
  <1> USE DEF IInv, TypeOK
  <1>1. ToSet(tasks') = ToSet(tasks) /\ Busy' = Busy
    BY DEF QueueFull, Busy
  <1>2. TypeOK'
    BY DEF QueueFull, Return, CallerStates
  <1>3. CallsInv'
    BY <1>1 DEF QueueFull, Return, CallsInv
  <1>4. PlaceInv'
    BY <1>1 DEF QueueFull, Return, PlaceInv
  <1>5. AnswerIsOwn' /\ ParkedOnlyWhenEmpty'
    BY DEF QueueFull, Return, AnswerIsOwn, ParkedOnlyWhenEmpty
  <1> QED
    BY <1>2, <1>3, <1>4, <1>5

LEMMA ReceiveInv == ASSUME IInv, NEW r \in Requests, Receive(r) PROVE IInv'
  <1> USE DEF IInv, TypeOK
  <1>1. ToSet(tasks') = ToSet(tasks) /\ Busy' = Busy
    BY DEF Receive, Busy
  <1>2. resultCh[r] = <<r>> /\ Head(resultCh[r]) = r /\ Tail(resultCh[r]) = <<>>
    BY DEF Receive, CallsInv
  <1>3. r \notin ToSet(tasks) \cup Busy
    BY DEF Receive, PlaceInv
  <1>4. TypeOK'
    BY <1>2 DEF Receive, Return, CallerStates
  <1>5. CallsInv'
    BY <1>1, <1>2 DEF Receive, Return, CallsInv
  <1>6. PlaceInv'
    BY <1>1, <1>3 DEF Receive, Return, PlaceInv
  <1>7. AnswerIsOwn' /\ ParkedOnlyWhenEmpty'
    BY <1>2 DEF Receive, Return, AnswerIsOwn, ParkedOnlyWhenEmpty
  <1> QED
    BY <1>4, <1>5, <1>6, <1>7

LEMMA CancelInv == ASSUME IInv, NEW r \in Requests, Cancel(r) PROVE IInv'
  <1> USE DEF IInv, TypeOK
  <1>1. ToSet(tasks') = ToSet(tasks) /\ Busy' = Busy
    BY DEF Cancel, Busy
  <1>2. TypeOK'
    BY DEF Cancel, Return, CallerStates
  <1>3. CallsInv'
    BY <1>1 DEF Cancel, Return, CallsInv
  <1>4. PlaceInv'
    BY <1>1 DEF Cancel, Return, PlaceInv
  <1>5. AnswerIsOwn' /\ ParkedOnlyWhenEmpty'
    BY DEF Cancel, Return, AnswerIsOwn, ParkedOnlyWhenEmpty
  <1> QED
    BY <1>2, <1>3, <1>4, <1>5

LEMMA ParkInv == ASSUME IInv, NEW w \in Workers, Park(w) PROVE IInv'
  <1> USE DEF IInv, TypeOK
  <1>1. ToSet(tasks') = ToSet(tasks) /\ Busy' = Busy
    BY Places
  <1>2. TypeOK'
    BY DEF Park
  <1>3. CallsInv'
    BY <1>1 DEF Park, CallsInv
  <1>4. PlaceInv'
    BY <1>1 DEF Park, PlaceInv
  <1>5. AnswerIsOwn' /\ ParkedOnlyWhenEmpty'
    BY DEF Park, AnswerIsOwn, ParkedOnlyWhenEmpty
  <1> QED
    BY <1>2, <1>3, <1>4, <1>5

LEMMA TakeInv == ASSUME IInv, NEW w \in Workers, Take(w) PROVE IInv'
  <1> USE DEF IInv, TypeOK
  <1> DEFINE h == Head(tasks)
  <1>1. /\ h \in ToSet(tasks) /\ h \in Requests
        /\ ToSet(tasks') = ToSet(tasks) \ {h} /\ Busy' = Busy \cup {h}
        /\ IsInjective(tasks')
    BY Places
  <1>2. tasks' \in Seq(Requests) /\ Len(tasks') <= QueueSize
    BY TailChannel DEF Take, PlaceInv
  <1>3. TypeOK'
    BY <1>1, <1>2 DEF Take
  <1>4. CallsInv'
    BY <1>1 DEF Take, CallsInv
  <1>5. h \notin Busy
    BY <1>1 DEF PlaceInv
  <1>6. \A u, v \in Workers :
            (worker'[u] \in Requests /\ worker'[u] = worker'[v]) => u = v
    BY <1>1, <1>5 DEF Take, PlaceInv, Busy
  <1>7. PlaceInv'
    BY <1>1, <1>5, <1>6 DEF Take, PlaceInv
  <1>8. AnswerIsOwn'
    BY DEF Take, AnswerIsOwn
  <1>9. \A v \in Workers : worker'[v] # Parked
    BY <1>1 DEF Take, ParkedOnlyWhenEmpty
  <1> QED
    BY <1>3, <1>4, <1>7, <1>8, <1>9 DEF ParkedOnlyWhenEmpty

LEMMA CompleteInv == ASSUME IInv, NEW w \in Workers, Complete(w) PROVE IInv'
  <1> USE DEF IInv, TypeOK
  <1> DEFINE r == worker[w]
  <1>1. ToSet(tasks') = ToSet(tasks) /\ Busy' = Busy \ {r} /\ r \in Busy
    BY Places
  <1>2. r \in Requests /\ resultCh[r] = <<>> /\ caller[r] # "answered"
    BY <1>1 DEF PlaceInv, Busy
  <1>3. Append(resultCh[r], r) = <<r>>
    BY <1>2
  <1>4. resultCh' = [resultCh EXCEPT ![r] = <<r>>]
    BY <1>3 DEF Complete
  <1>5. r \notin ToSet(tasks)
    BY <1>1 DEF PlaceInv
  <1>6. TypeOK'
    BY <1>2, <1>4 DEF Complete
  <1>7. CallsInv'
    BY <1>1, <1>2, <1>4 DEF Complete, CallsInv
  <1>8. \A u, v \in Workers :
            (worker'[u] \in Requests /\ worker'[u] = worker'[v]) => u = v
    BY DEF Complete, PlaceInv
  <1>9. PlaceInv'
    BY <1>1, <1>2, <1>4, <1>5, <1>8 DEF Complete, PlaceInv
  <1>10. AnswerIsOwn' /\ ParkedOnlyWhenEmpty'
    BY DEF Complete, AnswerIsOwn, ParkedOnlyWhenEmpty
  <1> QED
    BY <1>6, <1>7, <1>9, <1>10

LEMMA StepInv == IInv /\ [Next]_vars => IInv'
  <1> SUFFICES ASSUME IInv, [Next]_vars PROVE IInv'
    OBVIOUS
  <1>1. CASE \E r \in Requests : Submit(r) \/ Receive(r) \/ Cancel(r)
    BY <1>1, EnqueueInv, HandOverInv, QueueFullInv, ReceiveInv, CancelInv DEF Submit
  <1>2. CASE \E w \in Workers : Work(w)
    BY <1>2, ParkInv, TakeInv, CompleteInv DEF Work
  <1>3. CASE UNCHANGED vars
    BY <1>3 DEF vars, IInv, TypeOK, CallsInv, PlaceInv, AnswerIsOwn,
                ParkedOnlyWhenEmpty, Busy
  <1> QED
    BY <1>1, <1>2, <1>3 DEF Next

LEMMA Inductive == Spec => []IInv
  BY InitInv, StepInv, PTL DEF Spec

-----------------------------------------------------------------------------
\* The queue never exceeds its capacity and every variable keeps its type.
THEOREM TypeCorrectness == Spec => []TypeOK
  BY Inductive, PTL DEF IInv

\* Every accepted call is in one place until it is hashed (auth_hashing.go:47-70).
THEOREM HashedOnce == Spec => []EachCallIsHashedOnce
  <1>1. IInv => EachCallIsHashedOnce
    BY DEF IInv, PlaceInv, EachCallIsHashedOnce
  <1> QED
    BY <1>1, Inductive, PTL

\* A caller gets the hash of its own password (auth_hashing.go:58-70).
THEOREM OwnAnswer == Spec => []AnswerIsOwn
  BY Inductive, PTL DEF IInv

-----------------------------------------------------------------------------
(* The pool implements HashingService: how many calls can be unfinished.   *)

Occupied == {w \in Workers : worker[w] \in Requests}
Unfinished == ToSet(tasks) \cup Busy

LEMMA QueuedCount ==
    ASSUME IInv
    PROVE  IsFiniteSet(ToSet(tasks)) /\ Cardinality(ToSet(tasks)) = Len(tasks)
  <1>1. tasks \in Seq(Requests) /\ Len(tasks) \in Nat /\ DOMAIN tasks = 1..Len(tasks)
    BY DEF IInv, TypeOK
  <1>2. /\ tasks \in Surjection(1..Len(tasks), ToSet(tasks))
        /\ tasks \in Injection(1..Len(tasks), ToSet(tasks))
    <2>1. tasks \in [1..Len(tasks) -> ToSet(tasks)]
      BY <1>1 DEF ToSet
    <2>2. \A t \in ToSet(tasks) : \E i \in 1..Len(tasks) : tasks[i] = t
      BY <1>1 DEF ToSet
    <2> QED
      BY <2>1, <2>2 DEF IInv, PlaceInv, Surjection, Injection
  <1>3. IsFiniteSet(1..Len(tasks)) /\ Cardinality(1..Len(tasks)) = Len(tasks)
    BY <1>1, FS_Interval
  <1> QED
    BY <1>2, <1>3, FS_Surjection

LEMMA BusyCount ==
    ASSUME IInv
    PROVE  /\ IsFiniteSet(Busy) /\ IsFiniteSet(Occupied)
           /\ Cardinality(Busy) <= Cardinality(Occupied)
           /\ Cardinality(Busy) \in Nat /\ Cardinality(Occupied) \in Nat
           /\ Cardinality(Occupied) <= Cardinality(Workers)
  <1>1. Occupied \in SUBSET Workers
    BY DEF Occupied
  <1>2. IsFiniteSet(Occupied) /\ Cardinality(Occupied) <= Cardinality(Workers)
    BY <1>1, FS_Subset
  <1> DEFINE f == [w \in Occupied |-> worker[w]]
  <1>3. f \in Surjection(Occupied, Busy)
    BY DEF IInv, TypeOK, Occupied, Busy, Surjection
  <1>4. IsFiniteSet(Busy) /\ Cardinality(Busy) <= Cardinality(Occupied)
    BY <1>2, <1>3, FS_Surjection
  <1> QED
    BY <1>2, <1>4, FS_CardinalityType

LEMMA UnfinishedCount ==
    ASSUME IInv
    PROVE  /\ Cardinality(Unfinished) <= Len(tasks) + Cardinality(Occupied)
           /\ Cardinality(Unfinished) >= Len(tasks)
           /\ Cardinality(Unfinished) \in Nat
           /\ Cardinality(Occupied) <= Cardinality(Workers)
           /\ Cardinality(Workers) \in Nat /\ Cardinality(Occupied) \in Nat
  <1>1. ToSet(tasks) \cap Busy = {}
    BY DEF IInv, PlaceInv
  <1>2. Cardinality(ToSet(tasks) \cap Busy) = 0
    BY <1>1, FS_EmptySet
  <1>3. /\ IsFiniteSet(Unfinished)
        /\ Cardinality(Unfinished) = Cardinality(ToSet(tasks)) + Cardinality(Busy)
                                        - Cardinality(ToSet(tasks) \cap Busy)
    BY QueuedCount, BusyCount, FS_Union DEF Unfinished
  <1>4. Len(tasks) \in Nat
    BY DEF IInv, TypeOK
  <1> QED
    BY <1>2, <1>3, <1>4, QueuedCount, BusyCount, FS_CardinalityType

\* A worker that waits for a task is not one of the occupied ones.
LEMMA ParkedIsFree ==
    ASSUME IInv, NEW w \in Workers, worker[w] = Parked
    PROVE  Cardinality(Occupied) < Cardinality(Workers)
  <1>1. Occupied \in SUBSET (Workers \ {w})
    BY DEF Occupied
  <1>2. IsFiniteSet(Workers \ {w}) /\ Cardinality(Workers \ {w}) = Cardinality(Workers) - 1
    BY FS_RemoveElement
  <1>3. Cardinality(Occupied) <= Cardinality(Workers \ {w})
    BY <1>1, <1>2, FS_Subset
  <1> QED
    BY <1>2, <1>3, BusyCount, FS_CardinalityType

-----------------------------------------------------------------------------
(* Every step of the pool is a step of the service or leaves it alone.     *)

\* The service counts with a FiniteSets of its own.
LEMMA SameCardinality == \A S : Service!Cardinality(S) = Cardinality(S)
  BY Zenon DEF Service!Cardinality, Cardinality

LEMMA EnqueueAccepts ==
    ASSUME IInv, NEW r \in Requests, Enqueue(r) PROVE Service!Accept(r)
  <1>1. Unfinished' = Unfinished \cup {r}
    BY Places DEF Unfinished
  <1>2. Cardinality(Unfinished) < QueueSize + Cardinality(Workers)
    BY UnfinishedCount DEF Enqueue, IInv, TypeOK
  <1> QED
    BY <1>1, <1>2, SameCardinality DEF Enqueue, Return, Service!Accept, Unfinished

LEMMA HandOverAccepts ==
    ASSUME IInv, NEW r \in Requests, NEW w \in Workers, HandOver(r, w)
    PROVE  Service!Accept(r)
  <1>1. Unfinished' = Unfinished \cup {r}
    BY Places DEF Unfinished
  <1>2. Cardinality(Occupied) < Cardinality(Workers)
    BY ParkedIsFree DEF HandOver
  <1>3. Cardinality(Unfinished) < QueueSize + Cardinality(Workers)
    BY <1>2, UnfinishedCount DEF IInv, TypeOK
  <1> QED
    BY <1>1, <1>3, SameCardinality DEF HandOver, Return, Service!Accept, Unfinished

LEMMA QueueFullRefuses ==
    ASSUME IInv, NEW r \in Requests, QueueFull(r) PROVE Service!Refuse(r)
  <1>1. Cardinality(Unfinished) >= QueueSize
    BY UnfinishedCount DEF QueueFull
  <1>2. Unfinished' = Unfinished
    BY DEF QueueFull, Unfinished, Busy
  <1> QED
    BY <1>1, <1>2, SameCardinality DEF QueueFull, Return, Service!Refuse, Unfinished

LEMMA ReceiveAnswers ==
    ASSUME IInv, NEW r \in Requests, Receive(r) PROVE Service!Answer(r)
  <1>1. r \notin Unfinished
    BY DEF IInv, Receive, PlaceInv, Unfinished
  <1>2. Unfinished' = Unfinished
    BY DEF Receive, Unfinished, Busy
  <1> QED
    BY <1>1, <1>2 DEF Receive, Return, Service!Answer, Unfinished

LEMMA CancelAbandons ==
    ASSUME IInv, NEW r \in Requests, Cancel(r) PROVE Service!Abandon(r)
  <1>1. Unfinished' = Unfinished
    BY DEF Cancel, Unfinished, Busy
  <1> QED
    BY <1>1 DEF Cancel, Return, Service!Abandon, Unfinished

LEMMA ParkAndTakeStutter ==
    ASSUME IInv, NEW w \in Workers, Park(w) \/ Take(w)
    PROVE  UNCHANGED <<caller, Unfinished>>
  BY Places DEF Park, Take, Unfinished

LEMMA CompleteComputes ==
    ASSUME IInv, NEW w \in Workers, Complete(w)
    PROVE  Service!Compute(worker[w])
  <1>1. /\ worker[w] \in Busy
        /\ Unfinished' = Unfinished \ {worker[w]}
    BY Places DEF Unfinished, IInv, PlaceInv
  <1> QED
    BY <1>1 DEF Complete, Service!Compute, Unfinished

LEMMA StepRefines == IInv /\ [Next]_vars => [Service!Next]_(Service!vars)
  <1> SUFFICES ASSUME IInv, [Next]_vars PROVE [Service!Next]_(Service!vars)
    OBVIOUS
  <1>1. ASSUME NEW r \in Requests, Submit(r) \/ Receive(r) \/ Cancel(r)
        PROVE  Service!Next
    BY <1>1, EnqueueAccepts, HandOverAccepts, QueueFullRefuses, ReceiveAnswers,
       CancelAbandons DEF Submit, Service!Next
  <1>2. ASSUME NEW w \in Workers, Complete(w) PROVE Service!Next
    <2>1. worker[w] \in Requests
      BY <1>2 DEF Complete
    <2> QED
      BY <1>2, <2>1, CompleteComputes DEF Service!Next
  <1>3. ASSUME NEW w \in Workers, Park(w) \/ Take(w) PROVE UNCHANGED Service!vars
    BY <1>3, ParkAndTakeStutter DEF Service!vars, Unfinished
  <1>4. CASE UNCHANGED vars
    BY <1>4 DEF vars, Service!vars, Busy
  <1> QED
    BY <1>1, <1>2, <1>3, <1>4 DEF Next, Work

\* HashPassword and the workers behave as the service does: at most
\* QueueSize + |Workers| calls unfinished, none refused below QueueSize, none
\* answered before its hash is computed (auth_hashing.go:47-78).
THEOREM PoolImplementsService == Spec => ServiceSpec
  <1>1. Init => Service!Init
    BY EmptyChannel DEF Init, Service!Init, Busy
  <1>2. IInv /\ [Next]_vars => [Service!Next]_(Service!vars)
    BY StepRefines
  <1> QED
    BY <1>1, <1>2, Inductive, PTL DEF Spec, ServiceSpec, Service!Spec

-----------------------------------------------------------------------------
(* The safety half of AcceptedWorkIsFinished and EveryCallerReturns.       *)

\* No call is lost on its way from the caller through the channel and a worker
\* to the result: who waits has a result, or the pool has the call.
NothingIsLost == \A r \in Requests :
    caller[r] = "waiting" => r \in ToSet(tasks) \cup Busy \/ resultCh[r] # <<>>

\* A worker on its way to the channel, or one whose result has room.
Ready(w) == \/ worker[w] = Looping /\ tasks # <<>>
            \/ worker[w] \in Requests /\ Deliverable(worker[w])

NobodyIsStranded ==
    \A r \in Requests : caller[r] = "waiting" =>
        resultCh[r] # <<>> \/ \E w \in Workers : Ready(w)

LEMMA KeepStep == ASSUME IInv, NothingIsLost, [Next]_vars PROVE NothingIsLost'
  <1> USE DEF NothingIsLost, IInv, TypeOK
  <1>1. ASSUME NEW r \in Requests, Enqueue(r) PROVE NothingIsLost'
    <2>1. ToSet(tasks') = ToSet(tasks) \cup {r} /\ Busy' = Busy
      BY <1>1, AppendChannel DEF Enqueue, Busy
    <2> QED
      BY <1>1, <2>1 DEF Enqueue, Return
  <1>2. ASSUME NEW r \in Requests, QueueFull(r) \/ Receive(r) \/ Cancel(r) PROVE NothingIsLost'
    <2>1. /\ tasks' = tasks /\ Busy' = Busy
          /\ \A q \in Requests \ {r} : resultCh'[q] = resultCh[q] /\ caller'[q] = caller[q]
          /\ caller'[r] # "waiting"
      BY <1>2 DEF QueueFull, Receive, Cancel, Return, Busy
    <2> QED
      BY <2>1
  <1>3. ASSUME NEW r \in Requests, NEW w \in Workers, HandOver(r, w) PROVE NothingIsLost'
    <2>1. r \in Busy' /\ Busy \subseteq Busy'
      BY <1>3, PoolAssumption DEF HandOver, Busy
    <2> QED
      BY <1>3, <2>1 DEF HandOver, Return
  <1>4. ASSUME NEW w \in Workers, Park(w) PROVE NothingIsLost'
    <2>1. Busy \subseteq Busy'
      BY <1>4, PoolAssumption DEF Park, Busy
    <2> QED
      BY <1>4, <2>1 DEF Park
  <1>5. ASSUME NEW w \in Workers, Take(w) PROVE NothingIsLost'
    <2>1. ToSet(tasks') = ToSet(tasks) \ {Head(tasks)} /\ Head(tasks) \in Requests
      BY <1>5, TailChannel DEF Take, PlaceInv
    <2>2. Busy \cup {Head(tasks)} \subseteq Busy'
      BY <1>5, <2>1, PoolAssumption DEF Take, Busy
    <2> QED
      BY <1>5, <2>1, <2>2 DEF Take
  <1>6. ASSUME NEW w \in Workers, Complete(w) PROVE NothingIsLost'
    <2> DEFINE r == worker[w]
    <2>1. r \in Requests /\ resultCh'[r] = Append(resultCh[r], r) /\ resultCh[r] \in Seq(Requests)
      BY <1>6 DEF Complete
    <2>2. ASSUME NEW s \in Seq(Requests), NEW x \in Requests PROVE Append(s, x) # <<>>
      <3>1. Len(Append(s, x)) = Len(s) + 1 /\ Len(s) \in Nat
        OBVIOUS
      <3>2. Len(<<>>) = 0
        OBVIOUS
      <3>3. Len(Append(s, x)) # Len(<<>>)
        BY <3>1, <3>2
      <3> QED
        BY <3>3, Zenon
    <2>3. resultCh'[r] # <<>>
      BY <2>1, <2>2
    <2>4. /\ \A q \in Requests \ {r} : (q \in Busy => q \in Busy') /\ resultCh'[q] = resultCh[q]
          /\ UNCHANGED <<tasks, caller>>
      BY <1>6, <2>1 DEF Complete, Busy
    <2> QED
      BY <2>3, <2>4
  <1>7. CASE UNCHANGED vars
    BY <1>7 DEF vars, Busy
  <1> QED
    BY <1>1, <1>2, <1>3, <1>4, <1>5, <1>6, <1>7 DEF Next, Submit, Work

\* With one worker at least, while a caller waits without a result some worker
\* can take a task or deliver one, whatever callers gave up before: the buffer
\* of a result channel never fills
\* (auth_hashing.go:47-78).
THEOREM WaitingCallersAreServed == Workers # {} => (Spec => []NobodyIsStranded)
  <1> SUFFICES ASSUME Workers # {} PROVE Spec => []NobodyIsStranded
    OBVIOUS
  <1>1. Init => NothingIsLost
    BY DEF Init, NothingIsLost
  <1>2. IInv /\ NothingIsLost /\ [Next]_vars => NothingIsLost'
    BY KeepStep
  <1>3. IInv /\ NothingIsLost => NobodyIsStranded
    <2> SUFFICES ASSUME IInv, NothingIsLost, NEW r \in Requests, r \in ToSet(tasks) \cup Busy
                 PROVE  \E w \in Workers : Ready(w)
      BY DEF NobodyIsStranded, NothingIsLost
    <2>1. ASSUME NEW w \in Workers, worker[w] \in Requests PROVE Ready(w)
      <3>1. worker[w] \in Busy
        BY <2>1 DEF Busy
      <3>2. resultCh[worker[w]] = <<>>
        BY <3>1 DEF IInv, PlaceInv
      <3> QED
        BY <2>1, <3>2 DEF Ready, Deliverable, ResultCap
    <2>2. CASE r \in Busy
      BY <2>1, <2>2 DEF Busy
    <2>3. CASE r \in ToSet(tasks)
      <3>1. tasks # <<>>
        BY <2>3, EmptyChannel
      <3>2. PICK w \in Workers : TRUE
        OBVIOUS
      <3>3. worker[w] \in Requests \/ worker[w] = Looping
        BY <3>1 DEF IInv, TypeOK, ParkedOnlyWhenEmpty
      <3> QED
        BY <2>1, <3>1, <3>3 DEF Ready
    <2> QED
      BY <2>2, <2>3
  <1> QED
    BY <1>1, <1>2, <1>3, Inductive, PTL DEF Spec
=============================================================================
