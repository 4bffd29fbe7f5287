---------------------------- MODULE HashingPool ----------------------------
(***************************************************************************)
(* The bounded worker pool of services/platform-engine/auth_hashing.go:    *)
(* callers submit without blocking, workers range over a buffered channel, *)
(* and each call has a result channel of its own with room for one value.  *)
(***************************************************************************)
EXTENDS Integers, Sequences, FiniteSets, SequencesExt

CONSTANTS Requests,    \* calls of HashPassword (each made once: a bound)
          Workers,     \* goroutines started by NewWorkerPool
          QueueSize,   \* capacity of the tasks channel
          Looping,     \* a worker that is about to receive its next task
          Parked       \* a worker blocked in the receive

ASSUME PoolAssumption ==
    /\ IsFiniteSet(Requests) /\ IsFiniteSet(Workers)
    /\ QueueSize \in Nat
    /\ Looping \notin Requests /\ Parked \notin Requests /\ Looping # Parked

VARIABLES tasks,       \* the tasks channel: accepted calls, oldest first
          worker,      \* the call each worker hashes, Looping or Parked
          resultCh,    \* result channel of each call: whose password was hashed
          caller,      \* where each caller is
          hash         \* whose password was hashed, as returned to the caller

vars == <<tasks, worker, resultCh, caller, hash>>

\* make(chan HashingResult, 1)
ResultCap == 1

CallerStates == {"new", "waiting", "answered", "refused", "abandoned"}

TypeOK == /\ tasks \in Seq(Requests)
          /\ Len(tasks) <= QueueSize
          /\ worker \in [Workers -> Requests \cup {Looping, Parked}]
          /\ resultCh \in [Requests -> Seq(Requests)]
          /\ caller \in [Requests -> CallerStates]
          /\ hash \in [Requests -> SUBSET Requests]

Init == /\ tasks = <<>>
        /\ worker = [w \in Workers |-> Looping]
        /\ resultCh = [r \in Requests |-> <<>>]
        /\ caller = [r \in Requests |-> "new"]
        /\ hash = [r \in Requests |-> {}]

Return(r, how) == caller' = [caller EXCEPT ![r] = how]
-----------------------------------------------------------------------------
(* HashPassword.                                                           *)

\* The send succeeds into the buffer ...
Enqueue(r) == /\ caller[r] = "new"
              /\ Len(tasks) < QueueSize
              /\ \A w \in Workers : worker[w] # Parked
              /\ tasks' = Append(tasks, r)
              /\ Return(r, "waiting")
              /\ UNCHANGED <<worker, resultCh, hash>>

\* ... or straight into the hands of a worker that waits for a task.
HandOver(r, w) == /\ caller[r] = "new"
                  /\ worker[w] = Parked
                  /\ worker' = [worker EXCEPT ![w] = r]
                  /\ Return(r, "waiting")
                  /\ UNCHANGED <<tasks, resultCh, hash>>

\* Mutant: calls are refused one task too early.
QueueFullEarly(r) == /\ caller[r] = "new"
                     /\ Len(tasks) >= QueueSize - 1
                     /\ Return(r, "refused")
                     /\ UNCHANGED <<tasks, worker, resultCh, hash>>

\* The default branch: ErrHashingQueueFull, at once.
QueueFull(r) == /\ caller[r] = "new"
                /\ Len(tasks) = QueueSize
                /\ \A w \in Workers : worker[w] # Parked
                /\ Return(r, "refused")
                /\ UNCHANGED <<tasks, worker, resultCh, hash>>

\* Mutant: one result channel is shared by all callers.
ReceiveShared(r) == /\ caller[r] = "waiting"
                    /\ \E q \in Requests :
                         /\ resultCh[q] # <<>>
                         /\ hash' = [hash EXCEPT ![r] = {Head(resultCh[q])}]
                         /\ resultCh' = [resultCh EXCEPT ![q] = Tail(@)]
                    /\ Return(r, "answered")
                    /\ UNCHANGED <<tasks, worker>>

Receive(r) == /\ caller[r] = "waiting"
              /\ resultCh[r] # <<>>
              /\ hash' = [hash EXCEPT ![r] = {Head(resultCh[r])}]
              /\ resultCh' = [resultCh EXCEPT ![r] = Tail(@)]
              /\ Return(r, "answered")
              /\ UNCHANGED <<tasks, worker>>

\* ctx.Done(): two seconds are over or the client has gone.
Cancel(r) == /\ caller[r] = "waiting"
             /\ Return(r, "abandoned")
             /\ UNCHANGED <<tasks, worker, resultCh, hash>>
-----------------------------------------------------------------------------
(* worker: for task := range wp.tasks.                                     *)

Park(w) == /\ worker[w] = Looping
           /\ tasks = <<>>
           /\ worker' = [worker EXCEPT ![w] = Parked]
           /\ UNCHANGED <<tasks, resultCh, caller, hash>>

\* Mutant: a task is read without being removed.
TakeShared(w) == /\ worker[w] = Looping
                 /\ tasks # <<>>
                 /\ worker' = [worker EXCEPT ![w] = Head(tasks)]
                 /\ UNCHANGED <<tasks, resultCh, caller, hash>>

Take(w) == /\ worker[w] = Looping
           /\ tasks # <<>>
           /\ worker' = [worker EXCEPT ![w] = Head(tasks)]
           /\ tasks' = Tail(tasks)
           /\ UNCHANGED <<resultCh, caller, hash>>

\* Mutant: the result channel is unbuffered, so a send meets its receiver.
DeliverableUnbuffered(r) == caller[r] = "waiting"

\* A send on the result channel goes through while the buffer has room.
Deliverable(r) == Len(resultCh[r]) < ResultCap

\* argon2.IDKey, then the send on the task's own channel.
Complete(w) == LET r == worker[w] IN
               /\ r \in Requests
               /\ Deliverable(r)
               /\ resultCh' = [resultCh EXCEPT ![r] = Append(@, r)]
               /\ worker' = [worker EXCEPT ![w] = Looping]
               /\ UNCHANGED <<tasks, caller, hash>>
-----------------------------------------------------------------------------
Submit(r) == Enqueue(r) \/ QueueFull(r) \/ \E w \in Workers : HandOver(r, w)
Work(w) == Park(w) \/ Take(w) \/ Complete(w)

Next == \/ \E r \in Requests : Submit(r) \/ Receive(r) \/ Cancel(r)
        \/ \E w \in Workers : Work(w)

Spec == Init /\ [][Next]_vars

\* Go runs every goroutine that can run; a select with a ready result ends.
FairSpec == /\ Spec
            /\ \A w \in Workers : WF_vars(Work(w))
            /\ \A r \in Requests : WF_vars(Receive(r))
-----------------------------------------------------------------------------
Busy == {r \in Requests : \E w \in Workers : worker[w] = r}

\* An accepted call is in one place: queued once, or with one worker, or
\* finished; so each password is hashed once and each result channel, which
\* has room for one value, never blocks the worker that fills it.
EachCallIsHashedOnce ==
    /\ IsInjective(tasks)
    /\ ToSet(tasks) \cap Busy = {}
    /\ \A v, w \in Workers : (worker[v] \in Requests /\ worker[v] = worker[w]) => v = w
    /\ \A r \in ToSet(tasks) \cup Busy : resultCh[r] = <<>> /\ caller[r] # "answered"

\* What a caller gets back is the hash of its own password.
AnswerIsOwn == \A r \in Requests : caller[r] = "answered" => hash[r] = {r}

\* Callers that give up do not use the pool up: whatever they do, every
\* accepted call leaves the pool ...
AcceptedWorkIsFinished ==
    \A r \in Requests : (r \in ToSet(tasks) \cup Busy) ~> (r \notin ToSet(tasks) \cup Busy)

\* ... and every caller returns.
EveryCallerReturns == \A r \in Requests : (caller[r] = "waiting") ~> (caller[r] # "waiting")

\* The pool implements the service its callers see.
Service == INSTANCE HashingService
               WITH pending <- ToSet(tasks) \cup Busy,
                    Capacity <- QueueSize + Cardinality(Workers),
                    Threshold <- QueueSize
ServiceSpec == Service!Spec
=============================================================================
