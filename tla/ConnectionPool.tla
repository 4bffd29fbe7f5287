--------------------------- MODULE ConnectionPool ---------------------------
(***************************************************************************)
(* The pgxpool of cmd/platform-engine as its handlers use it, and the      *)
(* graceful shutdown that waits for them.                                  *)
(*                                                                         *)
(* A database handler holds one transaction at a time: most begin one, the *)
(* curriculum handler begins several, one after another, and holds nothing *)
(* in between.  LoginHandler alone begins a second one (issueRefreshToken) *)
(* while its first is still open, because the Rollback that closes the     *)
(* first is deferred to the end of the handler.                            *)
(***************************************************************************)
EXTENDS Integers, Sequences, FiniteSets, SequencesExt

CONSTANTS Logins,      \* login requests (each arrives once: a bound)
          Others,      \* requests of every other database handler
          PoolSize     \* MaxConns of the pool

ASSUME PoolAssumption == /\ IsFiniteSet(Logins) /\ IsFiniteSet(Others)
                         /\ Logins \cap Others = {}
                         /\ PoolSize \in Nat \ {0}

VARIABLES free,        \* connections nobody holds
          queue,       \* requests waiting to acquire, in arrival order
          pc,          \* where each handler is
          server       \* the process: "up", "draining", "exited" or "killed"

vars == <<free, queue, pc, server>>

Requests == Logins \cup Others

\* "first": one transaction open; "between": one has ended and another may
\* follow; "second": both open; "closing": the reply is written and the
\* deferred Rollback of the first is still to run.
Points == {"idle", "wait1", "first", "between", "wait2", "second", "closing", "done"}

\* Connections held at each point of a handler.
Held(point) == CASE point \in {"first", "wait2", "closing"} -> 1
                 [] point = "second" -> 2
                 [] OTHER -> 0

TypeOK == /\ free \in 0..PoolSize
          /\ queue \in Seq(Requests)
          /\ pc \in [Requests -> Points]
          /\ server \in {"up", "draining", "exited", "killed"}

Init == /\ free = PoolSize
        /\ queue = <<>>
        /\ pc = [r \in Requests |-> "idle"]
        /\ server = "up"

\* Requests that hold at least n connections.
Holders(n) == {r \in Requests : Held(pc[r]) >= n}

Active(r) == pc[r] \notin {"idle", "done"}
Waiting(r) == pc[r] \in {"wait1", "wait2"}
Running == server \in {"up", "draining"}

Goto(r, point) == pc' = [pc EXCEPT ![r] = point]

\* Acquire queues behind earlier callers; Grant serves the queue.
Acquire(r, point) == Goto(r, point) /\ queue' = Append(queue, r)

\* Mutant: a login that gives up inside issueRefreshToken keeps its transaction.
ReturnLeaking(r) == /\ Goto(r, "done")
                    /\ free' = free + (IF pc[r] = "wait2" THEN 0 ELSE Held(pc[r]))
                    /\ queue' = RemoveFirst(queue, r)
                    /\ UNCHANGED server

\* The handler returns: every deferred Rollback gives its connection back.
Return(r) == /\ Goto(r, "done")
             /\ free' = free + Held(pc[r])
             /\ queue' = RemoveFirst(queue, r)
             /\ UNCHANGED server
-----------------------------------------------------------------------------
Arrive(r) == /\ server = "up"
             /\ pc[r] = "idle"
             /\ Acquire(r, "wait1")
             /\ UNCHANGED <<free, server>>

\* A free connection goes to the caller that has waited longest.
Grant == /\ Running
         /\ free > 0
         /\ queue # <<>>
         /\ LET r == Head(queue) IN
              Goto(r, IF pc[r] = "wait1" THEN "first" ELSE "second")
         /\ free' = free - 1
         /\ queue' = Tail(queue)
         /\ UNCHANGED server

\* The last transaction of any other handler, what it does after one that it
\* has committed, or a refused login.
Finish(r) == /\ Running
             /\ pc[r] \in {"first", "between"}
             /\ Return(r)

\* Mutant: an early return of writeAIRequestLog skips the Rollback.
EndTransactionOpen(r) == /\ Running
                         /\ r \in Others
                         /\ pc[r] = "first"
                         /\ Goto(r, "between")
                         /\ UNCHANGED <<free, queue, server>>

\* GenerateCurriculumHandler has read its passages, or written a log row: the
\* calls to the model, which may take long, are made without a connection.
EndTransaction(r) == /\ Running
                     /\ r \in Others
                     /\ pc[r] = "first"
                     /\ Goto(r, "between")
                     /\ free' = free + 1
                     /\ UNCHANGED <<queue, server>>

BeginAnother(r) == /\ Running
                   /\ pc[r] = "between"
                   /\ Acquire(r, "wait1")
                   /\ UNCHANGED <<free, server>>

\* Mutant: another handler also begins a transaction inside its own.
AnyNested(r) == /\ Running
                /\ pc[r] = "first"
                /\ Acquire(r, "wait2")
                /\ UNCHANGED <<free, server>>

\* LoginHandler calls issueRefreshToken inside its own transaction.
LoginNested(r) == /\ Running
                  /\ r \in Logins
                  /\ pc[r] = "first"
                  /\ Acquire(r, "wait2")
                  /\ UNCHANGED <<free, server>>

\* The second transaction commits and its connection goes back.
LoginIssued(r) == /\ Running
                  /\ pc[r] = "second"
                  /\ Goto(r, "closing")
                  /\ free' = free + 1
                  /\ UNCHANGED <<queue, server>>

LoginReturn(r) == /\ Running
                  /\ pc[r] = "closing"
                  /\ Return(r)

\* The client hangs up: r.Context() is cancelled, a waiting Acquire or a
\* running statement fails, and the handler returns.
Disconnect(r) == /\ Running
                 /\ Active(r)
                 /\ Return(r)
-----------------------------------------------------------------------------
\* Every connection is held and every active handler waits for another one.
Stuck == /\ free = 0
         /\ \E r \in Requests : Active(r)
         /\ \A r \in Requests : Active(r) => Waiting(r)

Terminate == /\ server = "up"
             /\ server' = "draining"
             /\ UNCHANGED <<free, queue, pc>>

\* server.Shutdown returns when no handler is active.
Exit == /\ server = "draining"
        /\ \A r \in Requests : ~Active(r)
        /\ server' = "exited"
        /\ UNCHANGED <<free, queue, pc>>

\* Its ten-second context expires first, whatever the handlers are doing:
\* log.Fatalf.
ForcedExit == /\ server = "draining"
              /\ server' = "killed"
              /\ UNCHANGED <<free, queue, pc>>
-----------------------------------------------------------------------------
Handler(r) == \/ Finish(r) \/ EndTransaction(r) \/ BeginAnother(r)
              \/ LoginNested(r) \/ LoginIssued(r) \/ LoginReturn(r)

Next == \/ \E r \in Requests : Arrive(r) \/ Handler(r) \/ Disconnect(r)
        \/ Grant
        \/ Terminate \/ Exit \/ ForcedExit

Spec == Init /\ [][Next]_vars

\* The pool serves its queue, statements complete, a handler has finitely many
\* chunks and so comes to its last transaction, and time passes in a drain.
\* Nobody has to hang up.
FairSpec == /\ Spec
            /\ WF_vars(Grant)
            /\ \A r \in Requests : WF_vars(Handler(r)) /\ SF_vars(Finish(r))
            /\ WF_vars(Exit) /\ WF_vars(ForcedExit)
-----------------------------------------------------------------------------
\* No handler leaks a connection or gives one back twice: what is free and
\* what open transactions hold add up to the pool, at every point of every
\* handler, error paths and hang-ups included; and only handlers that still
\* wait have a place in the pool's queue, one each, so no connection is handed
\* to a handler that has gone.
ConnectionsAddUp ==
    /\ TypeOK
    /\ free + Cardinality(Holders(1)) + Cardinality(Holders(2)) = PoolSize
    /\ ToSet(queue) = {r \in Requests : Waiting(r)} /\ IsInjective(queue)

\* As many logins as there are connections wait for their second one.
PoolHeldByLogins == Cardinality({r \in Logins : pc[r] = "wait2"}) = PoolSize

\* When everybody waits, the whole pool is held by logins that wait for their
\* second connection, one each: no other handler contributes to a standstill.
StandstillIsLogins == Stuck => PoolHeldByLogins

\* Without anybody hanging up, a request is served in the end unless the
\* process goes or the pool fills, again and again, with nested logins: those
\* are the only way to wait for ever. A connection that is not given back, or
\* a handler other than LoginHandler that nests, would be another.
OnlyLoginsStarve ==
    \A r \in Requests : Active(r) ~> (~Active(r) \/ ~Running \/ PoolHeldByLogins)
=============================================================================
