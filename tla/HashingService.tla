--------------------------- MODULE HashingService ---------------------------
(***************************************************************************)
(* What the password-hashing pool promises its callers: bounded work, a    *)
(* refusal only under load, and no answer before the work is done.         *)
(***************************************************************************)
EXTENDS Integers, FiniteSets

CONSTANTS Requests,    \* calls of HashPassword
          Capacity,    \* how many calls can be unfinished at once
          Threshold    \* no call is refused below this many

VARIABLES caller,      \* what each caller knows
          pending      \* accepted calls whose hash is not computed yet

vars == <<caller, pending>>

Init == /\ caller = [r \in Requests |-> "new"]
        /\ pending = {}

Accept(r) == /\ caller[r] = "new"
             /\ Cardinality(pending) < Capacity
             /\ caller' = [caller EXCEPT ![r] = "waiting"]
             /\ pending' = pending \cup {r}

Refuse(r) == /\ caller[r] = "new"
             /\ Cardinality(pending) >= Threshold
             /\ caller' = [caller EXCEPT ![r] = "refused"]
             /\ UNCHANGED pending

Compute(r) == /\ r \in pending
              /\ pending' = pending \ {r}
              /\ UNCHANGED caller

Answer(r) == /\ caller[r] = "waiting"
             /\ r \notin pending
             /\ caller' = [caller EXCEPT ![r] = "answered"]
             /\ UNCHANGED pending

\* The caller's context ends; the work it ordered goes on.
Abandon(r) == /\ caller[r] = "waiting"
              /\ caller' = [caller EXCEPT ![r] = "abandoned"]
              /\ UNCHANGED pending

Next == \E r \in Requests :
            Accept(r) \/ Refuse(r) \/ Compute(r) \/ Answer(r) \/ Abandon(r)

Spec == Init /\ [][Next]_vars
=============================================================================
