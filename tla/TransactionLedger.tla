-------------------------- MODULE TransactionLedger --------------------------
(***************************************************************************)
(* What the write-ahead log of services/platform-engine is for: a set of   *)
(* transactions that only grows, in which a transaction is entered before  *)
(* its client is told so, for as long as the log itself is sound.          *)
(***************************************************************************)
CONSTANT Requests

VARIABLES ledger,      \* the transactions a restart brings back
          answered,    \* the transactions whose clients were told of success
          sound        \* nothing has happened yet that the log does not outlive

vars == <<ledger, answered, sound>>

Init == ledger = {} /\ answered = {} /\ sound = TRUE

Enter(r) == /\ sound
            /\ r \notin ledger
            /\ ledger' = ledger \cup {r}
            /\ UNCHANGED <<answered, sound>>

Answer(r) == /\ sound
             /\ r \in ledger
             /\ answered' = answered \cup {r}
             /\ UNCHANGED <<ledger, sound>>

\* From the first such event on nothing is promised.
Unsound == /\ sound' = FALSE
           /\ ledger' \in SUBSET Requests
           /\ answered' \in SUBSET Requests

Next == (\E r \in Requests : Enter(r) \/ Answer(r)) \/ Unsound

Spec == Init /\ [][Next]_vars
=============================================================================
