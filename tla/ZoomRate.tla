------------------------------ MODULE ZoomRate ------------------------------
(***************************************************************************)
(* What SF-architecture.md asks of the circuit breaker, beside the breaker *)
(* that integration_zoom/zoom_client.go has: a history of the results that *)
(* recordResult was given in the last minute, Window ticks, and the rate   *)
(* of success among them.                                                  *)
(***************************************************************************)
EXTENDS ZoomBreaker, Sequences

CONSTANT Calls         \* so many results make a rate; the bound of the history

VARIABLE recent        \* [ok, age] of every result of the last minute

rateVars == <<breakerVars, recent>>

RateInit == BreakerInit /\ recent = <<>>

\* One tick later.
Aged == LET Older(e) == [e EXCEPT !.age = @ + 1]
            Recent(e) == e.age + 1 < Window
            kept == SelectSeq(recent, Recent)
        IN [i \in DOMAIN kept |-> Older(kept[i])]

\* recordResult is called with a result.
Report(c) == /\ Len(recent) < Calls
             /\ \/ RecordSuccess(c) /\ recent' = Append(recent, [ok |-> TRUE, age |-> 0])
                \/ RecordFailure(c) /\ recent' = Append(recent, [ok |-> FALSE, age |-> 0])

Call(c) == /\ Begin(c) \/ Unconfigured(c) \/ TokenArrives(c) \/ AnswerArrives(c) \/ RequestFails(c)
           /\ UNCHANGED recent

\* Time passes whether the circuit is open or closed.
Pass == /\ Tick \/ (~circuitOpen /\ UNCHANGED breakerVars)
        /\ recent' = Aged

RateNext == \/ \E c \in Callers : Call(c) \/ Report(c)
            \/ Pass
            \/ ZoomChanges /\ UNCHANGED recent

RateSpec == RateInit /\ [][RateNext]_rateVars
-----------------------------------------------------------------------------
Successes == Len(SelectSeq(recent, LAMBDA e : e.ok))

\* SF-architecture.md: if less than nine tenths of the calls of the last minute
\* succeeded, the breaker has tripped.
TripsBelowNinetyPercent ==
    Len(recent) >= Calls /\ 10 * Successes < 9 * Len(recent) => circuitOpen
=============================================================================
