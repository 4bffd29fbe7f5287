---------------------------- MODULE ZoomBreaker ----------------------------
(***************************************************************************)
(* The circuit breaker of integration_zoom/zoom_client.go under calls that *)
(* overlap. CreateMeeting, TerminateMeeting and GetMeetingStatus differ    *)
(* only in what they answer: each asks circuitOpen, sends for an access    *)
(* token, sends its request, and records the result. The mutex is held     *)
(* inside circuitOpen and inside recordResult, never in between.           *)
(***************************************************************************)
EXTENDS Integers

CONSTANTS Callers,     \* goroutines that use the client, any number of times
          Threshold,   \* failures in a row that open the circuit
          Window       \* how many ticks it then stays open

ASSUME BreakerAssumption == Threshold \in Nat \ {0} /\ Window \in Nat \ {0}

VARIABLES failures,    \* counted up to Threshold: more makes no difference
          openFor,     \* circuitOpenUntil, as ticks from now
          stage,       \* where each caller is
          healthy,     \* Zoom answers in time, and no caller gives up
          streak,      \* history: failures in a row, up to Threshold
          sent         \* history: requests of each caller, in an outage, since
                       \* the circuit last opened

breakerVars == <<failures, openFor, stage, healthy, streak, sent>>

Stages == {"idle", "token", "request", "failed", "succeeded"}

BreakerTypeOK == /\ failures \in 0 .. Threshold
                 /\ openFor \in 0 .. Window
                 /\ stage \in [Callers -> Stages]
                 /\ healthy \in BOOLEAN
                 /\ streak \in 0 .. Threshold
                 /\ sent \in [Callers -> Nat]

BreakerInit == /\ failures = 0
               /\ openFor = 0
               /\ stage = [c \in Callers |-> "idle"]
               /\ healthy \in BOOLEAN
               /\ streak = 0
               /\ sent = [c \in Callers |-> 0]

MoveTo(c, to) == stage' = [stage EXCEPT ![c] = to]

Send(c, to) == /\ MoveTo(c, to)
               /\ sent' = [sent EXCEPT ![c] = IF streak = Threshold THEN @ + 1 ELSE 0]
               /\ UNCHANGED <<failures, openFor, healthy, streak>>

\* Mutant: the circuit stays open until a call succeeds, which none then can.
circuitOpenForEver == failures = Threshold

circuitOpen == openFor > 0

\* A caller that finds the circuit open answers at once and is idle again.
Begin(c) == /\ stage[c] = "idle"
            /\ ~circuitOpen
            /\ Send(c, "token")

\* No credentials: getAccessToken fails before it sends anything.
Unconfigured(c) == /\ stage[c] = "idle"
                   /\ ~circuitOpen
                   /\ ~healthy
                   /\ MoveTo(c, "failed")
                   /\ UNCHANGED <<failures, openFor, healthy, streak, sent>>

TokenArrives(c) == /\ stage[c] = "token"
                   /\ Send(c, "request")

AnswerArrives(c) == /\ stage[c] = "request"
                    /\ MoveTo(c, "succeeded")
                    /\ UNCHANGED <<failures, openFor, healthy, streak, sent>>

\* A timeout, a cancelled context, a status that is no success, or a body that
\* cannot be decoded.
RequestFails(c) == /\ stage[c] \in {"token", "request"}
                   /\ ~healthy
                   /\ MoveTo(c, "failed")
                   /\ UNCHANGED <<failures, openFor, healthy, streak, sent>>

RecordSuccess(c) == /\ stage[c] = "succeeded"
                    /\ failures' = 0
                    /\ openFor' = 0
                    /\ streak' = 0
                    /\ sent' = [d \in Callers |-> 0]
                    /\ MoveTo(c, "idle")
                    /\ UNCHANGED healthy

Open == /\ openFor' = Window
        /\ sent' = [c \in Callers |-> 0]

OneMore(n) == IF n < Threshold THEN n + 1 ELSE n

\* Mutant: opening the circuit starts the count again.
RecordFailureForgets(c) == /\ stage[c] = "failed"
                           /\ IF OneMore(failures) = Threshold
                              THEN failures' = 0 /\ Open
                              ELSE failures' = OneMore(failures) /\ UNCHANGED <<openFor, sent>>
                           /\ streak' = OneMore(streak)
                           /\ MoveTo(c, "idle")
                           /\ UNCHANGED healthy

RecordFailure(c) == /\ stage[c] = "failed"
                    /\ failures' = OneMore(failures)
                    /\ IF OneMore(failures) = Threshold
                       THEN Open
                       ELSE UNCHANGED <<openFor, sent>>
                    /\ streak' = OneMore(streak)
                    /\ MoveTo(c, "idle")
                    /\ UNCHANGED healthy

Tick == /\ openFor > 0
        /\ openFor' = openFor - 1
        /\ UNCHANGED <<failures, stage, healthy, streak, sent>>

ZoomChanges == /\ healthy' = ~healthy
               /\ UNCHANGED <<failures, openFor, stage, streak, sent>>
-----------------------------------------------------------------------------
Proceed(c) == \/ TokenArrives(c) \/ AnswerArrives(c) \/ RequestFails(c)
              \/ RecordSuccess(c) \/ RecordFailure(c)

BreakerNext == \/ \E c \in Callers : Begin(c) \/ Unconfigured(c) \/ Proceed(c)
               \/ Tick \/ ZoomChanges

BreakerSpec == BreakerInit /\ [][BreakerNext]_breakerVars

\* Every request has a timeout, every lock is released, time passes.
BreakerFairSpec == BreakerSpec /\ WF_breakerVars(Tick) /\ \A c \in Callers : WF_breakerVars(Proceed(c))
-----------------------------------------------------------------------------
\* While an outage lasts, each caller troubles Zoom with one call at most
\* between two openings of the circuit: what was under way when it opened, or
\* one probe when the window is over, since its failure opens it again.
OutageTrafficIsBounded == streak = Threshold => \A c \in Callers : sent[c] <= 2

\* Once Zoom is well, the circuit closes and stays closed: neither the failures
\* still under way nor a count left over from the outage keep it open.
Recovers == <>[]healthy => <>[]~circuitOpen
=============================================================================
