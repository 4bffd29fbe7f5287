----------------------------- MODULE LoginGuard -----------------------------
(***************************************************************************)
(* What stands between a client and a password of the mock engine: the     *)
(* limit on concurrent requests (main.go), the request windows of each IP  *)
(* and the failure count of each account (rate_limiter.go), as the login   *)
(* and register handlers (auth_handler.go) use them, and the loop that     *)
(* evicts old trackers. A tracker is found in its map first and locked     *)
(* afterwards; it is named by the request that stored it.                  *)
(*                                                                         *)
(* A request may wait for its body as long as its client likes. Everything *)
(* else that it does, the hash within two seconds included, and a sweep of *)
(* the loop are far shorter than a tick: the clock stands still while they *)
(* are under way; MaxTime bounds it.                                       *)
(***************************************************************************)
EXTENDS Integers, FiniteSets

CONSTANTS Requests, IPs, Accounts,
          MaxConcurrent,             \* requests inside at once
          PerMinute, PerFiveMinutes, \* requests of one IP
          Limit,                     \* failures that lock an account
          Minute, FiveMinutes, TenMinutes, Hour, MaxTime,
          None

ASSUME GuardAssumption ==
    /\ IsFiniteSet(Requests)
    /\ None \notin Requests \cup IPs \cup Accounts
    /\ {MaxConcurrent, PerMinute, PerFiveMinutes, Limit} \subseteq Nat \ {0}
    /\ {Minute, FiveMinutes, TenMinutes, Hour, MaxTime} \subseteq Nat
    /\ Minute <= FiveMinutes /\ FiveMinutes <= TenMinutes /\ TenMinutes <= Hour

VARIABLES pc,                  \* where each request is
          req,                 \* what it asks for: kind, ip and account
          at,                  \* the time it was let through
          recorded,            \* the time its attempt was recorded
          throttle,            \* the IP tracker it found
          held,                \* the account tracker it found
          reply,               \* how it was answered
          forewarned,          \* its account was locked already when it came
          concurrentRequests,
          ipMap, ipTracker,    \* IP -> tracker, and the trackers
          accountMap, accountTracker,
          sweeping,            \* the key the eviction loop is about to delete
          clock

requestVars == <<req, at, forewarned>>
ipVars == <<ipMap, ipTracker>>
accountVars == <<accountMap, accountTracker>>
vars == <<pc, requestVars, recorded, throttle, held, reply, concurrentRequests, ipVars,
          accountVars, sweeping, clock>>

Kinds == {"right", "wrong", "register"}   \* a login by its password, or a registration
Inputs == [kind : Kinds, ip : IPs, account : Accounts]

\* Answers of a handler that ran to its end: not "overload", "throttled" or
\* "refused" (not a POST, a bad body, a locked account, no hash in time).
Verdicts == {"success", "invalid", "locked", "registered"}

Labels == {"new", "entered", "throttling", "decoding", "checking", "reading", "hashing",
           "recording", "leaving", "done"}
IPTrackers == [start1 : Nat, start5 : Nat, count1 : Nat, count5 : Nat, active : Nat,
               blocked : BOOLEAN]
AccountTrackers == [failed : Nat, last : Nat, locked : BOOLEAN]

ASSUME NoneAssumption == None \notin Verdicts \cup IPTrackers \cup AccountTrackers

TypeOK == /\ pc \in [Requests -> Labels]
          /\ req \in [Requests -> Inputs \cup {None}]
          /\ at \in [Requests -> Nat] /\ recorded \in [Requests -> Nat]
          /\ throttle \in [Requests -> Requests \cup {None}]
          /\ held \in [Requests -> Requests \cup {None}]
          /\ reply \in [Requests -> Verdicts \cup {"overload", "throttled", "refused", None}]
          /\ forewarned \in [Requests -> Requests \cup {None}]
          /\ concurrentRequests \in Nat
          /\ ipMap \in [IPs -> Requests \cup {None}]
          /\ ipTracker \in [Requests -> IPTrackers \cup {None}]
          /\ accountMap \in [Accounts -> Requests \cup {None}]
          /\ accountTracker \in [Requests -> AccountTrackers \cup {None}]
          /\ sweeping \in IPs \cup Accounts \cup {None}
          /\ clock \in Nat

Inside == {r \in Requests : pc[r] \notin {"new", "done"}}
Elapsed(since) == clock - since

FreshIP == [start1 |-> clock, start5 |-> clock, count1 |-> 0, count5 |-> 0,
            active |-> clock, blocked |-> FALSE]
FreshAccount == [failed |-> 0, last |-> clock, locked |-> FALSE]

IsLockedNow(a) == accountMap[a] # None /\ accountTracker[accountMap[a]].locked

Init == /\ pc = [r \in Requests |-> "new"]
        /\ req = [r \in Requests |-> None]
        /\ at = [r \in Requests |-> 0] /\ recorded = [r \in Requests |-> 0]
        /\ throttle = [r \in Requests |-> None]
        /\ held = [r \in Requests |-> None]
        /\ reply = [r \in Requests |-> None]
        /\ forewarned = [r \in Requests |-> None]
        /\ concurrentRequests = 0
        /\ ipMap = [i \in IPs |-> None]
        /\ ipTracker = [r \in Requests |-> None]
        /\ accountMap = [a \in Accounts |-> None]
        /\ accountTracker = [r \in Requests |-> None]
        /\ sweeping = None
        /\ clock = 0

Goto(r, label) == pc' = [pc EXCEPT ![r] = label]

\* The handler has written its reply; the deferred function runs next.
Return(r, how) == /\ reply' = [reply EXCEPT ![r] = how]
                  /\ Goto(r, "leaving")
-----------------------------------------------------------------------------
(* circuitBreakerMiddleware.                                               *)

Enter(r, in) == /\ pc[r] = "new"
                /\ concurrentRequests < MaxConcurrent
                /\ concurrentRequests' = concurrentRequests + 1
                /\ req' = [req EXCEPT ![r] = in]
                /\ forewarned' = [forewarned EXCEPT ![r] =
                       IF IsLockedNow(in.account) THEN accountMap[in.account] ELSE None]
                /\ Goto(r, "entered")
                /\ UNCHANGED <<at, recorded, throttle, held, reply, ipVars, accountVars,
                               sweeping, clock>>

\* Mutant: a refused request has already been counted.
TripCounted(r) == /\ pc[r] = "new"
                  /\ concurrentRequests >= MaxConcurrent
                  /\ concurrentRequests' = concurrentRequests + 1
                  /\ reply' = [reply EXCEPT ![r] = "overload"]
                  /\ Goto(r, "done")
                  /\ UNCHANGED <<requestVars, recorded, throttle, held, ipVars, accountVars,
                                 sweeping, clock>>

Trip(r) == /\ pc[r] = "new"
           /\ concurrentRequests >= MaxConcurrent
           /\ reply' = [reply EXCEPT ![r] = "overload"]
           /\ Goto(r, "done")
           /\ UNCHANGED <<requestVars, recorded, throttle, held, concurrentRequests, ipVars,
                          accountVars, sweeping, clock>>

Leave(r) == /\ pc[r] = "leaving"
            /\ concurrentRequests' = concurrentRequests - 1
            /\ req' = [req EXCEPT ![r] = None]
            /\ forewarned' = [forewarned EXCEPT ![r] = None]
            /\ Goto(r, "done")
            /\ UNCHANGED <<at, recorded, throttle, held, reply, ipVars, accountVars,
                           sweeping, clock>>
-----------------------------------------------------------------------------
(* The method, CheckIP, then the decoding of the body.                     *)

MethodNotAllowed(r) == /\ pc[r] = "entered"
                       /\ Return(r, "refused")
                       /\ UNCHANGED <<requestVars, recorded, throttle, held,
                                      concurrentRequests, ipVars, accountVars, sweeping,
                                      clock>>

FindIP(r) == LET i == req[r].ip IN
    /\ pc[r] = "entered"
    /\ IF ipMap[i] = None
       THEN /\ ipMap' = [ipMap EXCEPT ![i] = r]
            /\ ipTracker' = [ipTracker EXCEPT ![r] = FreshIP]
       ELSE UNCHANGED ipVars
    /\ throttle' = [throttle EXCEPT ![r] = ipMap'[i]]
    /\ Goto(r, "throttling")
    /\ UNCHANGED <<requestVars, recorded, held, reply, concurrentRequests, accountVars,
                   sweeping, clock>>

\* Mutant: both windows end one tick early.
CountedEarly(t) ==
    LET five == Elapsed(t.start5) >= FiveMinutes
        one  == Elapsed(t.start1) >= Minute
        c5   == 1 + IF five THEN 0 ELSE t.count5
    IN [start5 |-> IF five THEN clock ELSE t.start5,
        start1 |-> IF one THEN clock ELSE t.start1,
        count5 |-> c5,
        count1 |-> 1 + IF one THEN 0 ELSE t.count1,
        active |-> clock,
        blocked |-> c5 > PerFiveMinutes]

\* The tracker t after one more request.
Counted(t) ==
    LET five == Elapsed(t.start5) > FiveMinutes
        one  == Elapsed(t.start1) > Minute
        c5   == 1 + IF five THEN 0 ELSE t.count5
    IN [start5 |-> IF five THEN clock ELSE t.start5,
        start1 |-> IF one THEN clock ELSE t.start1,
        count5 |-> c5,
        count1 |-> 1 + IF one THEN 0 ELSE t.count1,
        active |-> clock,
        blocked |-> c5 > PerFiveMinutes]

AfterRequest(t) == IF t.blocked THEN [t EXCEPT !.active = clock] ELSE Counted(t)

CheckIP(r) == LET t == AfterRequest(ipTracker[throttle[r]]) IN
    /\ pc[r] = "throttling"
    /\ ipTracker' = [ipTracker EXCEPT ![throttle[r]] = t]
    /\ IF t.blocked \/ t.count1 > PerMinute
       THEN Return(r, "throttled") /\ UNCHANGED at
       ELSE /\ at' = [at EXCEPT ![r] = clock]
            /\ Goto(r, "decoding")
            /\ UNCHANGED reply
    /\ UNCHANGED <<req, forewarned, recorded, throttle, held, concurrentRequests, ipMap,
                   accountVars, sweeping, clock>>

\* The body is there, after any time (the server has no ReadTimeout), or it is
\* no JSON, or the client has gone.
Decode(r) ==
    /\ pc[r] = "decoding"
    /\ \/ Return(r, "refused")
       \/ /\ Goto(r, IF req[r].kind = "register" THEN "hashing" ELSE "checking")
          /\ UNCHANGED reply
    /\ UNCHANGED <<requestVars, recorded, throttle, held, concurrentRequests, ipVars,
                   accountVars, sweeping, clock>>
-----------------------------------------------------------------------------
(* IsAccountLocked.                                                        *)

LoadAccount(r) == LET t == accountMap[req[r].account] IN
    /\ pc[r] = "checking"
    /\ held' = [held EXCEPT ![r] = t]
    /\ Goto(r, IF t = None THEN "hashing" ELSE "reading")
    /\ UNCHANGED <<requestVars, recorded, throttle, reply, concurrentRequests, ipVars,
                   accountVars, sweeping, clock>>

IsAccountLocked(r) ==
    /\ pc[r] = "reading"
    /\ held' = [held EXCEPT ![r] = None]
    /\ IF accountTracker[held[r]].locked
       THEN Return(r, "refused")
       ELSE Goto(r, "hashing") /\ UNCHANGED reply
    /\ UNCHANGED <<requestVars, recorded, throttle, concurrentRequests, ipVars, accountVars,
                   sweeping, clock>>
-----------------------------------------------------------------------------
(* HashPassword: the service of module HashingService refuses, does not    *)
(* answer in two seconds, or answers.                                      *)

HashFails(r) == /\ pc[r] = "hashing"
                /\ Return(r, "refused")
                /\ UNCHANGED <<requestVars, recorded, throttle, held, concurrentRequests,
                               ipVars, accountVars, sweeping, clock>>

Registered(r) == /\ pc[r] = "hashing"
                 /\ req[r].kind = "register"
                 /\ Return(r, "registered")
                 /\ UNCHANGED <<requestVars, recorded, throttle, held, concurrentRequests,
                                ipVars, accountVars, sweeping, clock>>
-----------------------------------------------------------------------------
(* RecordAccountAttempt. What it returns for a right password is ignored.  *)

\* The hash is there, and the tracker is looked up or stored.
FindAccount(r) == LET a == req[r].account IN
    /\ pc[r] = "hashing"
    /\ req[r].kind # "register"
    /\ IF accountMap[a] = None
       THEN /\ accountMap' = [accountMap EXCEPT ![a] = r]
            /\ accountTracker' = [accountTracker EXCEPT ![r] = FreshAccount]
       ELSE UNCHANGED accountVars
    /\ held' = [held EXCEPT ![r] = accountMap'[a]]
    /\ Goto(r, "recording")
    /\ UNCHANGED <<requestVars, recorded, throttle, reply, concurrentRequests, ipVars,
                   sweeping, clock>>

\* Mutants: the limit is off by one; old failures are never forgotten.
FailedOffByOne(t) == LET n == 1 + IF Elapsed(t.last) > Hour THEN 0 ELSE t.failed
                     IN [failed |-> n, last |-> clock, locked |-> n > Limit]
FailedForEver(t) == [failed |-> t.failed + 1, last |-> clock, locked |-> t.failed + 1 >= Limit]

\* The tracker t after one more wrong password.
Failed(t) == LET n == 1 + IF Elapsed(t.last) > Hour THEN 0 ELSE t.failed
             IN [failed |-> n, last |-> clock, locked |-> n >= Limit]

\* Mutant: a right password opens a locked account.
AfterAttemptOpens(t, kind) == IF kind = "right" THEN [t EXCEPT !.failed = 0, !.locked = FALSE]
                              ELSE IF t.locked THEN t
                              ELSE Failed(t)

AfterAttempt(t, kind) == IF t.locked THEN t
                         ELSE IF kind = "right" THEN [t EXCEPT !.failed = 0]
                         ELSE Failed(t)

RecordAttempt(r) == LET t == AfterAttempt(accountTracker[held[r]], req[r].kind) IN
    /\ pc[r] = "recording"
    /\ accountTracker' = [accountTracker EXCEPT ![held[r]] = t]
    /\ recorded' = [recorded EXCEPT ![r] = clock]
    /\ Return(r, IF req[r].kind = "right" THEN "success"
                 ELSE IF t.locked THEN "locked" ELSE "invalid")
    /\ UNCHANGED <<requestVars, throttle, held, concurrentRequests, ipVars, accountMap,
                   sweeping, clock>>
-----------------------------------------------------------------------------
(* cleanupLoop looks at a tracker under its lock and deletes the key after *)
(* the lock is released.                                                   *)

StaleIP(t) == ~t.blocked /\ Elapsed(t.active) > TenMinutes
StaleAccount(t) == Elapsed(t.last) > Hour

Sweep == /\ sweeping = None
         /\ \/ \E i \in IPs : /\ ipMap[i] # None
                              /\ StaleIP(ipTracker[ipMap[i]])
                              /\ sweeping' = i
            \/ \E a \in Accounts : /\ accountMap[a] # None
                                   /\ StaleAccount(accountTracker[accountMap[a]])
                                   /\ sweeping' = a
         /\ UNCHANGED <<pc, requestVars, recorded, throttle, held, reply,
                        concurrentRequests, ipVars, accountVars, clock>>

Evict == /\ sweeping # None
         /\ ipMap' = [i \in IPs |-> IF i = sweeping THEN None ELSE ipMap[i]]
         /\ accountMap' = [a \in Accounts |-> IF a = sweeping THEN None ELSE accountMap[a]]
         /\ sweeping' = None
         /\ UNCHANGED <<pc, requestVars, recorded, throttle, held, reply,
                        concurrentRequests, ipTracker, accountTracker, clock>>

Tick == /\ clock < MaxTime
        /\ \A r \in Requests : pc[r] \in {"new", "decoding", "done"}
        /\ sweeping = None
        /\ clock' = clock + 1
        /\ UNCHANGED <<pc, requestVars, recorded, throttle, held, reply, concurrentRequests,
                       ipVars, accountVars, sweeping>>
-----------------------------------------------------------------------------
Handle(r) == \/ MethodNotAllowed(r) \/ FindIP(r) \/ CheckIP(r) \/ Decode(r)
             \/ LoadAccount(r) \/ IsAccountLocked(r)
             \/ HashFails(r) \/ Registered(r)
             \/ FindAccount(r) \/ RecordAttempt(r)
             \/ Leave(r)

Next == \/ \E r \in Requests :
              Handle(r) \/ Trip(r) \/ \E in \in Inputs : Enter(r, in)
        \/ Sweep \/ Evict \/ Tick

Spec == Init /\ [][Next]_vars
-----------------------------------------------------------------------------
\* A request that left no longer counts and one inside always does, whatever
\* way the handler returned; so the engine is never more than full, and never
\* full of requests that are gone.
InsideIsCounted == /\ concurrentRequests = Cardinality(Inside)
                   /\ concurrentRequests <= MaxConcurrent

\* Wrong passwords looked at with tracker t in the last hour.
Guesses(t) == {r \in Requests : /\ reply[r] \in {"invalid", "locked"}
                                /\ held[r] = t
                                /\ Elapsed(recorded[r]) <= Hour}

\* Within an hour, and as long as no right password comes in between, a tracker
\* lets Limit guesses through, and those that had passed IsAccountLocked when it
\* was locked, which the limit on concurrent requests bounds.
GuessesAreBounded ==
    \A t \in Requests :
        (\A r \in Requests : ~(reply[r] = "success" /\ held[r] = t))
            => Cardinality(Guesses(t)) <= Limit + MaxConcurrent - 1

\* A locked tracker has had Limit wrong passwords in the Limit - 1 hours that
\* end with the last one: older ones are forgotten after an hour without a
\* failure, and no other request brings a lock nearer.
LockIsDeserved ==
    \A t \in Requests :
        (accountTracker[t] # None /\ accountTracker[t].locked)
            => LET failures == {r \in Requests :
                       /\ reply[r] \in {"invalid", "locked"} /\ held[r] = t
                       /\ recorded[r] >= accountTracker[t].last - (Limit - 1) * Hour}
               IN Cardinality(failures) >= Limit

\* Nobody who comes after an account was locked has a password looked at, as
\* long as its tracker is not evicted: only logins under way pass the lock.
LockHolds ==
    \A r \in Requests :
        (reply[r] \in Verdicts \ {"registered"} /\ forewarned[r] # None)
            => accountMap[req[r].account] # forewarned[r]

\* Requests that tracker t let through in the minute that began at time m.
LetThrough(t, m) == {r \in Requests : /\ reply[r] \notin {None, "overload", "throttled"}
                                      /\ throttle[r] = t
                                      /\ at[r] \in m .. m + Minute}

\* Windows do not slide: in the worst minute a tracker lets its share through
\* at the end of one window, whose first request lies before that minute, and
\* again in the next.
IpIsThrottled == \A t \in Requests, m \in 0 .. MaxTime :
                     Cardinality(LetThrough(t, m)) <= 2 * PerMinute - 1
=============================================================================
