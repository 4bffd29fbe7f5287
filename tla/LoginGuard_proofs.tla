------------------------- MODULE LoginGuard_proofs --------------------------
(***************************************************************************)
(* Proofs about LoginGuard for any requests, addresses, accounts, limits   *)
(* and windows. Counting needs that a request inside has not been answered *)
(* (InsideInv) and that trackers in use exist (RefInv). LockInv says how   *)
(* far a request can get whose account was locked when it came. A lock is  *)
(* deserved, and guesses are bounded, because the count of a tracker is at *)
(* once a lower bound for its failures at most so many hours old           *)
(* (FailureInv) and an upper bound for those of the last hour (GuessInv);  *)
(* what is added after it was locked comes from requests that were past    *)
(* the check (Pending), of which there are fewer than MaxConcurrent.       *)
(* The windows of an address come last, with an invariant of their own.    *)
(***************************************************************************)
EXTENDS LoginGuard, FiniteSetTheorems, TLAPS

Wrong == {"invalid", "locked"}
Tracked(t) == accountTracker[t] \in AccountTrackers

InsideInv == \A r \in Requests :
    /\ r \in Inside => req[r] \in Inputs
    /\ pc[r] \notin {"leaving", "done"} => reply[r] = None
    /\ at[r] <= clock /\ recorded[r] <= clock

RefInv ==
    /\ \A i \in IPs : ipMap[i] # None => ipTracker[ipMap[i]] \in IPTrackers
    /\ \A a \in Accounts : accountMap[a] # None => Tracked(accountMap[a])
    /\ \A r \in Requests :
        /\ pc[r] = "throttling" => throttle[r] # None /\ ipTracker[throttle[r]] \in IPTrackers
        /\ (pc[r] \in {"reading", "recording"} \/ reply[r] \in Verdicts \ {"registered"})
              => held[r] # None /\ Tracked(held[r])
        /\ forewarned[r] # None => Tracked(forewarned[r])
        /\ pc[r] = "recording" => req[r].kind # "register"

\* A request that has not recorded an attempt has no tracker of its own yet.
FreshInv == \A r \in Requests :
    pc[r] \notin {"recording", "leaving", "done"} =>
        /\ \A a \in Accounts : accountMap[a] # r
        /\ \A q \in Requests : held[q] # r /\ forewarned[q] # r

LockInv == \A r \in Requests : forewarned[r] # None =>
    /\ req[r].account \in Accounts
    /\ accountTracker[forewarned[r]].locked
    /\ accountMap[req[r].account] = forewarned[r] =>
           /\ pc[r] # "recording"
           /\ pc[r] = "hashing" => req[r].kind = "register"
           /\ pc[r] = "reading" => held[r] = forewarned[r]
           /\ reply[r] \notin Verdicts \ {"registered"}

CountInv == InsideIsCounted

Failures(t, n) == {r \in Requests : /\ reply[r] \in Wrong /\ held[r] = t
                                    /\ recorded[r] >= accountTracker[t].last - (n - 1) * Hour}

FailureAt(t) ==
    LET n == accountTracker[t].failed IN
    /\ accountTracker[t].locked <=> n = Limit
    /\ n <= Limit
    /\ n > 0 => Cardinality(Failures(t, n)) >= n

FailureInv == \A t \in Requests : Tracked(t) => FailureAt(t)

\* Requests inside that may still guess with tracker t although it is locked.
Pending(t) == {r \in Requests :
    \/ pc[r] = "recording" /\ held[r] = t
    \/ /\ pc[r] = "hashing" \/ (pc[r] = "reading" /\ held[r] # t)
       /\ req[r].kind # "register"
       /\ accountMap[req[r].account] = t}

\* Passwords looked at with tracker t.
Attempts(t) == {r \in Requests : reply[r] \in Wrong \cup {"success"} /\ held[r] = t}

Clean(t) == \A r \in Attempts(t) : reply[r] # "success"

GuessAt(t) ==
    LET tracker == accountTracker[t] IN
    /\ ~tracker.locked => \A r \in Attempts(t) : reply[r] \in Wrong => recorded[r] <= tracker.last
    /\ ~tracker.locked /\ Clean(t) => Cardinality(Guesses(t)) <= tracker.failed
    /\ tracker.locked /\ Clean(t) =>
           Cardinality(Guesses(t)) + Cardinality(Pending(t)) <= Limit + MaxConcurrent - 1

GuessInv == \A t \in Requests : Tracked(t) => GuessAt(t)

IInv == /\ TypeOK /\ InsideInv /\ RefInv /\ FreshInv /\ LockInv /\ CountInv
        /\ FailureInv /\ GuessInv
LEMMA SubsetFact == ASSUME NEW S \in SUBSET Requests
                    PROVE  IsFiniteSet(S) /\ Cardinality(S) \in Nat
BY GuardAssumption, FS_Subset, FS_CardinalityType

LEMMA SubsetCount == ASSUME NEW S \in SUBSET Requests, NEW T \in SUBSET S
                     PROVE  Cardinality(T) <= Cardinality(S)
BY SubsetFact, FS_Subset

LEMMA ConstantsFact == /\ Limit \in Nat /\ Limit > 0
                       /\ MaxConcurrent \in Nat /\ MaxConcurrent > 0
                       /\ Hour \in Nat
BY GuardAssumption

LEMMA InitInv == Init => IInv
<1> SUFFICES ASSUME Init PROVE IInv
  OBVIOUS
<1>1. TypeOK
  BY DEF Init, TypeOK, Labels
<1>2. InsideInv /\ FreshInv /\ LockInv
  BY GuardAssumption DEF Init, InsideInv, FreshInv, LockInv, Inside
<1>3. RefInv
  BY NoneAssumption DEF Init, RefInv, Verdicts
<1>4. CountInv
  <2>1. Inside = {}
    BY DEF Init, Inside
  <2> QED BY <2>1, FS_EmptySet, ConstantsFact DEF Init, CountInv, InsideIsCounted
<1>5. FailureInv /\ GuessInv
  BY NoneAssumption DEF Init, FailureInv, GuessInv, Tracked
<1> QED BY <1>1, <1>2, <1>3, <1>4, <1>5 DEF IInv

\* A tracker nobody touches: what was looked at with it stays as it is, time
\* only makes guesses older, and nobody is added who may still guess.
LEMMA TrackerKept ==
    ASSUME IInv, NEW t \in Requests, Tracked(t), accountTracker'[t] = accountTracker[t],
           clock' \in Nat, clock' >= clock,
           \A q \in Attempts(t) \cup Attempts(t)' :
               /\ q \in Requests /\ reply'[q] = reply[q]
               /\ held'[q] = held[q] /\ recorded'[q] = recorded[q],
           accountTracker[t].locked => Pending(t)' \subseteq Pending(t)
    PROVE  FailureAt(t)' /\ GuessAt(t)'
<1> DEFINE n == accountTracker[t].failed
<1>1. FailureAt(t) /\ GuessAt(t) /\ n \in Nat
  BY DEF IInv, FailureInv, GuessInv, Tracked, AccountTrackers
<1>2. Failures(t, n)' = Failures(t, n)
  BY DEF Failures, Attempts, Wrong
<1>3. FailureAt(t)'
  BY <1>1, <1>2 DEF FailureAt
<1>4. Guesses(t)' \subseteq Guesses(t) /\ Guesses(t) \subseteq Requests
  BY ConstantsFact DEF Guesses, Attempts, Wrong, Elapsed, IInv, TypeOK
<1>5. /\ Cardinality(Guesses(t)') \in Nat /\ Cardinality(Guesses(t)) \in Nat
      /\ Cardinality(Guesses(t)') <= Cardinality(Guesses(t))
  BY <1>4, SubsetCount, SubsetFact
<1>6. Clean(t)' => Clean(t)
  BY DEF Clean, Attempts
<1>7. accountTracker[t].locked => /\ Cardinality(Pending(t)') \in Nat
                                  /\ Cardinality(Pending(t)) \in Nat
                                  /\ Cardinality(Pending(t)') <= Cardinality(Pending(t))
  <2>1. Pending(t) \subseteq Requests
    BY DEF Pending
  <2> QED BY <2>1, SubsetCount, SubsetFact
<1>8. accountTracker[t].locked \in BOOLEAN
  BY DEF Tracked, AccountTrackers
<1>9. ~accountTracker[t].locked =>
          \A r \in Attempts(t)' : reply'[r] \in Wrong => recorded'[r] <= accountTracker[t].last
  BY <1>1 DEF GuessAt, Attempts
<1>10. GuessAt(t)'
  BY <1>1, <1>5, <1>6, <1>7, <1>8, <1>9, ConstantsFact DEF GuessAt
<1> QED BY <1>3, <1>10

\* A new tracker: nothing was looked at with it.
LEMMA TrackerFresh ==
    ASSUME IInv, NEW t \in Requests, accountTracker'[t] = FreshAccount, Attempts(t)' = {}
    PROVE  FailureAt(t)' /\ GuessAt(t)'
<1>1. accountTracker'[t].failed = 0 /\ accountTracker'[t].locked = FALSE
  BY DEF FreshAccount
<1>2. Guesses(t)' = {}
  BY DEF Guesses, Attempts, Wrong
<1>3. Cardinality(Guesses(t)') = 0
  BY <1>2, FS_EmptySet
<1> QED BY <1>1, <1>3, ConstantsFact DEF FailureAt, GuessAt

-----------------------------------------------------------------------------
(* Frames: what a step leaves alone.                                       *)

\* A request inside that goes on and is not about to leave the engine.
LEMMA InsideKept ==
    ASSUME IInv, NEW r \in Requests, pc[r] \notin {"new", "done"},
           NEW l \in Labels \ {"new", "done"}, Goto(r, l),
           concurrentRequests' = concurrentRequests
    PROVE  Inside' = Inside /\ CountInv' /\ pc' \in [Requests -> Labels]
<1>1. Inside' = Inside /\ pc' \in [Requests -> Labels]
  BY DEF Goto, Inside, IInv, TypeOK
<1> QED BY <1>1 DEF IInv, CountInv, InsideIsCounted

\* Steps that touch no account tracker and answer nobody after a password was
\* looked at.
LEMMA TrackersKept ==
    ASSUME IInv, accountTracker' = accountTracker, clock' \in Nat, clock' >= clock,
           \A t \in Requests : Tracked(t) =>
               /\ \A q \in Attempts(t) \cup Attempts(t)' :
                     q \in Requests /\ reply'[q] = reply[q] /\ held'[q] = held[q]
                                   /\ recorded'[q] = recorded[q]
               /\ accountTracker[t].locked => Pending(t)' \subseteq Pending(t)
    PROVE  FailureInv' /\ GuessInv'
<1>1. ASSUME NEW t \in Requests, Tracked(t)'
      PROVE  FailureAt(t)' /\ GuessAt(t)'
  <2>1. Tracked(t)
    BY <1>1 DEF Tracked
  <2> QED BY <2>1, TrackerKept
<1> QED BY <1>1 DEF FailureInv, GuessInv

LEMMA EnterInv == ASSUME IInv, NEW r \in Requests, NEW in \in Inputs, Enter(r, in)
                  PROVE  IInv'
<1> USE DEF IInv
<1>1. TypeOK'
  BY GuardAssumption DEF Enter, Goto, TypeOK, Labels, ipVars, accountVars, Inputs
<1>2. InsideInv'
  BY DEF Enter, Goto, TypeOK, InsideInv, Inside
<1>3. RefInv'
  BY DEF Enter, Goto, TypeOK, RefInv, Tracked, ipVars, accountVars, IsLockedNow, Inputs
<1>4. FreshInv'
  BY GuardAssumption DEF Enter, Goto, TypeOK, FreshInv, ipVars, accountVars, Inputs
<1>5. LockInv'
  BY NoneAssumption DEF Enter, Goto, TypeOK, InsideInv, LockInv, IsLockedNow, accountVars, Inputs
<1>6. CountInv'
  <2>1. Inside' = Inside \cup {r} /\ r \notin Inside /\ Inside \in SUBSET Requests
    BY DEF Enter, Goto, TypeOK, Inside
  <2>2. Cardinality(Inside') = Cardinality(Inside) + 1
    BY <2>1, SubsetFact, FS_AddElement
  <2> QED BY <2>2, ConstantsFact DEF Enter, CountInv, InsideIsCounted, TypeOK
<1>7. FailureInv' /\ GuessInv'
  <2>1. reply[r] = None
    BY DEF Enter, InsideInv
  <2>2. accountTracker' = accountTracker /\ clock' \in Nat /\ clock' >= clock
    BY DEF Enter, accountVars, TypeOK
  <2>3. ASSUME NEW t \in Requests
        PROVE  Pending(t)' \subseteq Pending(t)
    BY DEF Enter, Goto, TypeOK, Pending, accountVars
  <2>4. ASSUME NEW t \in Requests, NEW q \in Attempts(t) \cup Attempts(t)'
        PROVE  /\ q \in Requests /\ reply'[q] = reply[q]
               /\ held'[q] = held[q] /\ recorded'[q] = recorded[q]
    BY <2>1, NoneAssumption DEF Enter, TypeOK, Attempts, Wrong, Verdicts
  <2> QED BY <2>2, <2>3, <2>4, TrackersKept
<1> QED BY <1>1, <1>2, <1>3, <1>4, <1>5, <1>6, <1>7

LEMMA TripInv == ASSUME IInv, NEW r \in Requests, Trip(r)
                 PROVE  IInv'
<1> USE DEF IInv
<1>1. TypeOK'
  BY DEF Trip, Goto, TypeOK, Labels, requestVars, ipVars, accountVars
<1>2. InsideInv'
  BY DEF Trip, Goto, TypeOK, InsideInv, Inside, requestVars
<1>3. RefInv'
  BY DEF Trip, Goto, TypeOK, RefInv, Tracked, requestVars, ipVars, accountVars, Verdicts
<1>4. FreshInv'
  BY DEF Trip, Goto, TypeOK, FreshInv, requestVars, accountVars
<1>5. LockInv'
  BY DEF Trip, Goto, TypeOK, LockInv, requestVars, accountVars, Verdicts
<1>6. CountInv'
  <2>1. Inside' = Inside
    BY DEF Trip, Goto, TypeOK, Inside
  <2> QED BY <2>1 DEF Trip, CountInv, InsideIsCounted
<1>7. FailureInv' /\ GuessInv'
  <2>1. reply[r] = None
    BY DEF Trip, InsideInv
  <2>2. accountTracker' = accountTracker /\ clock' \in Nat /\ clock' >= clock
    BY DEF Trip, accountVars, TypeOK
  <2>3. ASSUME NEW t \in Requests
        PROVE  Pending(t)' \subseteq Pending(t)
    BY DEF Trip, Goto, TypeOK, Pending, accountVars, requestVars
  <2>4. ASSUME NEW t \in Requests, NEW q \in Attempts(t) \cup Attempts(t)'
        PROVE  /\ q \in Requests /\ reply'[q] = reply[q]
               /\ held'[q] = held[q] /\ recorded'[q] = recorded[q]
    BY <2>1, NoneAssumption DEF Trip, TypeOK, Attempts, Wrong, Verdicts, requestVars
  <2> QED BY <2>2, <2>3, <2>4, TrackersKept
<1> QED BY <1>1, <1>2, <1>3, <1>4, <1>5, <1>6, <1>7

LEMMA LeaveInv == ASSUME IInv, NEW r \in Requests, Leave(r)
                  PROVE  IInv'
<1> USE DEF IInv
<1>6. CountInv'
  <2>1. Inside' = Inside \ {r} /\ r \in Inside /\ Inside \in SUBSET Requests
    BY DEF Leave, Goto, TypeOK, Inside
  <2>2. Cardinality(Inside') = Cardinality(Inside) - 1
    BY <2>1, SubsetFact, FS_RemoveElement
  <2> QED BY <2>2, ConstantsFact DEF Leave, CountInv, InsideIsCounted, TypeOK
<1>1. TypeOK'
  <2>1. concurrentRequests' \in Nat
    <3>1. Inside' \in SUBSET Requests
      BY DEF Inside
    <3> QED BY <1>6, <3>1, SubsetFact DEF CountInv, InsideIsCounted
  <2> QED BY <2>1 DEF Leave, Goto, TypeOK, Labels, ipVars, accountVars
<1>2. InsideInv'
  BY DEF Leave, Goto, TypeOK, InsideInv, Inside
<1>3. RefInv'
  BY DEF Leave, Goto, TypeOK, RefInv, Tracked, ipVars, accountVars
<1>4. FreshInv'
  BY GuardAssumption DEF Leave, Goto, TypeOK, FreshInv, accountVars
<1>5. LockInv'
  BY DEF Leave, Goto, TypeOK, LockInv, accountVars
<1>7. FailureInv' /\ GuessInv'
  <2>2. accountTracker' = accountTracker /\ clock' \in Nat /\ clock' >= clock
    BY DEF Leave, accountVars, TypeOK
  <2>3. ASSUME NEW t \in Requests
        PROVE  Pending(t)' \subseteq Pending(t)
    BY DEF Leave, Goto, TypeOK, Pending, accountVars
  <2>4. ASSUME NEW t \in Requests, NEW q \in Attempts(t) \cup Attempts(t)'
        PROVE  /\ q \in Requests /\ reply'[q] = reply[q]
               /\ held'[q] = held[q] /\ recorded'[q] = recorded[q]
    BY DEF Leave, Attempts
  <2> QED BY <2>2, <2>3, <2>4, TrackersKept
<1> QED BY <1>1, <1>2, <1>3, <1>4, <1>5, <1>6, <1>7

-----------------------------------------------------------------------------
(* Addresses and early returns.                                            *)

LEMMA FindIPInv == ASSUME IInv, NEW r \in Requests, FindIP(r)
                   PROVE  IInv'
<1> USE DEF IInv
<1> DEFINE i == req[r].ip
<1>0. i \in IPs /\ pc[r] = "entered" /\ Goto(r, "throttling") /\ r # None
  BY GuardAssumption DEF FindIP, InsideInv, Inside, Inputs
<1>a. /\ ipMap' \in [IPs -> Requests \cup {None}]
      /\ ipTracker' \in [Requests -> IPTrackers \cup {None}]
      /\ throttle' \in [Requests -> Requests \cup {None}] /\ throttle'[r] # None
      /\ \A q \in Requests : q # r => throttle'[q] = throttle[q]
      /\ ipTracker'[throttle'[r]] \in IPTrackers
      /\ \A j \in IPs : ipMap'[j] # None => ipTracker'[ipMap'[j]] \in IPTrackers
      /\ \A q \in Requests : ipTracker[q] \in IPTrackers => ipTracker'[q] \in IPTrackers
  <2>1. FreshIP \in IPTrackers
    BY DEF FreshIP, IPTrackers, TypeOK
  <2>2. CASE ipMap[i] = None
    <3>1. /\ ipMap' = [ipMap EXCEPT ![i] = r] /\ ipTracker' = [ipTracker EXCEPT ![r] = FreshIP]
          /\ throttle' = [throttle EXCEPT ![r] = ipMap'[i]]
      BY <2>2 DEF FindIP
    <3> HIDE DEF i
    <3> QED BY <1>0, <2>1, <3>1 DEF TypeOK, RefInv
  <2>3. CASE ipMap[i] # None
    <3>1. /\ ipMap' = ipMap /\ ipTracker' = ipTracker
          /\ throttle' = [throttle EXCEPT ![r] = ipMap[i]]
      BY <2>3 DEF FindIP, ipVars
    <3> HIDE DEF i
    <3> QED BY <1>0, <2>3, <3>1 DEF TypeOK, RefInv
  <2> QED BY <2>2, <2>3
<1>b. UNCHANGED <<requestVars, recorded, held, reply, concurrentRequests, accountVars,
                  sweeping, clock>>
  BY DEF FindIP
<1>6. Inside' = Inside /\ CountInv' /\ pc' \in [Requests -> Labels]
  BY <1>0, <1>b, InsideKept DEF Labels
<1>1. TypeOK'
  BY <1>6, <1>a, <1>b DEF TypeOK, requestVars, accountVars
<1>2. InsideInv'
  BY <1>6, <1>0, <1>b DEF Goto, TypeOK, InsideInv, requestVars
<1>3. RefInv'
  <2>1. \A q \in Requests : q # r => pc'[q] = pc[q] /\ throttle'[q] = throttle[q]
    BY <1>0, <1>a DEF Goto, TypeOK
  <2>2. pc'[r] = "throttling" /\ reply'[r] = reply[r] /\ reply[r] = None
    BY <1>0, <1>b DEF Goto, TypeOK, InsideInv
  <2> QED BY <1>0, <1>a, <1>b, <2>1, <2>2
          DEF TypeOK, RefInv, Tracked, requestVars, accountVars
<1>4. FreshInv'
  BY <1>0, <1>b DEF Goto, TypeOK, FreshInv, requestVars, accountVars
<1>5. LockInv'
  BY <1>0, <1>b DEF Goto, TypeOK, LockInv, requestVars, accountVars
<1>7. FailureInv' /\ GuessInv'
  <2>2. accountTracker' = accountTracker /\ clock' \in Nat /\ clock' >= clock
    BY <1>b DEF accountVars, TypeOK
  <2>3. ASSUME NEW t \in Requests
        PROVE  Pending(t)' \subseteq Pending(t)
    BY <1>0, <1>b DEF Goto, TypeOK, Pending, accountVars, requestVars
  <2>4. ASSUME NEW t \in Requests, NEW q \in Attempts(t) \cup Attempts(t)'
        PROVE  /\ q \in Requests /\ reply'[q] = reply[q]
               /\ held'[q] = held[q] /\ recorded'[q] = recorded[q]
    BY <1>b DEF Attempts, requestVars
  <2> QED BY <2>2, <2>3, <2>4, TrackersKept
<1> QED BY <1>1, <1>2, <1>3, <1>4, <1>5, <1>6, <1>7

LEMMA CountedFact == ASSUME TypeOK, NEW t \in IPTrackers
                     PROVE  AfterRequest(t) \in IPTrackers
<1>1. Counted(t) \in IPTrackers
  <2>1. /\ t.start1 \in Nat /\ t.start5 \in Nat /\ t.count1 \in Nat /\ t.count5 \in Nat
        /\ clock \in Nat /\ PerFiveMinutes \in Nat
    BY GuardAssumption DEF IPTrackers, TypeOK
  <2> QED BY <2>1 DEF Counted, IPTrackers
<1>2. [t EXCEPT !.active = clock] \in IPTrackers
  BY DEF IPTrackers, TypeOK
<1> QED BY <1>1, <1>2 DEF AfterRequest

\* A handler that goes on, or returns without having looked at a password, and
\* does not yet touch accounts.
LEMMA ReplyInv ==
    ASSUME IInv, NEW r \in Requests, pc[r] \notin {"new", "recording", "leaving", "done"},
           \/ /\ Goto(r, "leaving")
              /\ \E how \in {"overload", "throttled", "refused", "registered"} :
                    reply' = [reply EXCEPT ![r] = how]
           \/ Goto(r, "decoding") /\ reply' = reply
           \/ Goto(r, "checking") /\ reply' = reply
           \/ Goto(r, "hashing") /\ req[r].kind = "register" /\ reply' = reply,
           UNCHANGED <<req, forewarned, recorded, throttle, held, concurrentRequests, ipMap,
                       accountVars, sweeping, clock>>,
           at' \in [Requests -> Nat], \A q \in Requests : at'[q] <= clock,
           ipTracker' \in [Requests -> IPTrackers \cup {None}],
           \A q \in Requests : ipTracker[q] \in IPTrackers => ipTracker'[q] \in IPTrackers
    PROVE  IInv'
<1> USE DEF IInv
<1>0. /\ reply[r] = None
      /\ reply' \in [Requests -> Verdicts \cup {"overload", "throttled", "refused", None}]
      /\ reply'[r] \notin Verdicts \ {"registered"}
      /\ \A q \in Requests : q # r => reply'[q] = reply[q]
      /\ pc'[r] # "leaving" => reply'[r] = None
  BY NoneAssumption DEF Goto, InsideInv, TypeOK, Verdicts
<1>b. /\ pc'[r] \in {"leaving", "decoding", "checking", "hashing"}
      /\ pc'[r] = "hashing" => req[r].kind = "register"
      /\ \A q \in Requests : q # r => pc'[q] = pc[q]
  BY DEF Goto, TypeOK
<1>6. Inside' = Inside /\ CountInv' /\ pc' \in [Requests -> Labels]
  BY InsideKept DEF Labels
<1>1. TypeOK'
  BY <1>0, <1>6 DEF TypeOK, accountVars
<1>2. InsideInv'
  BY <1>6, <1>0, <1>b DEF InsideInv
<1>3. RefInv'
  BY <1>0, <1>b DEF TypeOK, RefInv, Tracked, accountVars
<1>4. FreshInv'
  BY <1>0, <1>b DEF FreshInv, accountVars
<1>5. LockInv'
  BY <1>0, <1>b DEF LockInv, accountVars
<1>7. FailureInv' /\ GuessInv'
  <2>2. accountTracker' = accountTracker /\ clock' \in Nat /\ clock' >= clock
    BY DEF accountVars, TypeOK
  <2>3. ASSUME NEW t \in Requests
        PROVE  Pending(t)' \subseteq Pending(t)
    BY <1>b DEF Pending, accountVars
  <2>4. ASSUME NEW t \in Requests, NEW q \in Attempts(t) \cup Attempts(t)'
        PROVE  /\ q \in Requests /\ reply'[q] = reply[q]
               /\ held'[q] = held[q] /\ recorded'[q] = recorded[q]
    BY <1>0, NoneAssumption DEF Attempts, Wrong, Verdicts
  <2> QED BY <2>2, <2>3, <2>4, TrackersKept
<1> QED BY <1>1, <1>2, <1>3, <1>4, <1>5, <1>6, <1>7

LEMMA CheckIPInv == ASSUME IInv, NEW r \in Requests, CheckIP(r)
                    PROVE  IInv'
<1> DEFINE t == AfterRequest(ipTracker[throttle[r]])
<1>1. throttle[r] \in Requests /\ t \in IPTrackers
  BY CountedFact DEF CheckIP, IInv, TypeOK, RefInv
<1>2. ipTracker' = [ipTracker EXCEPT ![throttle[r]] = t]
  BY DEF CheckIP
<1>3. \/ /\ Goto(r, "leaving") /\ at' = at
         /\ \E how \in {"overload", "throttled", "refused", "registered"} :
               reply' = [reply EXCEPT ![r] = how]
      \/ Goto(r, "decoding") /\ reply' = reply /\ at' = [at EXCEPT ![r] = clock]
  BY DEF CheckIP, Return
<1>4. UNCHANGED <<req, forewarned, recorded, throttle, held, concurrentRequests, ipMap,
                  accountVars, sweeping, clock>> /\ pc[r] = "throttling"
  BY DEF CheckIP
<1> HIDE DEF t
<1>5. /\ ipTracker' \in [Requests -> IPTrackers \cup {None}]
      /\ \A q \in Requests : ipTracker[q] \in IPTrackers => ipTracker'[q] \in IPTrackers
  BY <1>1, <1>2 DEF IInv, TypeOK
<1>6. at' \in [Requests -> Nat] /\ \A q \in Requests : at'[q] <= clock
  BY <1>3 DEF IInv, TypeOK, InsideInv
<1> QED BY <1>3, <1>4, <1>5, <1>6, ReplyInv

\* Handlers that return early, or go on from the body.
LEMMA ReturnInv ==
    ASSUME IInv, NEW r \in Requests,
           MethodNotAllowed(r) \/ Decode(r) \/ HashFails(r) \/ Registered(r)
    PROVE  IInv'
<1>1. /\ pc[r] \in {"entered", "decoding", "hashing"}
      /\ \/ /\ Goto(r, "leaving")
            /\ \E how \in {"overload", "throttled", "refused", "registered"} :
                  reply' = [reply EXCEPT ![r] = how]
         \/ Goto(r, "checking") /\ reply' = reply
         \/ Goto(r, "hashing") /\ req[r].kind = "register" /\ reply' = reply
  BY DEF MethodNotAllowed, Decode, HashFails, Registered, Return
<1>2. UNCHANGED <<requestVars, recorded, throttle, held, concurrentRequests, ipVars,
                  accountVars, sweeping, clock>>
  BY DEF MethodNotAllowed, Decode, HashFails, Registered
<1>3. /\ ipTracker' \in [Requests -> IPTrackers \cup {None}] /\ ipMap' = ipMap
      /\ \A q \in Requests : ipTracker[q] \in IPTrackers => ipTracker'[q] \in IPTrackers
      /\ at' \in [Requests -> Nat] /\ \A q \in Requests : at'[q] <= clock
      /\ UNCHANGED <<req, forewarned>>
  BY <1>2 DEF IInv, TypeOK, InsideInv, ipVars, requestVars
<1> QED BY <1>1, <1>2, <1>3, ReplyInv

-----------------------------------------------------------------------------
(* The lock check, the loop and the clock.                                 *)

LEMMA LoadAccountInv == ASSUME IInv, NEW r \in Requests, LoadAccount(r)
                        PROVE  IInv'
<1> USE DEF IInv
<1> DEFINE t == accountMap[req[r].account]
           l == IF t = None THEN "hashing" ELSE "reading"
<1>0. /\ pc[r] = "checking" /\ Goto(r, l) /\ held' = [held EXCEPT ![r] = t]
      /\ req[r].account \in Accounts /\ t \in Requests \cup {None} /\ reply[r] = None
  BY DEF LoadAccount, InsideInv, Inside, Inputs, TypeOK
<1>b. UNCHANGED <<requestVars, recorded, throttle, reply, concurrentRequests, ipVars,
                  accountVars, sweeping, clock>>
  BY DEF LoadAccount
<1>c. /\ pc'[r] = l /\ held'[r] = t
      /\ \A q \in Requests : q # r => pc'[q] = pc[q] /\ held'[q] = held[q]
  BY <1>0 DEF Goto, TypeOK
<1>d. t # None => Tracked(t) /\ ~\E q \in Requests : /\ q = t
                                                   /\ pc[q] \notin {"recording", "leaving", "done"}
  BY <1>0 DEF RefInv, FreshInv
<1>6. Inside' = Inside /\ CountInv' /\ pc' \in [Requests -> Labels]
  BY <1>0, <1>b, InsideKept DEF Labels
<1>1. TypeOK'
  BY <1>6, <1>0, <1>b DEF TypeOK, requestVars, ipVars, accountVars
<1>2. InsideInv'
  BY <1>6, <1>0, <1>b, <1>c DEF InsideInv, requestVars
<1>3. RefInv'
  BY <1>0, <1>b, <1>c, <1>d, NoneAssumption
     DEF RefInv, Tracked, requestVars, ipVars, accountVars, Verdicts
<1>4. FreshInv'
  BY <1>0, <1>b, <1>c, <1>d, GuardAssumption DEF FreshInv, requestVars, accountVars
<1>5. LockInv'
  BY <1>0, <1>b, <1>c DEF LockInv, requestVars, accountVars
<1>7. FailureInv' /\ GuessInv'
  <2>2. accountTracker' = accountTracker /\ clock' \in Nat /\ clock' >= clock
    BY <1>b DEF accountVars, TypeOK
  <2>3. ASSUME NEW u \in Requests
        PROVE  Pending(u)' \subseteq Pending(u)
    <3>1. r \notin Pending(u)'
      BY <1>0, <1>b, <1>c, GuardAssumption DEF Pending, accountVars, requestVars
    <3> QED BY <1>b, <1>c, <3>1 DEF Pending, accountVars, requestVars
  <2>4. ASSUME NEW u \in Requests, NEW q \in Attempts(u) \cup Attempts(u)'
        PROVE  /\ q \in Requests /\ reply'[q] = reply[q]
               /\ held'[q] = held[q] /\ recorded'[q] = recorded[q]
    BY <1>0, <1>b, <1>c, NoneAssumption DEF Attempts, Wrong, Verdicts, requestVars
  <2> QED BY <2>2, <2>3, <2>4, TrackersKept
<1> QED BY <1>1, <1>2, <1>3, <1>4, <1>5, <1>6, <1>7

LEMMA IsAccountLockedInv == ASSUME IInv, NEW r \in Requests, IsAccountLocked(r)
                            PROVE  IInv'
<1> USE DEF IInv
<1>0. /\ pc[r] = "reading" /\ held' = [held EXCEPT ![r] = None] /\ reply[r] = None
      /\ held[r] \in Requests /\ Tracked(held[r])
  BY DEF IsAccountLocked, InsideInv, RefInv, TypeOK
<1>a. \/ /\ accountTracker[held[r]].locked /\ Goto(r, "leaving")
         /\ reply' = [reply EXCEPT ![r] = "refused"]
      \/ /\ ~accountTracker[held[r]].locked /\ Goto(r, "hashing") /\ reply' = reply
  BY DEF IsAccountLocked, Return
<1>b. UNCHANGED <<requestVars, recorded, throttle, concurrentRequests, ipVars, accountVars,
                  sweeping, clock>>
  BY DEF IsAccountLocked
<1>c. /\ held'[r] = None
      /\ \/ accountTracker[held[r]].locked /\ pc'[r] = "leaving" /\ reply'[r] = "refused"
         \/ ~accountTracker[held[r]].locked /\ pc'[r] = "hashing" /\ reply'[r] = None
      /\ \A q \in Requests : q # r => /\ pc'[q] = pc[q] /\ held'[q] = held[q]
                                      /\ reply'[q] = reply[q]
  BY <1>0, <1>a DEF Goto, TypeOK
<1>6. Inside' = Inside /\ CountInv' /\ pc' \in [Requests -> Labels]
  BY <1>0, <1>a, <1>b, InsideKept DEF Labels
<1>1. TypeOK'
  <2>1. /\ reply' \in [Requests -> Verdicts \cup {"overload", "throttled", "refused", None}]
        /\ held' \in [Requests -> Requests \cup {None}]
    BY <1>0, <1>a DEF TypeOK
  <2> QED BY <1>6, <1>b, <2>1 DEF TypeOK, requestVars, ipVars, accountVars
<1>2. InsideInv'
  BY <1>6, <1>0, <1>b, <1>c DEF InsideInv, requestVars
<1>3. RefInv'
  BY <1>0, <1>b, <1>c, NoneAssumption
     DEF RefInv, Tracked, requestVars, ipVars, accountVars, Verdicts
<1>4. FreshInv'
  BY <1>0, <1>b, <1>c, GuardAssumption DEF FreshInv, requestVars, accountVars
<1>5. LockInv'
  BY <1>0, <1>b, <1>c, NoneAssumption DEF LockInv, requestVars, accountVars, Verdicts
<1>7. FailureInv' /\ GuessInv'
  <2>2. accountTracker' = accountTracker /\ clock' \in Nat /\ clock' >= clock
    BY <1>b DEF accountVars, TypeOK
  <2>3. ASSUME NEW u \in Requests, accountTracker[u].locked
        PROVE  Pending(u)' \subseteq Pending(u)
    <3>1. r \in Pending(u)' => r \in Pending(u)
      BY <1>0, <1>b, <1>c, <2>3, GuardAssumption DEF Pending, accountVars, requestVars
    <3> QED BY <1>b, <1>c, <3>1 DEF Pending, accountVars, requestVars
  <2>4. ASSUME NEW u \in Requests, NEW q \in Attempts(u) \cup Attempts(u)'
        PROVE  /\ q \in Requests /\ reply'[q] = reply[q]
               /\ held'[q] = held[q] /\ recorded'[q] = recorded[q]
    BY <1>0, <1>b, <1>c, NoneAssumption DEF Attempts, Wrong, Verdicts, requestVars
  <2> QED BY <2>2, <2>3, <2>4, TrackersKept
<1> QED BY <1>1, <1>2, <1>3, <1>4, <1>5, <1>6, <1>7

LEMMA SweepInv == ASSUME IInv, Sweep \/ Tick
                  PROVE  IInv'
<1> USE DEF IInv
<1>a. /\ UNCHANGED <<pc, requestVars, recorded, throttle, held, reply, concurrentRequests,
                     ipVars, accountVars>>
      /\ sweeping' \in IPs \cup Accounts \cup {None}
      /\ clock' \in Nat /\ clock' >= clock
  BY DEF Sweep, Tick, TypeOK
<1>1. TypeOK'
  BY <1>a DEF TypeOK, requestVars, ipVars, accountVars
<1>2. InsideInv'
  BY <1>a DEF InsideInv, Inside, requestVars, TypeOK
<1>3. RefInv' /\ FreshInv' /\ LockInv' /\ CountInv'
  BY <1>a DEF RefInv, FreshInv, LockInv, CountInv, InsideIsCounted, Inside, Tracked,
              requestVars, ipVars, accountVars
<1>7. FailureInv' /\ GuessInv'
  <2>1. ASSUME NEW u \in Requests
        PROVE  Pending(u)' = Pending(u) /\ Attempts(u)' = Attempts(u)
    BY <1>a DEF Pending, Attempts, accountVars, requestVars
  <2>2. accountTracker' = accountTracker
    BY <1>a DEF accountVars
  <2>4. ASSUME NEW u \in Requests, NEW q \in Attempts(u) \cup Attempts(u)'
        PROVE  /\ q \in Requests /\ reply'[q] = reply[q]
               /\ held'[q] = held[q] /\ recorded'[q] = recorded[q]
    BY <1>a DEF Attempts, requestVars
  <2> QED BY <1>a, <2>1, <2>2, <2>4, TrackersKept
<1> QED BY <1>1, <1>2, <1>3, <1>7

LEMMA EvictInv == ASSUME IInv, Evict
                  PROVE  IInv'
<1> USE DEF IInv
<1>a. /\ UNCHANGED <<pc, requestVars, recorded, throttle, held, reply, concurrentRequests,
                     ipTracker, accountTracker, clock>>
      /\ ipMap' \in [IPs -> Requests \cup {None}]
      /\ accountMap' \in [Accounts -> Requests \cup {None}]
      /\ \A i \in IPs : ipMap'[i] \in {ipMap[i], None}
      /\ \A b \in Accounts : accountMap'[b] \in {accountMap[b], None}
      /\ sweeping' = None
  BY DEF Evict, TypeOK
<1>1. TypeOK'
  BY <1>a DEF TypeOK, requestVars
<1>2. InsideInv' /\ CountInv'
  BY <1>a DEF InsideInv, CountInv, InsideIsCounted, Inside, requestVars
<1>3. RefInv'
  BY <1>a DEF RefInv, Tracked, requestVars
<1>4. FreshInv'
  BY <1>a, GuardAssumption DEF FreshInv, requestVars
<1>5. LockInv'
  <2>1. ASSUME NEW r \in Requests, forewarned[r] # None,
               accountMap'[req[r].account] = forewarned[r]
        PROVE  accountMap[req[r].account] = forewarned[r]
    BY <1>a, <2>1, GuardAssumption DEF LockInv, TypeOK
  <2> QED BY <1>a, <2>1 DEF LockInv, requestVars
<1>7. FailureInv' /\ GuessInv'
  <2>3. ASSUME NEW u \in Requests
        PROVE  Pending(u)' \subseteq Pending(u)
    <3>1. ASSUME NEW q \in Requests, pc[q] \in {"hashing", "reading"},
                 accountMap'[req[q].account] = u
          PROVE  accountMap[req[q].account] = u
      BY <1>a, <3>1, GuardAssumption DEF InsideInv, Inside, Inputs
    <3> QED BY <1>a, <3>1 DEF Pending, requestVars
  <2>4. ASSUME NEW u \in Requests, NEW q \in Attempts(u) \cup Attempts(u)'
        PROVE  /\ q \in Requests /\ reply'[q] = reply[q]
               /\ held'[q] = held[q] /\ recorded'[q] = recorded[q]
    BY <1>a DEF Attempts, requestVars
  <2> QED BY <1>a, <2>3, <2>4, TrackersKept DEF TypeOK
<1> QED BY <1>1, <1>2, <1>3, <1>4, <1>5, <1>7

-----------------------------------------------------------------------------
(* Recording an attempt.                                                   *)

LEMMA FindAccountInv == ASSUME IInv, NEW r \in Requests, FindAccount(r)
                        PROVE  IInv'
<1> USE DEF IInv
<1> DEFINE a == req[r].account
<1>0. /\ pc[r] = "hashing" /\ Goto(r, "recording") /\ a \in Accounts /\ reply[r] = None
      /\ r # None /\ req[r].kind # "register"
      /\ \A q \in Requests : held[q] # r /\ forewarned[q] # r
      /\ \A b \in Accounts : accountMap[b] # r
  BY GuardAssumption DEF FindAccount, InsideInv, Inside, Inputs, FreshInv
<1>b. /\ UNCHANGED <<requestVars, recorded, throttle, reply, concurrentRequests, ipVars,
                     sweeping, clock>>
      /\ held' = [held EXCEPT ![r] = accountMap'[a]]
  BY DEF FindAccount
\* Either the tracker is found, or a fresh one is stored under its own name.
<1>c. \/ /\ accountMap[a] \in Requests /\ accountMap[a] # r /\ Tracked(accountMap[a])
         /\ accountMap' = accountMap /\ accountTracker' = accountTracker
      \/ /\ accountMap[a] = None /\ accountMap' = [accountMap EXCEPT ![a] = r]
         /\ accountTracker' = [accountTracker EXCEPT ![r] = FreshAccount]
  BY <1>0 DEF FindAccount, accountVars, RefInv, TypeOK
<1>d. FreshAccount \in AccountTrackers
  BY DEF FreshAccount, AccountTrackers, TypeOK
<1> HIDE DEF a
<1>e. /\ accountMap' \in [Accounts -> Requests \cup {None}] /\ accountMap'[a] \in Requests
      /\ accountTracker' \in [Requests -> AccountTrackers \cup {None}]
      /\ accountTracker'[accountMap'[a]] \in AccountTrackers
      /\ \A t \in Requests : t # r => accountTracker'[t] = accountTracker[t]
      /\ \A t \in Requests : accountTracker[t] \in AccountTrackers =>
             accountTracker'[t] \in AccountTrackers
      /\ \A b \in Accounts : accountMap'[b] # None =>
             accountTracker'[accountMap'[b]] \in AccountTrackers
      /\ \A b \in Accounts : b # a => accountMap'[b] = accountMap[b]
      /\ accountMap'[a] \in {accountMap[a], r}
      /\ accountMap[a] # None => accountMap'[a] = accountMap[a]
  <2>1. CASE accountMap' = accountMap /\ accountTracker' = accountTracker
    BY <1>0, <1>c, <2>1, GuardAssumption DEF TypeOK, RefInv, Tracked
  <2>2. CASE /\ accountMap[a] = None /\ accountMap' = [accountMap EXCEPT ![a] = r]
             /\ accountTracker' = [accountTracker EXCEPT ![r] = FreshAccount]
    <3>1. /\ accountMap' \in [Accounts -> Requests \cup {None}] /\ accountMap'[a] = r
          /\ \A b \in Accounts : b # a => accountMap'[b] = accountMap[b]
      BY <1>0, <2>2 DEF TypeOK
    <3>2. /\ accountTracker' \in [Requests -> AccountTrackers \cup {None}]
          /\ accountTracker'[r] = FreshAccount
          /\ \A t \in Requests : t # r => accountTracker'[t] = accountTracker[t]
      BY <1>d, <2>2 DEF TypeOK
    <3>3. \A b \in Accounts : accountMap'[b] # None =>
             accountTracker'[accountMap'[b]] \in AccountTrackers
      BY <1>0, <1>d, <3>1, <3>2 DEF TypeOK, RefInv, Tracked
    <3> QED BY <1>0, <1>d, <2>2, <3>1, <3>2, <3>3 DEF Tracked
  <2> QED BY <1>c, <2>1, <2>2
<1>f. /\ pc'[r] = "recording" /\ held'[r] = accountMap'[a]
      /\ \A q \in Requests : q # r => pc'[q] = pc[q] /\ held'[q] = held[q]
  BY <1>0, <1>b DEF Goto, TypeOK
<1>6. Inside' = Inside /\ CountInv' /\ pc' \in [Requests -> Labels]
  BY <1>0, <1>b, InsideKept DEF Labels
<1>1. TypeOK'
  <2>1. held' \in [Requests -> Requests \cup {None}]
    BY <1>b, <1>e DEF TypeOK
  <2> QED BY <1>6, <1>b, <1>e, <2>1 DEF TypeOK, requestVars, ipVars
<1>2. InsideInv'
  BY <1>6, <1>0, <1>b, <1>f DEF InsideInv, requestVars
<1>3. RefInv'
  <2>1. \A i \in IPs : ipMap'[i] # None => ipTracker'[ipMap'[i]] \in IPTrackers
    BY <1>b DEF RefInv, ipVars
  <2>2. ASSUME NEW q \in Requests
        PROVE  /\ pc'[q] = "throttling" =>
                     throttle'[q] # None /\ ipTracker'[throttle'[q]] \in IPTrackers
               /\ pc'[q] = "recording" => req'[q].kind # "register"
    BY <1>0, <1>b, <1>f DEF RefInv, ipVars, requestVars
  <2>3. ASSUME NEW q \in Requests
        PROVE  /\ (pc'[q] \in {"reading", "recording"} \/ reply'[q] \in Verdicts \ {"registered"})
                      => held'[q] # None /\ accountTracker'[held'[q]] \in AccountTrackers
               /\ forewarned'[q] # None => accountTracker'[forewarned'[q]] \in AccountTrackers
    <3>1. forewarned' = forewarned /\ reply' = reply
      BY <1>b DEF requestVars
    <3>2. forewarned[q] # None => accountTracker'[forewarned[q]] \in AccountTrackers
      BY <1>e DEF RefInv, TypeOK, Tracked
    <3>3. CASE q = r
      BY <1>0, <1>e, <1>f, <3>1, <3>2, <3>3, GuardAssumption
    <3>4. CASE q # r
      <4>1. pc'[q] = pc[q] /\ held'[q] = held[q]
        BY <1>f, <3>4
      <4>2. (held[q] # None /\ Tracked(held[q])) => accountTracker'[held[q]] \in AccountTrackers
        BY <1>e DEF TypeOK, Tracked
      <4> QED BY <3>1, <3>2, <4>1, <4>2 DEF RefInv, Tracked
    <3> QED BY <3>3, <3>4
  <2> QED BY <1>e, <2>1, <2>2, <2>3 DEF RefInv, Tracked
<1>4. FreshInv'
  <2>1. ASSUME NEW q \in Requests, pc'[q] \notin {"recording", "leaving", "done"}
        PROVE  /\ \A b \in Accounts : accountMap'[b] # q
               /\ \A p \in Requests : held'[p] # q /\ forewarned'[p] # q
    <3>1. q # r /\ pc[q] \notin {"recording", "leaving", "done"}
      BY <1>f, <2>1
    <3>2. \A b \in Accounts : accountMap'[b] # q
      BY <1>e, <3>1 DEF FreshInv
    <3>3. \A p \in Requests : held[p] # q /\ forewarned[p] # q
      BY <3>1 DEF FreshInv
    <3> QED BY <1>0, <1>b, <1>f, <3>2, <3>3 DEF requestVars
  <2> QED BY <2>1 DEF FreshInv
<1>5. LockInv'
  <2>1. ASSUME NEW q \in Requests, forewarned'[q] # None
        PROVE  /\ req'[q].account \in Accounts
               /\ accountTracker'[forewarned'[q]].locked
               /\ accountMap'[req'[q].account] = forewarned'[q] =>
                    /\ pc'[q] # "recording"
                    /\ pc'[q] = "hashing" => req'[q].kind = "register"
                    /\ pc'[q] = "reading" => held'[q] = forewarned'[q]
                    /\ reply'[q] \notin Verdicts \ {"registered"}
    <3>1. forewarned' = forewarned /\ req' = req /\ reply' = reply
      BY <1>b DEF requestVars
    <3>2. /\ forewarned[q] \in Requests /\ forewarned[q] # r
          /\ req[q].account \in Accounts /\ accountTracker[forewarned[q]].locked
      BY <1>0, <2>1, <3>1 DEF LockInv, TypeOK
    <3>3. accountMap'[req[q].account] = forewarned[q] => accountMap[req[q].account] = forewarned[q]
      BY <1>e, <3>2
    <3>4. accountMap[a] = forewarned[r] => forewarned[r] = None
      BY <1>0 DEF LockInv, a
    <3>5. q = r => accountMap'[req[q].account] # forewarned[q]
      BY <2>1, <3>1, <3>3, <3>4 DEF a
    <3> QED BY <1>e, <1>f, <2>1, <3>1, <3>2, <3>3, <3>5 DEF LockInv
  <2> QED BY <2>1 DEF LockInv
<1>7. FailureInv' /\ GuessInv'
  <2>1. ASSUME NEW t \in Requests, Tracked(t)'
        PROVE  FailureAt(t)' /\ GuessAt(t)'
    <3>1. ASSUME NEW q \in Attempts(t) \cup Attempts(t)'
          PROVE  /\ q \in Requests /\ reply'[q] = reply[q]
                 /\ held'[q] = held[q] /\ recorded'[q] = recorded[q]
      BY <1>0, <1>b, <1>f, NoneAssumption DEF Attempts, Wrong, Verdicts, requestVars
    <3>2. CASE accountTracker'[t] = accountTracker[t]
      <4>1. Tracked(t) /\ clock' \in Nat /\ clock' >= clock
        BY <1>b, <2>1, <3>2 DEF Tracked, TypeOK
      <4>2. ASSUME accountTracker[t].locked
            PROVE  Pending(t)' \subseteq Pending(t)
        <5>1. r \in Pending(t)' => r \in Pending(t)
          <6>1. CASE t # r
            BY <1>0, <1>b, <1>e, <1>f, <6>1 DEF Pending, requestVars, a
          <6>2. CASE t = r
            <7>1. accountTracker'[r] # FreshAccount
              BY <3>2, <4>2, <6>2 DEF FreshAccount
            <7>2. accountMap' = accountMap
              BY <1>c, <7>1 DEF TypeOK
            <7> QED BY <1>0, <1>b, <1>f, <6>2, <7>2 DEF Pending, requestVars, a
          <6> QED BY <6>1, <6>2
        <5>2. ASSUME NEW q \in Pending(t)', q # r
              PROVE  q \in Pending(t)
          <6>1. CASE pc[q] = "recording"
            BY <1>f, <5>2, <6>1 DEF Pending
          <6>2. CASE pc[q] # "recording"
            <7>1. /\ pc[q] \in {"hashing", "reading"} /\ req[q].account \in Accounts
                  /\ accountMap'[req[q].account] = t
                  /\ pc[q] = "hashing" \/ (pc[q] = "reading" /\ held[q] # t)
                  /\ req[q].kind # "register" /\ q \in Requests
              BY <1>b, <1>f, <5>2, <6>2 DEF Pending, InsideInv, Inside, Inputs, requestVars
            <7>2. accountMap[req[q].account] = t
              <8>1. CASE t # r
                BY <1>e, <7>1, <8>1
              <8>2. CASE t = r
                <9>1. accountTracker'[r] # FreshAccount
                  BY <3>2, <4>2, <8>2 DEF FreshAccount
                <9> QED BY <1>c, <7>1, <9>1 DEF TypeOK
              <8> QED BY <8>1, <8>2
            <7> QED BY <7>1, <7>2 DEF Pending
          <6> QED BY <6>1, <6>2
        <5> QED BY <5>1, <5>2
      <4> QED BY <3>1, <3>2, <4>1, <4>2, TrackerKept
    <3>3. CASE accountTracker'[t] # accountTracker[t]
      <4>1. t = r /\ accountTracker'[t] = FreshAccount
        BY <1>c, <1>e, <3>3 DEF TypeOK
      <4>2. Attempts(t)' = {}
        BY <1>0, <3>1, <4>1 DEF Attempts
      <4> QED BY <4>1, <4>2, TrackerFresh
    <3> QED BY <3>2, <3>3
  <2> QED BY <2>1 DEF FailureInv, GuessInv
<1> QED BY <1>1, <1>2, <1>3, <1>4, <1>5, <1>6, <1>7

LEMMA AfterAttemptFact == ASSUME TypeOK, NEW t \in AccountTrackers, NEW kind
                          PROVE  /\ AfterAttempt(t, kind) \in AccountTrackers
                                 /\ t.locked => AfterAttempt(t, kind) = t
<1>1. t.failed \in Nat /\ t.last \in Nat /\ t.locked \in BOOLEAN /\ clock \in Nat
  BY DEF AccountTrackers, TypeOK
<1>2. Failed(t) \in AccountTrackers
  BY <1>1, ConstantsFact DEF Failed, AccountTrackers
<1>3. [t EXCEPT !.failed = 0] \in AccountTrackers
  BY DEF AccountTrackers
<1> QED BY <1>2, <1>3 DEF AfterAttempt

\* What an attempt with its own tracker does to the counts.
LEMMA AttemptCounts ==
    ASSUME IInv, NEW r \in Requests, RecordAttempt(r)
    PROVE  FailureAt(held[r])' /\ GuessAt(held[r])'
<1> USE DEF IInv
<1> DEFINE t == held[r]
           T == accountTracker[t]
           N == AfterAttempt(T, req[r].kind)
<1>0. /\ pc[r] = "recording" /\ reply[r] = None
      /\ t \in Requests /\ T \in AccountTrackers /\ r \in Inside
  BY DEF RecordAttempt, InsideInv, Inside, RefInv, TypeOK, Tracked
<1>1. /\ accountTracker'[t] = N /\ N \in AccountTrackers
      /\ held' = held /\ clock' = clock /\ Goto(r, "leaving")
      /\ recorded' = [recorded EXCEPT ![r] = clock]
      /\ reply' = [reply EXCEPT ![r] = IF req[r].kind = "right" THEN "success"
                                       ELSE IF N.locked THEN "locked" ELSE "invalid"]
      /\ req' = req /\ accountMap' = accountMap
  BY <1>0, AfterAttemptFact DEF RecordAttempt, Return, TypeOK, requestVars
<1>2. /\ T.failed \in Nat /\ T.last \in Nat /\ T.locked \in BOOLEAN /\ clock \in Nat
      /\ \A q \in Requests : recorded[q] \in Nat /\ recorded[q] <= clock
  BY <1>0 DEF AccountTrackers, TypeOK, InsideInv
<1>3. FailureAt(t) /\ GuessAt(t)
  BY <1>0 DEF FailureInv, GuessInv, Tracked
<1>4. /\ pc'[r] = "leaving" /\ recorded'[r] = clock
      /\ \A q \in Requests : q # r => /\ pc'[q] = pc[q] /\ reply'[q] = reply[q]
                                      /\ recorded'[q] = recorded[q]
      /\ reply'[r] = IF req[r].kind = "right" THEN "success"
                     ELSE IF N.locked THEN "locked" ELSE "invalid"
  BY <1>1 DEF Goto, TypeOK
<1>5. r \notin Attempts(t) /\ r \notin Guesses(t)
  BY <1>0, NoneAssumption DEF Attempts, Guesses, Wrong, Verdicts
<1>6. Attempts(t)' = Attempts(t) \cup {r}
  BY <1>0, <1>1, <1>4 DEF Attempts, Wrong
<1>7. req[r].kind = "right" => ~Clean(t)'
  BY <1>4, <1>6 DEF Clean
<1>8. Clean(t)' => Clean(t)
  BY <1>4, <1>5, <1>6 DEF Clean, Attempts
<1>9. req[r].kind # "right" => Guesses(t)' = Guesses(t) \cup {r}
  BY <1>0, <1>1, <1>2, <1>4, ConstantsFact DEF Guesses, Elapsed, Wrong
<1>10. /\ IsFiniteSet(Guesses(t)) /\ Cardinality(Guesses(t)) \in Nat
       /\ IsFiniteSet(Pending(t)) /\ Cardinality(Pending(t)) \in Nat
  BY SubsetFact DEF Guesses, Pending
<1>11. Cardinality(Guesses(t) \cup {r}) = Cardinality(Guesses(t)) + 1
  BY <1>5, <1>10, FS_AddElement
<1>12. Pending(t)' = Pending(t) \ {r} /\ r \in Pending(t)
  BY <1>0, <1>1, <1>4 DEF Pending
<1>a. CASE T.locked
  <2>1. N = T
    BY <1>0, <1>a, AfterAttemptFact
  <2>2. T.failed = Limit /\ Cardinality(Failures(t, Limit)) >= Limit
    BY <1>3, <1>a, ConstantsFact DEF FailureAt
  <2>3. Failures(t, Limit) \in SUBSET Failures(t, Limit)' /\ Failures(t, Limit)' \in SUBSET Requests
    BY <1>0, <1>1, <1>4, <2>1, NoneAssumption DEF Failures, Wrong, Verdicts
  <2>4. Cardinality(Failures(t, Limit)') >= Limit
    <3>1. /\ Cardinality(Failures(t, Limit)) \in Nat /\ Cardinality(Failures(t, Limit)') \in Nat
          /\ Cardinality(Failures(t, Limit)) <= Cardinality(Failures(t, Limit)')
      BY <2>3, SubsetFact, SubsetCount
    <3> QED BY <2>2, <3>1, ConstantsFact
  <2>5. FailureAt(t)'
    <3>1. accountTracker'[t].failed = Limit /\ accountTracker'[t].locked
      BY <1>1, <1>a, <2>1, <2>2
    <3> QED BY <1>1, <2>4, <3>1, ConstantsFact DEF FailureAt
  <2>6. ASSUME Clean(t)'
        PROVE  Cardinality(Guesses(t)') + Cardinality(Pending(t)') <= Limit + MaxConcurrent - 1
    <3>1. Cardinality(Guesses(t)) + Cardinality(Pending(t)) <= Limit + MaxConcurrent - 1
      BY <1>3, <1>8, <1>a, <2>6 DEF GuessAt
    <3>2. Cardinality(Pending(t) \ {r}) = Cardinality(Pending(t)) - 1
      BY <1>10, <1>12, FS_RemoveElement
    <3>3. Cardinality(Guesses(t)') = Cardinality(Guesses(t)) + 1
      BY <1>7, <1>9, <1>11, <2>6
    <3>4. Cardinality(Pending(t)') = Cardinality(Pending(t)) - 1
      BY <1>12, <3>2
    <3> QED BY <1>10, <3>1, <3>3, <3>4, ConstantsFact
  <2>7. GuessAt(t)'
    BY <1>1, <1>a, <2>1, <2>6 DEF GuessAt
  <2> QED BY <2>5, <2>7
<1>b. CASE ~T.locked /\ req[r].kind = "right"
  <2>1. N = [T EXCEPT !.failed = 0]
    BY <1>b DEF AfterAttempt
  <2>2. N.failed = 0 /\ N.last = T.last /\ ~N.locked
    BY <1>0, <1>b, <2>1 DEF AccountTrackers
  <2> HIDE DEF N
  <2>3. FailureAt(t)'
    BY <1>1, <2>2, ConstantsFact DEF FailureAt
  <2>4. \A q \in Attempts(t)' : reply'[q] \in Wrong => recorded'[q] <= T.last
    <3>1. \A q \in Attempts(t) : q \in Requests /\ (reply[q] \in Wrong => recorded[q] <= T.last)
      BY <1>3, <1>b DEF GuessAt, Attempts
    <3>2. reply'[r] \notin Wrong
      BY <1>4, <1>b DEF Wrong
    <3> QED BY <1>1, <1>4, <1>5, <1>6, <3>1, <3>2
  <2>5. GuessAt(t)'
    BY <1>1, <1>7, <1>b, <2>2, <2>4 DEF GuessAt
  <2> QED BY <2>3, <2>5
<1>c. CASE ~T.locked /\ req[r].kind # "right"
  <2> DEFINE late == clock - T.last > Hour
  <2>a. PICK n \in Nat : n = T.failed
    BY <1>2
  <2>b. PICK m \in Nat : m = 1 + IF late THEN 0 ELSE n
    <3>1. 1 + (IF late THEN 0 ELSE n) \in Nat
      OBVIOUS
    <3> QED BY <3>1
  <2>1. N = Failed(T)
    BY <1>c DEF AfterAttempt
  <2>2. N.failed = m /\ N.last = clock /\ (N.locked <=> m >= Limit)
    <3>1. Failed(T) = [failed |-> m, last |-> clock, locked |-> m >= Limit]
      BY <2>a, <2>b, Zenon DEF Failed, Elapsed
    <3>2. N = [failed |-> m, last |-> clock, locked |-> m >= Limit]
      BY <2>1, <3>1
    <3> HIDE DEF N
    <3>3. N.failed = m /\ N.last = clock
      BY <3>2
    <3>4. N.locked = (m >= Limit)
      BY <3>2, Zenon
    <3> QED BY <3>3, <3>4
  <2>3. n < Limit /\ m \in Nat /\ m > 0 /\ m <= Limit
    BY <1>2, <1>3, <1>c, <2>a, <2>b, ConstantsFact DEF FailureAt
  <2>4. Failures(t, m)' = {q \in Requests : /\ reply'[q] \in Wrong /\ held[q] = t
                                            /\ recorded'[q] >= clock - (m - 1) * Hour}
    BY <1>1, <2>2 DEF Failures
  <2>5. r \in Failures(t, m)' /\ r \notin Failures(t, n) /\ Failures(t, n) \in SUBSET Requests
        /\ Failures(t, m)' \in SUBSET Requests
    <3>1. (m - 1) * Hour \in Nat
      BY <2>3, ConstantsFact
    <3>2. clock >= clock - (m - 1) * Hour
      BY <1>2, <3>1
    <3>3. reply'[r] \in Wrong
      BY <1>4, <1>c DEF Wrong
    <3> QED BY <1>0, <1>4, <2>4, <3>2, <3>3, NoneAssumption DEF Failures, Wrong, Verdicts
  <2>6. Cardinality(Failures(t, m)') >= m
    <3>1. CASE late \/ n = 0
      <4>1. m = 1
        BY <2>b, <3>1
      <4>2. /\ IsFiniteSet(Failures(t, m)') /\ Cardinality(Failures(t, m)') \in Nat
            /\ Cardinality(Failures(t, m)') # 0
        BY <2>5, SubsetFact, FS_EmptySet
      <4> QED BY <4>1, <4>2
    <3>2. CASE ~late /\ n # 0
      <4>1. m = n + 1 /\ n > 0
        BY <2>b, <3>2
      <4>2. Cardinality(Failures(t, n)) >= n
        BY <1>3, <2>a, <4>1 DEF FailureAt
      <4>3. (m - 1) * Hour = (n - 1) * Hour + Hour
        <5>1. \A x, h \in Nat : x * h = (x - 1) * h + h
          OBVIOUS
        <5>2. m - 1 = n
          BY <1>2, <4>1
        <5> QED BY <1>2, <5>1, <5>2, ConstantsFact
      <4>4. T.last - (n - 1) * Hour >= clock - (m - 1) * Hour
        <5>1. (n - 1) * Hour \in Int /\ (m - 1) * Hour \in Int
          BY <1>2, <2>3, ConstantsFact
        <5>2. clock - T.last <= Hour
          BY <1>2, <3>2, ConstantsFact
        <5> QED BY <1>2, <4>3, <5>1, <5>2, ConstantsFact
      <4>5. Failures(t, n) \subseteq Failures(t, m)'
        <5>1. ASSUME NEW q \in Failures(t, n)
              PROVE  q \in Failures(t, m)'
          <6>1. /\ q \in Requests /\ q # r /\ reply[q] \in Wrong /\ held[q] = t
                /\ recorded[q] >= T.last - (n - 1) * Hour /\ recorded[q] \in Nat
            BY <1>2, <2>5, <5>1 DEF Failures
          <6>2. (n - 1) * Hour \in Int /\ (m - 1) * Hour \in Int
            BY <1>2, <2>3, ConstantsFact
          <6>3. recorded[q] >= clock - (m - 1) * Hour
            BY <1>2, <4>4, <6>1, <6>2
          <6> QED BY <1>4, <2>4, <6>1, <6>3
        <5> QED BY <5>1
      <4>6. (Failures(t, n) \cup {r}) \in SUBSET Failures(t, m)'
        BY <2>5, <4>5
      <4>7. /\ Cardinality(Failures(t, n)) \in Nat /\ IsFiniteSet(Failures(t, n))
            /\ Cardinality(Failures(t, m)') \in Nat
            /\ Cardinality(Failures(t, n) \cup {r}) <= Cardinality(Failures(t, m)')
        BY <2>5, <4>6, SubsetFact, SubsetCount
      <4>8. Cardinality(Failures(t, n) \cup {r}) = Cardinality(Failures(t, n)) + 1
        BY <2>5, <4>7, FS_AddElement
      <4> QED BY <1>2, <4>1, <4>2, <4>7, <4>8
    <3> QED BY <3>1, <3>2
  <2>7. FailureAt(t)'
    <3>1. accountTracker'[t].failed = m /\ (accountTracker'[t].locked <=> m >= Limit)
      BY <1>1, <2>2
    <3> QED BY <1>1, <2>3, <2>6, <3>1, ConstantsFact DEF FailureAt
  <2>8. \A q \in Attempts(t)' : recorded'[q] <= accountTracker'[t].last
    BY <1>1, <1>2, <1>4, <2>2 DEF Attempts
  <2>9. ASSUME Clean(t)'
        PROVE  Cardinality(Guesses(t)') <= m
    <3>1. Cardinality(Guesses(t)) <= n
      BY <1>3, <1>8, <1>c, <2>9, <2>a DEF GuessAt
    <3>2. late => Guesses(t) = {}
      <4>1. ASSUME late, NEW q \in Guesses(t)
            PROVE  FALSE
        <5>1. /\ q \in Attempts(t) /\ reply[q] \in Wrong
              /\ clock - recorded[q] <= Hour /\ recorded[q] \in Nat
          BY <1>2, <4>1 DEF Guesses, Attempts, Wrong, Elapsed
        <5>2. recorded[q] <= T.last
          BY <1>3, <1>c, <5>1 DEF GuessAt
        <5> QED BY <1>2, <4>1, <5>1, <5>2, ConstantsFact
      <4> QED BY <4>1
    <3>3. late => Cardinality(Guesses(t)) = 0
      BY <3>2, FS_EmptySet
    <3>4. Cardinality(Guesses(t)') = Cardinality(Guesses(t)) + 1
      BY <1>9, <1>11, <1>c
    <3> QED BY <1>10, <2>b, <3>1, <3>3, <3>4
  <2>10. Cardinality(Pending(t)') <= MaxConcurrent - 1 /\ Cardinality(Pending(t)') \in Nat
    <3>1. Pending(t) \in SUBSET Inside /\ Inside \in SUBSET Requests
      BY DEF Pending, Inside
    <3>2. /\ Cardinality(Pending(t)) <= Cardinality(Inside) /\ Cardinality(Inside) <= MaxConcurrent
          /\ Cardinality(Inside) \in Nat
      BY <3>1, SubsetFact, SubsetCount DEF CountInv, InsideIsCounted
    <3>3. Cardinality(Pending(t)') = Cardinality(Pending(t)) - 1
      BY <1>10, <1>12, FS_RemoveElement
    <3>4. Cardinality(Pending(t)') \in Nat
      BY <1>10, <1>12, SubsetFact DEF Pending
    <3> QED BY <1>10, <3>2, <3>3, <3>4, ConstantsFact
  <2>11. Cardinality(Guesses(t)') \in Nat
    <3>1. Cardinality(Guesses(t)') = Cardinality(Guesses(t)) + 1
      BY <1>9, <1>11, <1>c
    <3> QED BY <1>10, <3>1
  <2>12. GuessAt(t)'
    <3>1. /\ accountTracker'[t].failed = m /\ accountTracker'[t].last = clock
          /\ (accountTracker'[t].locked <=> m >= Limit)
      BY <1>1, <2>2
    <3>2. (accountTracker'[t].locked /\ Clean(t)') =>
             Cardinality(Guesses(t)') + Cardinality(Pending(t)') <= Limit + MaxConcurrent - 1
      BY <2>3, <2>9, <2>10, <2>11, <3>1, ConstantsFact
    <3> QED BY <1>1, <2>8, <2>9, <3>1, <3>2 DEF GuessAt
  <2> QED BY <2>7, <2>12
<1> QED BY <1>2, <1>a, <1>b, <1>c

LEMMA RecordAttemptInv == ASSUME IInv, NEW r \in Requests, RecordAttempt(r)
                          PROVE  IInv'
<1> USE DEF IInv
<1> DEFINE t == held[r]
           N == AfterAttempt(accountTracker[t], req[r].kind)
           how == IF req[r].kind = "right" THEN "success"
                  ELSE IF N.locked THEN "locked" ELSE "invalid"
<1>0. /\ pc[r] = "recording" /\ reply[r] = None /\ Goto(r, "leaving")
      /\ t \in Requests /\ accountTracker[t] \in AccountTrackers
  BY DEF RecordAttempt, Return, InsideInv, RefInv, TypeOK, Tracked
<1>b. /\ UNCHANGED <<requestVars, throttle, held, concurrentRequests, ipVars, accountMap,
                     sweeping, clock>>
      /\ recorded' = [recorded EXCEPT ![r] = clock]
      /\ accountTracker' = [accountTracker EXCEPT ![t] = N] /\ reply' = [reply EXCEPT ![r] = how]
  BY DEF RecordAttempt, Return
<1>c. N \in AccountTrackers /\ (accountTracker[t].locked => N = accountTracker[t])
  BY <1>0, AfterAttemptFact
<1>d. how \in Verdicts
  BY DEF Verdicts
<1> HIDE DEF N, how
<1>e. /\ accountTracker' \in [Requests -> AccountTrackers \cup {None}]
      /\ \A q \in Requests : q # t => accountTracker'[q] = accountTracker[q]
      /\ \A q \in Requests : accountTracker[q] \in AccountTrackers =>
             accountTracker'[q] \in AccountTrackers
      /\ \A q \in Requests : accountTracker[q].locked => accountTracker'[q].locked
  BY <1>0, <1>b, <1>c DEF TypeOK
<1>f. /\ pc'[r] = "leaving" /\ reply'[r] = how
      /\ \A q \in Requests : q # r => /\ pc'[q] = pc[q] /\ reply'[q] = reply[q]
                                      /\ recorded'[q] = recorded[q]
  BY <1>0, <1>b DEF Goto, TypeOK
<1>6. Inside' = Inside /\ CountInv' /\ pc' \in [Requests -> Labels]
  BY <1>0, <1>b, InsideKept DEF Labels
<1>1. TypeOK'
  BY <1>6, <1>b, <1>d, <1>e DEF TypeOK, requestVars, ipVars
<1>2. InsideInv'
  BY <1>6, <1>b, <1>f DEF InsideInv, TypeOK, requestVars
<1>3. RefInv'
  <2>1. \A b \in Accounts : accountMap'[b] # None => Tracked(accountMap[b])'
    BY <1>b, <1>e DEF RefInv, Tracked, TypeOK
  <2>2. ASSUME NEW q \in Requests
        PROVE  /\ pc'[q] = "throttling" =>
                     throttle'[q] # None /\ ipTracker'[throttle'[q]] \in IPTrackers
               /\ pc'[q] = "recording" => req'[q].kind # "register"
    BY <1>b, <1>f DEF RefInv, ipVars, requestVars
  <2>3. ASSUME NEW q \in Requests
        PROVE  forewarned'[q] # None => Tracked(forewarned[q])'
    BY <1>b, <1>e DEF RefInv, TypeOK, Tracked, requestVars
  <2>4. ASSUME NEW q \in Requests,
               pc'[q] \in {"reading", "recording"} \/ reply'[q] \in Verdicts \ {"registered"}
        PROVE  held'[q] # None /\ Tracked(held[q])'
    <3>1. held[q] # None /\ Tracked(held[q])
      BY <1>0, <1>f, <2>4, GuardAssumption DEF RefInv, Tracked
    <3> QED BY <1>b, <1>e, <3>1 DEF TypeOK, Tracked
  <2> QED BY <1>b, <2>1, <2>2, <2>3, <2>4 DEF RefInv, ipVars
<1>4. FreshInv'
  BY <1>b, <1>f DEF FreshInv, requestVars
<1>5. LockInv'
  <2>1. ASSUME NEW q \in Requests, forewarned[q] # None
        PROVE  /\ req[q].account \in Accounts
               /\ accountTracker'[forewarned[q]].locked
               /\ accountMap[req[q].account] = forewarned[q] =>
                    /\ pc'[q] # "recording"
                    /\ pc'[q] = "hashing" => req[q].kind = "register"
                    /\ pc'[q] = "reading" => held[q] = forewarned[q]
                    /\ reply'[q] \notin Verdicts \ {"registered"}
    <3>1. forewarned[q] \in Requests /\ accountTracker[forewarned[q]].locked
      BY <2>1 DEF LockInv, TypeOK
    <3>2. q = r => accountMap[req[q].account] # forewarned[q]
      BY <1>0, <2>1 DEF LockInv
    <3> QED BY <1>e, <1>f, <2>1, <3>1, <3>2 DEF LockInv
  <2> QED BY <1>b, <2>1 DEF LockInv, requestVars
<1>7. FailureInv' /\ GuessInv'
  <2>1. ASSUME NEW u \in Requests, Tracked(u)', u # t
        PROVE  FailureAt(u)' /\ GuessAt(u)'
    <3>1. accountTracker'[u] = accountTracker[u] /\ Tracked(u) /\ clock' \in Nat /\ clock' >= clock
      BY <1>b, <1>e, <2>1 DEF Tracked, TypeOK
    <3>2. ASSUME NEW q \in Attempts(u) \cup Attempts(u)'
          PROVE  /\ q \in Requests /\ reply'[q] = reply[q]
                 /\ held'[q] = held[q] /\ recorded'[q] = recorded[q]
      BY <1>0, <1>b, <1>f, <2>1 DEF Attempts, requestVars
    <3>3. Pending(u)' \subseteq Pending(u)
      BY <1>b, <1>f DEF Pending, requestVars
    <3> QED BY <3>1, <3>2, <3>3, TrackerKept
  <2>2. FailureAt(held[r])' /\ GuessAt(held[r])'
    BY AttemptCounts
  <2>3. held'[r] = t
    BY <1>b
  <2>4. ASSUME NEW u \in Requests, Tracked(u)', u = t
        PROVE  FailureAt(u)' /\ GuessAt(u)'
    BY <2>2, <2>3, <2>4
  <2> QED BY <2>1, <2>4 DEF FailureInv, GuessInv
<1> QED BY <1>1, <1>2, <1>3, <1>4, <1>5, <1>6, <1>7
-----------------------------------------------------------------------------
\* The inductive invariant holds in every reachable state.
THEOREM InductiveInvariant == Spec => []IInv
<1>1. IInv /\ [Next]_vars => IInv'
  <2> SUFFICES ASSUME IInv, [Next]_vars PROVE IInv'
    OBVIOUS
  <2>1. ASSUME NEW r \in Requests, Handle(r) PROVE IInv'
    BY <2>1, FindIPInv, CheckIPInv, LoadAccountInv, IsAccountLockedInv, ReturnInv,
       FindAccountInv, RecordAttemptInv, LeaveInv DEF Handle
  <2>2. ASSUME NEW r \in Requests, Trip(r) \/ \E in \in Inputs : Enter(r, in) PROVE IInv'
    BY <2>2, TripInv, EnterInv
  <2>3. CASE Sweep \/ Tick BY <2>3, SweepInv
  <2>4. CASE Evict BY <2>4, EvictInv
  <2>5. CASE UNCHANGED vars
    <3>1. UNCHANGED <<pc, req, at, forewarned, recorded, throttle, held, reply,
                      concurrentRequests, ipMap, ipTracker, accountMap, accountTracker,
                      sweeping, clock>>
      BY <2>5 DEF vars, requestVars, ipVars, accountVars
    <3>2. TypeOK' /\ InsideInv' /\ RefInv' /\ FreshInv' /\ LockInv' /\ CountInv'
      BY <3>1 DEF IInv, TypeOK, InsideInv, RefInv, FreshInv, LockInv, CountInv, InsideIsCounted,
                  Inside, Tracked
    <3>3. FailureInv' /\ GuessInv'
      BY <3>1, TrackersKept DEF IInv, TypeOK, Attempts, Pending
    <3> QED BY <3>2, <3>3 DEF IInv
  <2> QED BY <2>1, <2>2, <2>3, <2>4, <2>5 DEF Next
<1> QED BY <1>1, InitInv, PTL DEF Spec

\* Every variable keeps its type: a tracker that is used has been stored, and
\* counters and times are natural numbers.
THEOREM TypeCorrectness == Spec => []TypeOK
<1>1. IInv => TypeOK
  BY DEF IInv
<1> QED BY <1>1, InductiveInvariant, PTL

\* The counter of the concurrency limit is the number of requests inside, for
\* any number of requests and any limit.
THEOREM ConcurrencyIsCounted == Spec => []InsideIsCounted
<1>1. IInv => InsideIsCounted
  BY DEF IInv, CountInv
<1> QED BY <1>1, InductiveInvariant, PTL

\* An account that was locked when a request came answers it before its password
\* is looked at, as long as the tracker is not evicted.
THEOREM LocksHold == Spec => []LockHolds
<1>1. IInv => LockHolds
  BY DEF IInv, LockInv, LockHolds
<1> QED BY <1>1, InductiveInvariant, PTL

\* No account is locked without Limit wrong passwords in the Limit - 1 hours
\* that end with the last one, for any limit and any hour.
THEOREM LocksAreDeserved == Spec => []LockIsDeserved
<1>1. ASSUME IInv, NEW t \in Requests, accountTracker[t] # None, accountTracker[t].locked
      PROVE  Cardinality({r \in Requests :
                 /\ reply[r] \in {"invalid", "locked"} /\ held[r] = t
                 /\ recorded[r] >= accountTracker[t].last - (Limit - 1) * Hour}) >= Limit
  <2>1. Tracked(t)
    BY <1>1 DEF IInv, TypeOK, Tracked
  <2>2. FailureAt(t)
    BY <1>1, <2>1 DEF IInv, FailureInv
  <2>3. accountTracker[t].failed = Limit
    BY <1>1, <2>2 DEF FailureAt
  <2>4. Cardinality(Failures(t, Limit)) >= Limit
    BY <2>2, <2>3, ConstantsFact DEF FailureAt
  <2> QED BY <2>4 DEF Failures, Wrong
<1>2. IInv => LockIsDeserved
  BY <1>1 DEF LockIsDeserved
<1> QED BY <1>2, InductiveInvariant, PTL

\* Within an hour, a tracker without a right password lets at most
\* Limit + MaxConcurrent - 1 wrong ones be looked at, however requests,
\* evictions and the clock interleave.
THEOREM BoundedGuesses == Spec => []GuessesAreBounded
<1>1. ASSUME IInv, NEW t \in Requests, \A r \in Requests : ~(reply[r] = "success" /\ held[r] = t)
      PROVE  Cardinality(Guesses(t)) <= Limit + MaxConcurrent - 1
  <2>1. Cardinality(Guesses(t)) \in Nat /\ Cardinality(Pending(t)) \in Nat
    BY SubsetFact DEF Guesses, Pending
  <2>2. CASE Tracked(t)
    <3>1. FailureAt(t) /\ GuessAt(t) /\ Clean(t)
      BY <1>1, <2>2 DEF IInv, FailureInv, GuessInv, Clean, Attempts
    <3>2. accountTracker[t].failed \in Nat /\ accountTracker[t].locked \in BOOLEAN
      BY <2>2 DEF Tracked, AccountTrackers
    <3> QED BY <2>1, <3>1, <3>2, ConstantsFact DEF FailureAt, GuessAt
  <2>3. CASE ~Tracked(t)
    <3>1. Guesses(t) = {}
      BY <1>1, <2>3 DEF IInv, RefInv, Guesses, Verdicts
    <3> QED BY <3>1, FS_EmptySet, ConstantsFact
  <2> QED BY <2>2, <2>3
<1>2. IInv => GuessesAreBounded
  BY <1>1 DEF GuessesAreBounded
<1> QED BY <1>2, InductiveInvariant, PTL

-----------------------------------------------------------------------------
(* Windows. The requests let through at one tracker fall into its current  *)
(* minute window or into those before it. A new window begins more than a  *)
(* minute after the last one, so the first request of the last one, which  *)
(* was let through, is in no minute that reaches the new window: at most   *)
(* PerMinute - 1 are, and PerMinute of the new one.                        *)

\* Requests that CheckIP let through at tracker t, answered or not.
Passed(t) == {r \in Requests :
    /\ throttle[r] = t
    /\ pc[r] \notin {"new", "entered", "throttling"}
    /\ pc[r] \in {"leaving", "done"} => reply[r] \notin {"overload", "throttled"}}

PassedSince(t, m) == {r \in Passed(t) : at[r] >= m}
PassedBetween(t, m, n) == {r \in PassedSince(t, m) : at[r] < n}
PassedWithin(t, m) == {r \in PassedSince(t, m) : at[r] <= m + Minute}

\* A tracker that has counted nobody is in the hands of the request that
\* stored it; otherwise its window began with a request it let through.
WindowStart(t) ==
    LET tracker == ipTracker[t] IN
    /\ tracker.start1 <= clock
    /\ tracker.count1 = 0 =>
           /\ pc[t] = "throttling" /\ throttle[t] = t /\ tracker.start1 = clock
           /\ Passed(t) = {} /\ ~tracker.blocked
    /\ tracker.count1 > 0 /\ ~tracker.blocked => \E r \in Passed(t) : at[r] = tracker.start1

WindowShare(t) ==
    LET tracker == ipTracker[t] IN
    /\ \A r \in Passed(t) : at[r] <= tracker.start1 + Minute
    /\ Cardinality(PassedSince(t, tracker.start1)) <= tracker.count1
    /\ Cardinality(PassedSince(t, tracker.start1)) <= PerMinute
    /\ \A m \in Nat : m + Minute >= tracker.start1 =>
           Cardinality(PassedBetween(t, m, tracker.start1)) <= PerMinute - 1

Share(t) == \A m \in Nat : Cardinality(PassedWithin(t, m)) <= 2 * PerMinute - 1

WindowAt(t) == WindowStart(t) /\ WindowShare(t) /\ Share(t)

\* A request throttled by a tracker found it stored, and a request that has
\* not looked for one yet has stored none.
ThrottleRef == \A r \in Requests :
    /\ throttle[r] # None => ipTracker[throttle[r]] \in IPTrackers
    /\ pc[r] \in {"new", "entered"} =>
          /\ throttle[r] = None
          /\ \A i \in IPs : ipMap[i] # r
          /\ \A q \in Requests : throttle[q] # r

WindowInv == \A t \in Requests : ipTracker[t] \in IPTrackers => WindowAt(t)

ThrottleInv == ThrottleRef /\ WindowInv

LEMMA WindowConstants == /\ PerMinute \in Nat /\ PerMinute > 0
                         /\ Minute \in Nat
BY GuardAssumption

LEMMA PassedFact == ASSUME NEW t, NEW m, NEW n
                    PROVE  /\ Passed(t) \in SUBSET Requests
                           /\ PassedSince(t, m) \in SUBSET Requests
                           /\ PassedBetween(t, m, n) \in SUBSET Requests
                           /\ PassedWithin(t, m) \in SUBSET Requests
BY DEF Passed, PassedSince, PassedBetween, PassedWithin

\* A step that counts nobody at tracker t.
LEMMA WindowKept ==
    ASSUME NEW t \in Requests, WindowAt(t), clock \in Nat, clock' \in Nat, clock' >= clock,
           ipTracker[t] \in IPTrackers,
           ipTracker'[t].start1 = ipTracker[t].start1,
           ipTracker'[t].count1 = ipTracker[t].count1,
           ipTracker'[t].blocked = ipTracker[t].blocked,
           Passed(t)' = Passed(t),
           \A q \in Passed(t) : at'[q] = at[q],
           ipTracker[t].count1 = 0 =>
               pc'[t] = "throttling" /\ throttle'[t] = throttle[t] /\ clock' = clock
    PROVE  WindowAt(t)'
<1>1. \A m : PassedSince(t, m)' = PassedSince(t, m) /\ PassedWithin(t, m)' = PassedWithin(t, m)
  BY DEF PassedSince, PassedWithin
<1>2. \A m, n : PassedBetween(t, m, n)' = PassedBetween(t, m, n)
  BY DEF PassedSince, PassedBetween
<1>3. WindowStart(t)'
  BY WindowConstants DEF WindowAt, WindowStart, IPTrackers
<1>4. PassedSince(t, ipTracker[t].start1)' = PassedSince(t, ipTracker[t].start1)
  BY <1>1 DEF PassedSince
<1>5. \A m : PassedBetween(t, m, ipTracker[t].start1)' = PassedBetween(t, m, ipTracker[t].start1)
  BY <1>2 DEF PassedBetween, PassedSince
<1>6. WindowShare(t)'
  BY <1>4, <1>5 DEF WindowAt, WindowShare
<1>7. Share(t)'
  BY <1>1 DEF WindowAt, Share
<1> QED BY <1>3, <1>6, <1>7 DEF WindowAt

\* A tracker that was just stored has let nobody through.
LEMMA WindowFresh ==
    ASSUME NEW t \in Requests, ipTracker'[t] = FreshIP, Passed(t)' = {}, clock' = clock,
           clock \in Nat, pc'[t] = "throttling", throttle'[t] = t
    PROVE  WindowAt(t)'
<1>1. /\ ipTracker'[t].start1 = clock /\ ipTracker'[t].count1 = 0
      /\ ipTracker'[t].blocked = FALSE
  BY DEF FreshIP
<1>2. \A m, n : PassedSince(t, m)' = {} /\ PassedBetween(t, m, n)' = {} /\ PassedWithin(t, m)' = {}
  BY DEF PassedSince, PassedBetween, PassedWithin
<1>3. WindowStart(t)'
  BY <1>1 DEF WindowStart
<1>4. PassedSince(t, ipTracker[t].start1)' = {}
  BY DEF PassedSince
<1>5. \A m : PassedBetween(t, m, ipTracker[t].start1)' = {}
  BY DEF PassedBetween, PassedSince
<1>6. WindowShare(t)'
  BY <1>1, <1>4, <1>5, FS_EmptySet, WindowConstants DEF WindowShare
<1>7. Share(t)'
  <2>1. 2 * PerMinute - 1 >= 0
    BY WindowConstants
  <2>2. \A m \in Nat : Cardinality(PassedWithin(t, m)') = 0
    BY <1>2, FS_EmptySet
  <2> QED BY <2>1, <2>2 DEF Share
<1> QED BY <1>3, <1>6, <1>7 DEF WindowAt

\* When the window is over nobody has been let through since, and of those
\* of any minute that is not over one fewer than a window lets through.
LEMMA WindowOver ==
    ASSUME IInv, NEW t \in Requests, ipTracker[t] \in IPTrackers, WindowAt(t),
           ~ipTracker[t].blocked, clock - ipTracker[t].start1 > Minute
    PROVE  /\ \A q \in Passed(t) : at[q] < clock
           /\ \A m \in Nat : m + Minute >= clock =>
                 Cardinality(PassedBetween(t, m, clock)) <= PerMinute - 1
<1> DEFINE s == ipTracker[t].start1
<1>1. s \in Nat /\ clock \in Nat /\ at \in [Requests -> Nat] /\ ipTracker[t].count1 \in Nat
  BY DEF IPTrackers, IInv, TypeOK
<1>2. \A q \in Passed(t) : at[q] < clock
  <2>1. ASSUME NEW q \in Passed(t) PROVE at[q] < clock
    <3>1. at[q] \in Nat /\ at[q] <= s + Minute
      BY <1>1 DEF Passed, WindowAt, WindowShare
    <3> QED BY <1>1, <3>1, WindowConstants
  <2> QED BY <2>1
<1>3. PICK first \in Passed(t) : at[first] = s
  <2>1. ipTracker[t].count1 # 0
    BY <1>1, WindowConstants DEF WindowAt, WindowStart
  <2> QED BY <1>1, <2>1 DEF WindowAt, WindowStart
<1>4. ASSUME NEW m \in Nat, m + Minute >= clock
      PROVE  Cardinality(PassedBetween(t, m, clock)) <= PerMinute - 1
  <2>1. m > s
    BY <1>1, <1>4, WindowConstants
  <2>2. first \in PassedSince(t, s) /\ first \notin PassedBetween(t, m, clock)
    BY <1>1, <1>3, <2>1 DEF PassedSince, PassedBetween
  <2>3. PassedBetween(t, m, clock) \in SUBSET (PassedSince(t, s) \ {first})
    <3>1. ASSUME NEW q \in PassedBetween(t, m, clock)
          PROVE  q \in PassedSince(t, s)
      <4>1. q \in Passed(t) /\ at[q] \in Nat /\ at[q] >= m
        BY <1>1 DEF PassedBetween, PassedSince, Passed
      <4> QED BY <1>1, <2>1, <4>1 DEF PassedSince
    <3> QED BY <2>2, <3>1
  <2>4. /\ IsFiniteSet(PassedSince(t, s)) /\ Cardinality(PassedSince(t, s)) \in Nat
        /\ (PassedSince(t, s) \ {first}) \in SUBSET Requests
    BY PassedFact, SubsetFact
  <2>5. Cardinality(PassedSince(t, s) \ {first}) = Cardinality(PassedSince(t, s)) - 1
    BY <2>2, <2>4, FS_RemoveElement
  <2>6. Cardinality(PassedBetween(t, m, clock)) <= Cardinality(PassedSince(t, s) \ {first})
    BY <2>3, <2>4, SubsetCount
  <2>7. Cardinality(PassedSince(t, s)) <= PerMinute
    BY DEF WindowAt, WindowShare
  <2>8. Cardinality(PassedBetween(t, m, clock)) \in Nat
    BY PassedFact, SubsetFact
  <2> QED BY <2>4, <2>5, <2>6, <2>7, <2>8, WindowConstants
<1> QED BY <1>2, <1>4

\* The share of a minute: what the current window let through, and what the
\* windows before it did in that minute.
LEMMA ShareOfBoth ==
    ASSUME NEW S \in SUBSET Requests, NEW T \in SUBSET Requests, NEW U \in SUBSET (S \cup T),
           Cardinality(S) <= PerMinute, Cardinality(T) <= PerMinute - 1
    PROVE  Cardinality(U) <= 2 * PerMinute - 1
<1>1. /\ IsFiniteSet(S) /\ IsFiniteSet(T) /\ U \in SUBSET Requests
      /\ Cardinality(S) \in Nat /\ Cardinality(T) \in Nat /\ Cardinality(U) \in Nat
      /\ (S \cup T) \in SUBSET Requests /\ (S \cap T) \in SUBSET Requests
  BY SubsetFact
<1>2. Cardinality(U) <= Cardinality(S \cup T)
  BY <1>1, SubsetCount
<1>3. /\ Cardinality(S \cup T) = Cardinality(S) + Cardinality(T) - Cardinality(S \cap T)
      /\ Cardinality(S \cap T) \in Nat
  BY <1>1, SubsetFact, FS_Union
<1> QED BY <1>1, <1>2, <1>3, WindowConstants

\* When at most one request is added, no later than now, the shares of all
\* minutes follow from those of the new window and of the minutes it reaches.
LEMMA WindowAgain ==
    ASSUME IInv, NEW t \in Requests, NEW r \in Requests, NEW s \in Nat,
           at' \in [Requests -> Nat], r \notin Passed(t), \A q \in Passed(t) : at'[q] = at[q],
           r \in Passed(t)' => at'[r] = clock, s <= clock, ipTracker'[t].start1 = s,
           Passed(t)' \in {Passed(t), Passed(t) \cup {r}},
           WindowStart(t)', Share(t),
           \A q \in Passed(t)' : at'[q] <= s + Minute,
           Cardinality(PassedSince(t, s)') <= ipTracker'[t].count1,
           Cardinality(PassedSince(t, s)') <= PerMinute,
           \A m \in Nat : m + Minute >= s =>
               Cardinality(PassedBetween(t, m, s)') <= PerMinute - 1
    PROVE  WindowAt(t)'
<1>0. /\ at \in [Requests -> Nat] /\ clock \in Nat
  BY DEF IInv, TypeOK
<1>1. WindowShare(t)'
  <2>1. PassedSince(t, ipTracker[t].start1)' = PassedSince(t, s)'
    BY DEF PassedSince
  <2>2. \A m : PassedBetween(t, m, ipTracker[t].start1)' = PassedBetween(t, m, s)'
    BY DEF PassedSince, PassedBetween
  <2> QED BY <2>1, <2>2 DEF WindowShare
<1>2. ASSUME NEW m \in Nat
      PROVE  Cardinality(PassedWithin(t, m)') <= 2 * PerMinute - 1
  <2>1. CASE clock \in m .. m + Minute
    <3>1. /\ PassedSince(t, s)' \in SUBSET Requests /\ PassedBetween(t, m, s)' \in SUBSET Requests
      BY DEF PassedSince, PassedBetween, Passed
    <3>2. PassedWithin(t, m)' \subseteq PassedSince(t, s)' \cup PassedBetween(t, m, s)'
      <4>1. ASSUME NEW q \in PassedWithin(t, m)'
            PROVE  q \in PassedSince(t, s)' \cup PassedBetween(t, m, s)'
        <5>1. q \in Passed(t)' /\ at'[q] \in Nat /\ at'[q] >= m
          BY <1>0 DEF PassedWithin, PassedSince, Passed
        <5> QED BY <5>1 DEF PassedSince, PassedBetween
      <4> QED BY <4>1
    <3>3. m + Minute >= s
      BY <1>0, <2>1, WindowConstants
    <3> QED BY <3>1, <3>2, <3>3, ShareOfBoth
  <2>2. CASE clock \notin m .. m + Minute
    <3>1. r \notin PassedWithin(t, m)'
      BY <1>0, <2>2, WindowConstants DEF PassedWithin, PassedSince
    <3>2. PassedWithin(t, m)' = PassedWithin(t, m)
      <4>1. PassedWithin(t, m) \subseteq PassedWithin(t, m)'
        BY DEF PassedWithin, PassedSince
      <4>2. PassedWithin(t, m)' \subseteq PassedWithin(t, m) \cup {r}
        BY DEF PassedWithin, PassedSince
      <4> QED BY <3>1, <4>1, <4>2
    <3> QED BY <3>2 DEF Share
  <2> QED BY <2>1, <2>2
<1>3. Share(t)'
  BY <1>2 DEF Share
<1> QED BY <1>1, <1>3 DEF WindowAt

\* What a request that a tracker counts does to it.
LEMMA WindowCounts ==
    ASSUME IInv, ThrottleInv, NEW r \in Requests, CheckIP(r),
           NEW t \in Requests, throttle[r] = t
    PROVE  WindowAt(t)'
<1> DEFINE k == ipTracker[t]
<1>0. /\ k \in IPTrackers /\ WindowAt(t) /\ pc[r] = "throttling"
      /\ reply[r] = None /\ clock \in Nat /\ at \in [Requests -> Nat]
      /\ at' \in [Requests -> Nat] /\ \A q \in Requests : q # r => at'[q] = at[q]
      /\ \A q \in Requests : at[q] <= clock
      /\ throttle' = throttle /\ clock' = clock
      /\ ipTracker' = [ipTracker EXCEPT ![t] = AfterRequest(k)]
      /\ ipTracker'[t] = AfterRequest(k) /\ AfterRequest(k) \in IPTrackers
  BY CountedFact DEF CheckIP, ThrottleInv, WindowInv, IInv, TypeOK, InsideInv, RefInv, Inside
<1>1. /\ k.start1 \in Nat /\ k.count1 \in Nat /\ k.blocked \in BOOLEAN
  BY <1>0 DEF IPTrackers
\* Either the request is turned away, or it is one more that was let through.
<1>2. \/ /\ ipTracker'[t].blocked \/ ipTracker'[t].count1 > PerMinute
         /\ Passed(t)' = Passed(t)
      \/ /\ ~ipTracker'[t].blocked /\ ~(ipTracker'[t].count1 > PerMinute)
         /\ Passed(t)' = Passed(t) \cup {r} /\ at'[r] = clock
  <2>1. \A q \in Requests : q # r => pc'[q] = pc[q] /\ reply'[q] = reply[q]
    BY <1>0 DEF CheckIP, Return, Goto, IInv, TypeOK
  <2>2. CASE ipTracker'[t].blocked \/ ipTracker'[t].count1 > PerMinute
    <3>1. reply'[r] = "throttled" /\ pc'[r] = "leaving"
      BY <1>0, <2>2 DEF CheckIP, Return, Goto, IInv, TypeOK
    <3> QED BY <1>0, <2>1, <2>2, <3>1 DEF Passed
  <2>3. CASE ~(ipTracker'[t].blocked \/ ipTracker'[t].count1 > PerMinute)
    <3>1. pc'[r] = "decoding" /\ at'[r] = clock
      BY <1>0, <2>3 DEF CheckIP, Return, Goto, IInv, TypeOK
    <3> QED BY <1>0, <2>1, <2>3, <3>1 DEF Passed
  <2> QED BY <2>2, <2>3
<1>3. /\ Passed(t)' \in {Passed(t), Passed(t) \cup {r}} /\ r \notin Passed(t)
      /\ r \in Passed(t)' => at'[r] = clock
      /\ \A q \in Passed(t) : at'[q] = at[q]
  BY <1>0, <1>2 DEF Passed
<1>4. CASE k.blocked
  <2>1. AfterRequest(k) = [k EXCEPT !.active = clock]
    BY <1>4 DEF AfterRequest
  <2>2. /\ AfterRequest(k).start1 = k.start1 /\ AfterRequest(k).count1 = k.count1
        /\ AfterRequest(k).blocked = k.blocked
    BY <1>0, <2>1 DEF IPTrackers
  <2>3. Passed(t)' = Passed(t)
    BY <1>0, <1>2, <1>4, <2>2
  <2>4. k.count1 # 0
    BY <1>0, <1>4 DEF WindowAt, WindowStart
  <2> QED BY <1>0, <1>3, <2>2, <2>3, <2>4, WindowKept
<1>5. CASE ~k.blocked /\ ~(clock - k.start1 > Minute)
  <2>0. PICK s \in Nat : s = k.start1
    BY <1>1
  <2>1. ipTracker'[t].start1 = s /\ ipTracker'[t].count1 = k.count1 + 1
    BY <1>0, <1>1, <1>5, <2>0 DEF AfterRequest, Counted, Elapsed
  <2>2. WindowStart(t)'
    <3>1. s <= clock
      BY <1>0, <2>0 DEF WindowAt, WindowStart
    <3>2. ASSUME ~ipTracker'[t].blocked
          PROVE  \E q \in Passed(t)' : at'[q] = s
      <4>1. CASE k.count1 > 0
        <5>1. PICK q \in Passed(t) : at[q] = s
          BY <1>0, <1>5, <2>0, <4>1 DEF WindowAt, WindowStart
        <5> QED BY <1>3, <5>1
      <4>2. CASE k.count1 = 0
        <5>1. s = clock
          BY <1>0, <2>0, <4>2 DEF WindowAt, WindowStart
        <5>2. r \in Passed(t)'
          BY <1>0, <1>2, <2>1, <3>2, <4>2, WindowConstants
        <5> QED BY <1>3, <5>1, <5>2
      <4> QED BY <1>1, <4>1, <4>2
    <3> QED BY <1>0, <1>1, <2>1, <3>1, <3>2 DEF WindowStart
  <2>3. s <= clock /\ clock <= s + Minute
    BY <1>0, <1>1, <1>5, <2>0, WindowConstants DEF WindowAt, WindowStart
  <2>4. /\ \A q \in Passed(t) : at[q] <= s + Minute
        /\ Cardinality(PassedSince(t, s)) <= k.count1
        /\ Cardinality(PassedSince(t, s)) <= PerMinute
        /\ \A m \in Nat : m + Minute >= s =>
               Cardinality(PassedBetween(t, m, s)) <= PerMinute - 1
    BY <1>0, <2>0 DEF WindowAt, WindowShare
  <2>5. \A q \in Passed(t)' : at'[q] <= s + Minute
    BY <1>0, <1>3, <2>3, <2>4
  <2>6. \A m : PassedBetween(t, m, s)' = PassedBetween(t, m, s)
    <3>1. r \in Passed(t)' => at'[r] >= s /\ ~(at'[r] < s)
      BY <1>0, <1>3, <2>3
    <3> QED BY <1>0, <1>3, <3>1 DEF PassedBetween, PassedSince
  <2>7. /\ Cardinality(PassedSince(t, s)') <= k.count1 + 1
        /\ Cardinality(PassedSince(t, s)') <= PerMinute
    <3>1. Cardinality(PassedSince(t, s)) \in Nat /\ IsFiniteSet(PassedSince(t, s))
      BY PassedFact, SubsetFact
    <3>2. CASE Passed(t)' = Passed(t)
      <4>1. PassedSince(t, s)' = PassedSince(t, s)
        BY <1>0, <1>3, <3>2 DEF PassedSince
      <4> QED BY <1>1, <2>4, <3>1, <4>1, WindowConstants
    <3>3. CASE Passed(t)' # Passed(t)
      <4>1. Passed(t)' = Passed(t) \cup {r} /\ k.count1 + 1 <= PerMinute
        BY <1>1, <1>2, <2>1, <3>3, WindowConstants
      <4>2. PassedSince(t, s)' = PassedSince(t, s) \cup {r} /\ r \notin PassedSince(t, s)
        BY <1>0, <1>3, <2>3, <4>1 DEF PassedSince
      <4>3. Cardinality(PassedSince(t, s)') = Cardinality(PassedSince(t, s)) + 1
        BY <3>1, <4>2, FS_AddElement
      <4> QED BY <1>1, <2>4, <3>1, <4>1, <4>3, WindowConstants
    <3> QED BY <3>2, <3>3
  <2> QED BY <1>0, <1>3, <2>1, <2>2, <2>3, <2>4, <2>5, <2>6, <2>7, WindowAgain DEF WindowAt
<1>6. CASE ~k.blocked /\ clock - k.start1 > Minute
  <2>0. PICK s \in Nat : s = clock
    BY <1>0
  <2>1. ipTracker'[t].start1 = s /\ ipTracker'[t].count1 = 1
    BY <1>0, <1>1, <1>6, <2>0 DEF AfterRequest, Counted, Elapsed
  <2>2. /\ \A q \in Passed(t) : at[q] < s
        /\ \A m \in Nat : m + Minute >= s =>
              Cardinality(PassedBetween(t, m, s)) <= PerMinute - 1
    BY <1>0, <1>6, <2>0, WindowOver
  <2>3. WindowStart(t)'
    <3>1. ~ipTracker'[t].blocked => r \in Passed(t)'
      BY <1>2, <2>1, WindowConstants
    <3> QED BY <1>0, <1>3, <2>0, <2>1, <3>1 DEF WindowStart
  <2>4. \A q \in Passed(t)' : at'[q] <= s + Minute
    <3>1. \A q \in Passed(t) : at[q] \in Nat /\ at[q] < s
      BY <1>0, <2>0, <2>2 DEF Passed
    <3> QED BY <1>0, <1>3, <2>0, <3>1, WindowConstants
  <2>5. \A m : PassedBetween(t, m, s)' = PassedBetween(t, m, s)
    BY <1>0, <1>3, <2>0 DEF PassedBetween, PassedSince
  <2>6. PassedSince(t, s)' \subseteq {r}
    BY <1>0, <1>3, <2>0, <2>2 DEF PassedSince, Passed
  <2>7. Cardinality(PassedSince(t, s)') <= 1
    <3>1. Cardinality({r}) = 1
      BY FS_Singleton
    <3> QED BY <2>6, <3>1, SubsetCount
  <2>8. Cardinality(PassedSince(t, s)') <= PerMinute
    <3>1. Cardinality(PassedSince(t, s)') \in Nat
      BY <2>6, SubsetFact
    <3> QED BY <2>7, <3>1, WindowConstants
  <2> QED BY <1>0, <1>3, <2>0, <2>1, <2>2, <2>3, <2>4, <2>5, <2>7, <2>8, WindowAgain DEF WindowAt
<1> QED BY <1>1, <1>4, <1>5, <1>6

\* Steps other than those of FindIP and CheckIP.
LEMMA ThrottleKept ==
    ASSUME IInv, ThrottleInv, UNCHANGED <<ipTracker, throttle>>, clock' \in Nat, clock' >= clock,
           \A i \in IPs : ipMap'[i] \in {ipMap[i], None},
           \A q \in Requests :
              /\ pc'[q] \in {"new", "entered"} => pc[q] \in {"new", "entered"}
              /\ pc[q] = "throttling" => pc'[q] = "throttling" /\ clock' = clock
              /\ at'[q] = at[q],
           \A t \in Requests : Passed(t)' = Passed(t)
    PROVE  ThrottleInv'
<1>1. ThrottleRef'
  BY GuardAssumption DEF ThrottleInv, ThrottleRef
<1>2. ASSUME NEW t \in Requests, ipTracker'[t] \in IPTrackers
      PROVE  WindowAt(t)'
  <2>1. WindowAt(t)
    BY <1>2 DEF ThrottleInv, WindowInv
  <2>2. ipTracker[t].count1 = 0 =>
            pc'[t] = "throttling" /\ throttle'[t] = throttle[t] /\ clock' = clock
    BY <2>1 DEF WindowAt, WindowStart
  <2>3. \A q \in Passed(t) : at'[q] = at[q]
    BY DEF Passed
  <2> QED BY <1>2, <2>1, <2>2, <2>3, WindowKept DEF IInv, TypeOK
<1> QED BY <1>1, <1>2 DEF ThrottleInv, WindowInv

LEMMA FindIPThrottle == ASSUME IInv, ThrottleInv, NEW r \in Requests, FindIP(r)
                        PROVE  ThrottleInv'
<1> DEFINE i == req[r].ip
<1>0. /\ i \in IPs /\ pc[r] = "entered" /\ r # None
      /\ pc' = [pc EXCEPT ![r] = "throttling"]
      /\ throttle' = [throttle EXCEPT ![r] = ipMap'[i]]
      /\ UNCHANGED <<reply, at, clock>> /\ clock \in Nat
      /\ \A j \in IPs : ipMap[j] # r
      /\ \A q \in Requests : throttle[q] # r
  BY GuardAssumption DEF FindIP, Goto, IInv, TypeOK, InsideInv, Inside, Inputs, requestVars,
                         ThrottleInv, ThrottleRef
<1>1. \/ ipMap[i] # None /\ ipMap' = ipMap /\ ipTracker' = ipTracker
      \/ /\ ipMap[i] = None /\ ipMap' = [ipMap EXCEPT ![i] = r]
         /\ ipTracker' = [ipTracker EXCEPT ![r] = FreshIP]
  BY DEF FindIP, ipVars
<1> HIDE DEF i
<1>2. /\ pc'[r] = "throttling" /\ throttle'[r] = ipMap'[i]
      /\ \A q \in Requests : q # r => pc'[q] = pc[q] /\ throttle'[q] = throttle[q]
  BY <1>0 DEF IInv, TypeOK
<1>3. \A t \in Requests : Passed(t)' = Passed(t)
  BY <1>0, <1>2 DEF Passed
<1>4. Passed(r)' = {}
  BY <1>0, <1>3 DEF Passed
<1>5. ipMap'[i] \in {ipMap[i], r} /\ \A j \in IPs : j # i => ipMap'[j] = ipMap[j]
  BY <1>0, <1>1 DEF IInv, TypeOK
<1>6. /\ \A t \in Requests : t # r => ipTracker'[t] = ipTracker[t]
      /\ ipTracker'[r] \in {ipTracker[r], FreshIP}
      /\ ipTracker'[ipMap'[i]] \in IPTrackers
  <2>1. FreshIP \in IPTrackers
    BY <1>0 DEF FreshIP, IPTrackers
  <2> QED BY <1>0, <1>1, <2>1 DEF IInv, TypeOK, RefInv
<1>7. ThrottleRef'
  <2>1. FreshIP \in IPTrackers
    BY <1>0 DEF FreshIP, IPTrackers
  <2>2. ASSUME NEW q \in Requests, throttle'[q] # None
        PROVE  ipTracker'[throttle'[q]] \in IPTrackers
    <3>1. CASE q = r
      BY <1>2, <1>6, <3>1
    <3>2. CASE q # r
      BY <1>2, <1>6, <2>1, <2>2, <3>2 DEF ThrottleInv, ThrottleRef, IInv, TypeOK
    <3> QED BY <3>1, <3>2
  <2>3. ASSUME NEW q \in Requests, pc'[q] \in {"new", "entered"}
        PROVE  /\ throttle'[q] = None
               /\ (\A j \in IPs : ipMap'[j] # q) /\ \A p \in Requests : throttle'[p] # q
    <3>1. q # r /\ pc[q] \in {"new", "entered"}
      BY <1>2, <2>3
    <3>2. \A j \in IPs : ipMap'[j] # q
      BY <1>0, <1>5, <3>1 DEF ThrottleInv, ThrottleRef
    <3> QED BY <1>0, <1>2, <3>1, <3>2 DEF ThrottleInv, ThrottleRef
  <2> QED BY <2>2, <2>3 DEF ThrottleRef
<1>8. ASSUME NEW t \in Requests, ipTracker'[t] \in IPTrackers
      PROVE  WindowAt(t)'
  <2>1. CASE ipTracker'[t] = ipTracker[t]
    <3>1. WindowAt(t)
      BY <1>8, <2>1 DEF ThrottleInv, WindowInv
    <3>2. ipTracker[t].count1 = 0 =>
              pc'[t] = "throttling" /\ throttle'[t] = throttle[t] /\ clock' = clock
      BY <1>0, <1>2, <3>1 DEF WindowAt, WindowStart
    <3> QED BY <1>0, <1>3, <1>8, <2>1, <3>1, <3>2, WindowKept
  <2>2. CASE ipTracker'[t] # ipTracker[t]
    <3>1. t = r /\ ipTracker'[r] = FreshIP /\ throttle'[r] = r
      BY <1>0, <1>1, <1>2, <1>6, <2>2 DEF IInv, TypeOK
    <3> QED BY <1>0, <1>2, <1>4, <3>1, WindowFresh
  <2> QED BY <2>1, <2>2
<1> QED BY <1>7, <1>8 DEF ThrottleInv, WindowInv

LEMMA CheckIPThrottle == ASSUME IInv, ThrottleInv, NEW r \in Requests, CheckIP(r)
                         PROVE  ThrottleInv'
<1>1. PICK t \in Requests : t = throttle[r]
  BY DEF CheckIP, IInv, TypeOK, RefInv
<1>2. /\ pc[r] = "throttling" /\ UNCHANGED <<throttle, clock, ipMap>> /\ clock \in Nat
      /\ pc'[r] \in {"leaving", "decoding"}
      /\ \A q \in Requests : q # r => /\ pc'[q] = pc[q] /\ reply'[q] = reply[q]
                                      /\ at'[q] = at[q]
      /\ ipTracker[t] \in IPTrackers
      /\ \A u \in Requests : u # t => ipTracker'[u] = ipTracker[u]
  BY <1>1 DEF CheckIP, Return, Goto, IInv, TypeOK, RefInv
<1>3. ipTracker'[t] \in IPTrackers
  BY <1>1, <1>2, CountedFact DEF CheckIP, IInv, TypeOK
<1>4. ThrottleRef'
  BY <1>2, <1>3 DEF ThrottleInv, ThrottleRef, IInv, TypeOK
<1>5. ASSUME NEW u \in Requests, ipTracker'[u] \in IPTrackers, u # t
      PROVE  WindowAt(u)'
  <2>1. Passed(u)' = Passed(u)
    BY <1>1, <1>2, <1>5 DEF Passed
  <2>2. ipTracker'[u] = ipTracker[u] /\ WindowAt(u)
    BY <1>2, <1>5 DEF ThrottleInv, WindowInv
  <2>3. ipTracker[u].count1 = 0 =>
            pc'[u] = "throttling" /\ throttle'[u] = throttle[u] /\ clock' = clock
    BY <1>1, <1>2, <1>5, <2>2 DEF WindowAt, WindowStart
  <2>4. \A q \in Passed(u) : at'[q] = at[q]
    BY <1>2 DEF Passed
  <2> QED BY <1>2, <1>5, <2>1, <2>2, <2>3, <2>4, WindowKept
<1>6. WindowAt(t)'
  BY <1>1, WindowCounts
<1> QED BY <1>4, <1>5, <1>6 DEF ThrottleInv, WindowInv

LEMMA ThrottleStep == IInv /\ ThrottleInv /\ [Next]_vars => ThrottleInv'
<1> SUFFICES ASSUME IInv, ThrottleInv, [Next]_vars PROVE ThrottleInv'
  OBVIOUS
<1> USE DEF IInv, TypeOK, Goto, Return, requestVars, ipVars, Passed
<1>1. ASSUME NEW r \in Requests, NEW in \in Inputs, Enter(r, in) PROVE ThrottleInv'
  BY <1>1, ThrottleKept DEF Enter
<1>2. ASSUME NEW r \in Requests, Trip(r) PROVE ThrottleInv'
  BY <1>2, ThrottleKept DEF Trip
<1>3. ASSUME NEW r \in Requests, Leave(r) PROVE ThrottleInv'
  BY <1>3, ThrottleKept DEF Leave
<1>4. ASSUME NEW r \in Requests, LoadAccount(r) \/ IsAccountLocked(r) PROVE ThrottleInv'
  BY <1>4, ThrottleKept DEF LoadAccount, IsAccountLocked
<1>5. ASSUME NEW r \in Requests, Decode(r) \/ HashFails(r) \/ Registered(r) PROVE ThrottleInv'
  BY <1>5, ThrottleKept DEF Decode, HashFails, Registered
<1>10. ASSUME NEW r \in Requests, MethodNotAllowed(r) PROVE ThrottleInv'
  <2>1. throttle[r] = None /\ UNCHANGED throttle
    BY <1>10 DEF MethodNotAllowed, ThrottleInv, ThrottleRef
  <2>2. \A t \in Requests : r \notin Passed(t) /\ r \notin Passed(t)'
    BY <2>1, GuardAssumption
  <2>3. \A t \in Requests : Passed(t)' = Passed(t)
    BY <1>10, <2>2 DEF MethodNotAllowed
  <2> QED BY <1>10, <2>3, ThrottleKept DEF MethodNotAllowed
<1>6. ASSUME NEW r \in Requests, FindAccount(r) \/ RecordAttempt(r) PROVE ThrottleInv'
  BY <1>6, ThrottleKept DEF FindAccount, RecordAttempt
<1>7. ASSUME Sweep \/ Evict PROVE ThrottleInv'
  BY <1>7, ThrottleKept DEF Sweep, Evict
<1>8. ASSUME Tick PROVE ThrottleInv'
  BY <1>8, ThrottleKept DEF Tick, Inside
<1>9. ASSUME UNCHANGED vars PROVE ThrottleInv'
  BY <1>9, ThrottleKept DEF vars
<1> QED BY <1>1, <1>2, <1>3, <1>4, <1>5, <1>6, <1>7, <1>8, <1>9, <1>10,
        FindIPThrottle, CheckIPThrottle
        DEF Next, Handle

THEOREM ThrottleInvariance == Spec => []ThrottleInv
<1>1. Init => ThrottleInv
  BY GuardAssumption, NoneAssumption DEF Init, ThrottleInv, ThrottleRef, WindowInv
<1>2. IInv /\ ThrottleInv /\ [Next]_vars => ThrottleInv'
  BY ThrottleStep
<1> QED BY <1>1, <1>2, InductiveInvariant, PTL DEF Spec

\* In no minute does a tracker let more than 2 * PerMinute - 1 requests through,
\* whatever minute it is and however requests, evictions and the clock
\* interleave: CheckIP's windows bound any window.
THEOREM ThrottledAddresses == Spec => []IpIsThrottled
<1>1. ASSUME IInv, ThrottleInv, NEW t \in Requests, NEW m \in 0 .. MaxTime
      PROVE  Cardinality(LetThrough(t, m)) <= 2 * PerMinute - 1
  <2>0. m \in Nat
    BY GuardAssumption
  <2>1. LetThrough(t, m) \subseteq PassedWithin(t, m)
    <3>1. ASSUME NEW q \in LetThrough(t, m)
          PROVE  q \in PassedWithin(t, m)
      <4>1. /\ q \in Requests /\ reply[q] \notin {None, "overload", "throttled"}
            /\ throttle[q] = t /\ at[q] >= m /\ at[q] <= m + Minute
        BY <1>1, <2>0, WindowConstants DEF LetThrough, IInv, TypeOK
      <4>2. pc[q] \in {"leaving", "done"}
        BY <1>1, <4>1 DEF IInv, InsideInv
      <4> QED BY <4>1, <4>2 DEF PassedWithin, PassedSince, Passed
    <3> QED BY <3>1
  <2>2. CASE ipTracker[t] \in IPTrackers
    <3>1. Cardinality(PassedWithin(t, m)) <= 2 * PerMinute - 1
      BY <1>1, <2>0, <2>2 DEF ThrottleInv, WindowInv, WindowAt, Share
    <3>2. /\ Cardinality(LetThrough(t, m)) <= Cardinality(PassedWithin(t, m))
          /\ Cardinality(LetThrough(t, m)) \in Nat /\ Cardinality(PassedWithin(t, m)) \in Nat
      <4>1. PassedWithin(t, m) \in SUBSET Requests /\ LetThrough(t, m) \in SUBSET Requests
        BY PassedFact DEF LetThrough
      <4> QED BY <2>1, <4>1, SubsetCount, SubsetFact
    <3> QED BY <3>1, <3>2, WindowConstants
  <2>3. CASE ipTracker[t] \notin IPTrackers
    <3>1. LetThrough(t, m) = {}
      BY <1>1, <2>3, GuardAssumption DEF ThrottleInv, ThrottleRef, LetThrough
    <3> QED BY <3>1, FS_EmptySet, WindowConstants
  <2> QED BY <2>2, <2>3
<1>2. IInv /\ ThrottleInv => IpIsThrottled
  BY <1>1 DEF IpIsThrottled
<1> QED BY <1>2, InductiveInvariant, ThrottleInvariance, PTL
=============================================================================
