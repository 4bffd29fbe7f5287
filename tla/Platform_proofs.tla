-------------------------- MODULE Platform_proofs --------------------------
(***************************************************************************)
(* Safety of the two things every handler of the platform engine shares:   *)
(* the database pool, for any requests and any number of connections, and  *)
(* the circuit breaker of the Zoom client, for any callers, threshold and  *)
(* window. The two do not interact: each theorem is about one of the       *)
(* specifications this module extends.                                     *)
(***************************************************************************)
EXTENDS ConnectionPool, ZoomBreaker, FiniteSetTheorems, SequenceTheorems, TLAPS

-----------------------------------------------------------------------------
(* The database pool. What every handler holds is counted by two sets: the *)
(* requests that hold one connection at least, and those that hold two.    *)

\* Only a login is ever at a point that a second connection leads to.
LoginPoints == \A r \in Requests : pc[r] \in {"wait2", "second", "closing"} => r \in Logins

PoolInv == LoginPoints /\ ConnectionsAddUp

LEMMA RequestsFinite == ASSUME NEW S \in SUBSET Requests
                        PROVE  IsFiniteSet(S) /\ Cardinality(S) \in Nat
BY PoolAssumption, FS_Union, FS_Subset, FS_CardinalityType DEF Requests

\* What one handler gains or loses is what all of them together do.
LEMMA HoldersChange ==
    ASSUME TypeOK, NEW r \in Requests, NEW p \in Points, Goto(r, p)
    PROVE  Cardinality(Holders(1)') + Cardinality(Holders(2)')
             = Cardinality(Holders(1)) + Cardinality(Holders(2)) + Held(p) - Held(pc[r])
<1> DEFINE One(h, n) == IF h >= n THEN 1 ELSE 0
<1>1. ASSUME NEW n \in {1, 2}
      PROVE  /\ Cardinality(Holders(n)') = Cardinality(Holders(n)) + One(Held(p), n) - One(Held(pc[r]), n)
             /\ Cardinality(Holders(n)) \in Nat
  <2>1. Holders(n) \in SUBSET Requests /\ IsFiniteSet(Holders(n)) /\ Cardinality(Holders(n)) \in Nat
    BY RequestsFinite DEF Holders
  <2>2. /\ pc'[r] = p /\ \A q \in Requests : q # r => pc'[q] = pc[q]
    BY DEF Goto, TypeOK
  <2>3. Holders(n)' = IF Held(p) >= n THEN Holders(n) \cup {r} ELSE Holders(n) \ {r}
    BY <2>2 DEF Holders
  <2>4. r \in Holders(n) <=> Held(pc[r]) >= n
    BY DEF Holders
  <2>5. /\ Held(p) >= n => Cardinality(Holders(n)') = Cardinality(Holders(n)) + 1 - One(Held(pc[r]), n)
        /\ ~(Held(p) >= n) => Cardinality(Holders(n)') = Cardinality(Holders(n)) - One(Held(pc[r]), n)
    <3>1. CASE Held(pc[r]) >= n
      <4>1. Holders(n) \cup {r} = Holders(n)
        BY <2>4, <3>1
      <4>2. Cardinality(Holders(n) \ {r}) = Cardinality(Holders(n)) - 1
        BY <2>1, <2>4, <3>1, FS_RemoveElement
      <4>3. One(Held(pc[r]), n) = 1
        BY <3>1
      <4>4. CASE Held(p) >= n
        BY <2>1, <2>3, <4>1, <4>3, <4>4
      <4>5. CASE ~(Held(p) >= n)
        BY <2>1, <2>3, <4>2, <4>3, <4>5
      <4> QED BY <4>4, <4>5
    <3>2. CASE ~(Held(pc[r]) >= n)
      <4>1. Holders(n) \ {r} = Holders(n)
        BY <2>4, <3>2
      <4>2. Cardinality(Holders(n) \cup {r}) = Cardinality(Holders(n)) + 1
        BY <2>1, <2>4, <3>2, FS_AddElement
      <4>3. One(Held(pc[r]), n) = 0
        BY <3>2
      <4>4. CASE Held(p) >= n
        BY <2>1, <2>3, <4>2, <4>3, <4>4
      <4>5. CASE ~(Held(p) >= n)
        <5>1. Holders(n)' = Holders(n)
          BY <2>3, <4>1, <4>5
        <5> QED BY <2>1, <4>3, <4>5, <5>1
      <4> QED BY <4>4, <4>5
    <3> QED BY <3>1, <3>2
  <2> QED BY <2>1, <2>5
<1>2. Held(p) \in 0 .. 2 /\ Held(pc[r]) \in 0 .. 2
  BY DEF Held
<1>3. \A h \in 0 .. 2 : One(h, 1) + One(h, 2) = h /\ One(h, 1) \in Nat /\ One(h, 2) \in Nat
  OBVIOUS
<1> QED BY <1>1, <1>2, <1>3

\* A caller that gives up leaves its place; the others keep theirs.
LEMMA RemoveWaiter ==
    ASSUME NEW q \in Seq(Requests), NEW r \in Requests, IsInjective(q)
    PROVE  LET t == RemoveFirst(q, r) IN
           t \in Seq(Requests) /\ ToSet(t) = ToSet(q) \ {r} /\ IsInjective(t)
<1>1. CASE \A i \in 1 .. Len(q) : q[i] # r
  <2>1. RemoveFirst(q, r) = q
    BY <1>1 DEF RemoveFirst
  <2>2. r \notin ToSet(q)
    BY <1>1 DEF ToSet
  <2> QED BY <2>1, <2>2
<1>2. CASE \E i \in 1 .. Len(q) : q[i] = r
  <2>1. PICK i \in 1 .. Len(q) : q[i] = r
    BY <1>2
  <2>2. {j \in 1 .. Len(q) : q[j] = r} = {i}
    BY <2>1 DEF IsInjective
  <2>3. Min({i}) = i
    BY DEF Min
  <2>4. SelectInSeq(q, LAMBDA v : v = r) = i
    BY <2>2, <2>3 DEF SelectInSeq
  <2>5. PICK t : t = RemoveFirst(q, r)
    OBVIOUS
  <2>6. t = SubSeq(q, 1, i - 1) \o SubSeq(q, i + 1, Len(q))
    BY <1>2, <2>4, <2>5 DEF RemoveFirst, RemoveAt
  <2>7. /\ t \in Seq(Requests) /\ Len(t) = Len(q) - 1
        /\ \A j \in 1 .. Len(q) - 1 : t[j] = IF j < i THEN q[j] ELSE q[j + 1]
    <3>1. /\ SubSeq(q, 1, i - 1) \in Seq(Requests) /\ Len(SubSeq(q, 1, i - 1)) = i - 1
          /\ \A j \in 1 .. i - 1 : SubSeq(q, 1, i - 1)[j] = q[j]
      OBVIOUS
    <3>2. /\ SubSeq(q, i + 1, Len(q)) \in Seq(Requests) /\ Len(SubSeq(q, i + 1, Len(q))) = Len(q) - i
          /\ \A j \in 1 .. Len(q) - i : SubSeq(q, i + 1, Len(q))[j] = q[i + j]
      OBVIOUS
    <3>4. PICK a \in Seq(Requests) : /\ a = SubSeq(q, 1, i - 1) /\ Len(a) = i - 1
                                     /\ \A j \in 1 .. i - 1 : a[j] = q[j]
      BY <3>1
    <3>5. PICK b \in Seq(Requests) : /\ b = SubSeq(q, i + 1, Len(q)) /\ Len(b) = Len(q) - i
                                     /\ \A j \in 1 .. Len(q) - i : b[j] = q[i + j]
      BY <3>2
    <3>3. t = a \o b
      BY <2>6, <3>4, <3>5
    <3>6. /\ a \o b \in Seq(Requests) /\ Len(a \o b) = Len(a) + Len(b)
          /\ \A j \in 1 .. Len(a) + Len(b) :
               (a \o b)[j] = IF j <= Len(a) THEN a[j] ELSE b[j - Len(a)]
      OBVIOUS
    <3>10. Len(a) = i - 1 /\ Len(b) = Len(q) - i
      BY <3>4, <3>5
    <3>11. Len(q) \in Nat /\ i \in 1 .. Len(q)
      BY <2>1
    <3>7. t \in Seq(Requests) /\ Len(t) = Len(q) - 1
      <4>1. Len(t) = (i - 1) + (Len(q) - i)
        BY <3>3, <3>6, <3>10
      <4> QED BY <3>3, <3>6, <3>11, <4>1
    <3>8. ASSUME NEW j \in 1 .. Len(q) - 1, j < i PROVE t[j] = q[j]
      <4>1. j \in 1 .. Len(a) + Len(b) /\ j <= Len(a) /\ j \in 1 .. i - 1
        BY <3>8, <3>10, <3>11
      <4>2. t[j] = a[j]
        BY <3>3, <3>6, <4>1
      <4> QED BY <3>4, <4>1, <4>2
    <3>9. ASSUME NEW j \in 1 .. Len(q) - 1, ~(j < i) PROVE t[j] = q[j + 1]
      <4>3. j \in 1 .. Len(a) + Len(b) /\ ~(j <= Len(a))
        BY <3>9, <3>10, <3>11
      <4>1. t[j] = b[j - (i - 1)]
        BY <3>3, <3>4, <3>6, <4>3
      <4>2. j - (i - 1) \in 1 .. Len(q) - i /\ i + (j - (i - 1)) = j + 1
        BY <2>1, <3>9
      <4> QED BY <3>5, <4>1, <4>2
    <3> QED BY <3>7, <3>8, <3>9
  <2>8. ToSet(t) = ToSet(q) \ {r}
    <3>1. ASSUME NEW x \in ToSet(t) PROVE x \in ToSet(q) \ {r}
      BY <2>1, <2>7, <3>1 DEF ToSet, IsInjective
    <3>2. ASSUME NEW x \in ToSet(q) \ {r} PROVE x \in ToSet(t)
      <4>1. PICK j \in 1 .. Len(q) : q[j] = x /\ j # i
        BY <2>1, <3>2 DEF ToSet
      <4>2. CASE j < i
        BY <2>7, <4>1, <4>2 DEF ToSet
      <4>3. CASE j > i
        <5>1. j - 1 \in 1 .. Len(q) - 1 /\ t[j - 1] = x
          BY <2>7, <4>1, <4>3
        <5> QED BY <2>7, <5>1 DEF ToSet
      <4> QED BY <4>1, <4>2, <4>3
    <3> QED BY <3>1, <3>2
  <2>9. IsInjective(t)
    BY <2>7 DEF IsInjective
  <2> QED BY <2>5, <2>7, <2>8, <2>9
<1> QED BY <1>1, <1>2

\* A caller that joins an injective queue it is not in.
LEMMA JoinQueue ==
    ASSUME NEW q \in Seq(Requests), NEW r \in Requests, IsInjective(q), r \notin ToSet(q)
    PROVE  LET t == Append(q, r) IN
           t \in Seq(Requests) /\ ToSet(t) = ToSet(q) \cup {r} /\ IsInjective(t)
<1>1. PICK t : t = Append(q, r)
  OBVIOUS
<1>2. /\ t \in Seq(Requests) /\ Len(t) = Len(q) + 1 /\ t[Len(q) + 1] = r
      /\ \A j \in 1 .. Len(q) : t[j] = q[j]
  BY <1>1
<1>3. \A j \in 1 .. Len(q) : q[j] # r
  BY DEF ToSet
<1>4. ToSet(t) = ToSet(q) \cup {r}
  <2>1. \A x : x \in ToSet(t) <=> \E j \in 1 .. Len(q) + 1 : t[j] = x
    BY <1>2 DEF ToSet
  <2>2. \A x : x \in ToSet(q) <=> \E j \in 1 .. Len(q) : q[j] = x
    BY DEF ToSet
  <2>3. \A j : j \in 1 .. Len(q) + 1 <=> (j \in 1 .. Len(q) \/ j = Len(q) + 1)
    OBVIOUS
  <2> QED BY <1>2, <2>1, <2>2, <2>3
<1>5. IsInjective(t)
  BY <1>2, <1>3 DEF IsInjective
<1> QED BY <1>1, <1>2, <1>4, <1>5

\* The caller at the head of an injective queue is in it once.
LEMMA ServeQueue ==
    ASSUME NEW q \in Seq(Requests), IsInjective(q), q # <<>>
    PROVE  /\ Head(q) \in ToSet(q) /\ Tail(q) \in Seq(Requests)
           /\ ToSet(Tail(q)) = ToSet(q) \ {Head(q)} /\ IsInjective(Tail(q))
<1>1. PICK t : t = Tail(q)
  OBVIOUS
<1>2. /\ t \in Seq(Requests) /\ Len(q) \in Nat \ {0} /\ Len(t) = Len(q) - 1 /\ Head(q) = q[1]
      /\ \A j \in 1 .. Len(q) - 1 : t[j] = q[j + 1]
  BY <1>1
<1>3. Head(q) \in ToSet(q)
  BY <1>2 DEF ToSet
<1>4. ToSet(t) = ToSet(q) \ {Head(q)}
  <2>1. \A x : x \in ToSet(t) <=> \E j \in 1 .. Len(q) - 1 : t[j] = x
    BY <1>2 DEF ToSet
  <2>2. \A x : x \in ToSet(q) <=> \E j \in 1 .. Len(q) : q[j] = x
    BY DEF ToSet
  <2>3. ASSUME NEW x \in ToSet(t) PROVE x \in ToSet(q) \ {Head(q)}
    <3>1. PICK j \in 1 .. Len(q) - 1 : t[j] = x
      BY <2>1, <2>3
    <3>2. j + 1 \in 1 .. Len(q) /\ j + 1 # 1 /\ q[j + 1] = x /\ 1 \in 1 .. Len(q)
      BY <1>2, <3>1
    <3> QED BY <1>2, <2>2, <3>2 DEF IsInjective
  <2>4. ASSUME NEW x \in ToSet(q) \ {Head(q)} PROVE x \in ToSet(t)
    <3>1. PICK j \in 1 .. Len(q) : q[j] = x /\ j # 1
      BY <1>2, <2>2, <2>4
    <3>2. j - 1 \in 1 .. Len(q) - 1 /\ (j - 1) + 1 = j
      BY <1>2, <3>1
    <3> QED BY <1>2, <2>1, <3>1, <3>2
  <2> QED BY <2>3, <2>4
<1>5. IsInjective(t)
  <2>0. \A j, k \in 1 .. Len(q) : q[j] = q[k] => j = k
    BY DEF IsInjective
  <2>1. ASSUME NEW j \in 1 .. Len(t), NEW k \in 1 .. Len(t), t[j] = t[k] PROVE j = k
    <3>1. /\ j + 1 \in 1 .. Len(q) /\ k + 1 \in 1 .. Len(q) /\ j \in Int /\ k \in Int
          /\ t[j] = q[j + 1] /\ t[k] = q[k + 1]
      BY <1>2
    <3>2. q[j + 1] = q[k + 1]
      BY <2>1, <3>1
    <3>3. j + 1 = k + 1
      BY <2>0, <3>1, <3>2
    <3> QED BY <3>1, <3>3
  <2> QED BY <1>2, <2>1 DEF IsInjective
<1> QED BY <1>1, <1>2, <1>3, <1>4, <1>5

\* A handler that moves from one point to another, paying for what it gains.
LEMMA Moves ==
    ASSUME ConnectionsAddUp, NEW r \in Requests, NEW p \in Points, Goto(r, p),
           free' = free + Held(pc[r]) - Held(p), free' >= 0
    PROVE  /\ free' \in 0 .. PoolSize /\ pc' \in [Requests -> Points]
           /\ free' + Cardinality(Holders(1)') + Cardinality(Holders(2)') = PoolSize
           /\ {q \in Requests : Waiting(q)'}
                = IF p \in {"wait1", "wait2"} THEN {q \in Requests : Waiting(q)} \cup {r}
                                              ELSE {q \in Requests : Waiting(q)} \ {r}
<1>1. Held(p) \in 0 .. 2 /\ Held(pc[r]) \in 0 .. 2
  BY DEF Held
<1>2. pc' \in [Requests -> Points] /\ pc'[r] = p /\ \A q \in Requests \ {r} : pc'[q] = pc[q]
  BY DEF Goto, ConnectionsAddUp, TypeOK
<1>3. \A n \in {1, 2} : Cardinality(Holders(n)) \in Nat
  BY RequestsFinite DEF Holders
<1>4. Holders(1)' \in SUBSET Requests /\ Holders(2)' \in SUBSET Requests
  BY DEF Holders
<1>5. Cardinality(Holders(1)') \in Nat /\ Cardinality(Holders(2)') \in Nat
  BY <1>4, RequestsFinite
<1>6. Cardinality(Holders(1)') + Cardinality(Holders(2)')
        = Cardinality(Holders(1)) + Cardinality(Holders(2)) + Held(p) - Held(pc[r])
  BY HoldersChange DEF ConnectionsAddUp
<1>7. free \in Nat /\ PoolSize \in Nat
      /\ free + Cardinality(Holders(1)) + Cardinality(Holders(2)) = PoolSize
  BY PoolAssumption DEF ConnectionsAddUp, TypeOK
<1>8. free' + Cardinality(Holders(1)') + Cardinality(Holders(2)') = PoolSize /\ free' \in 0 .. PoolSize
  BY <1>1, <1>3, <1>5, <1>6, <1>7
<1>9. {q \in Requests : Waiting(q)'}
        = IF p \in {"wait1", "wait2"} THEN {q \in Requests : Waiting(q)} \cup {r}
                                      ELSE {q \in Requests : Waiting(q)} \ {r}
  BY <1>2 DEF Waiting
<1> QED BY <1>2, <1>8, <1>9

LEMMA PoolInitially == Init => PoolInv
<1> SUFFICES ASSUME Init PROVE PoolInv
  OBVIOUS
<1>1. TypeOK /\ LoginPoints
  BY PoolAssumption DEF Init, TypeOK, Points, LoginPoints
<1>2. \A n \in {1, 2} : Holders(n) = {}
  BY DEF Init, Holders, Held
<1>3. free + Cardinality(Holders(1)) + Cardinality(Holders(2)) = PoolSize
  <2>1. Holders(1) = {} /\ Holders(2) = {} /\ Cardinality({}) = 0
    BY <1>2, FS_EmptySet
  <2>2. free = PoolSize /\ PoolSize \in Nat
    BY PoolAssumption DEF Init
  <2> QED BY <2>1, <2>2
<1>4. ToSet(queue) = {r \in Requests : Waiting(r)} /\ IsInjective(queue)
  BY DEF Init, ToSet, Waiting, IsInjective
<1> QED BY <1>1, <1>3, <1>4 DEF PoolInv, ConnectionsAddUp

\* Where logins are does not depend on what any other handler does.
LEMMA LoginPointsKept ==
    ASSUME PoolInv, NEW r \in Requests, NEW p \in Points, Goto(r, p),
           p \in {"wait2", "second", "closing"} => r \in Logins
    PROVE  LoginPoints'
BY DEF PoolInv, LoginPoints, Goto, ConnectionsAddUp, TypeOK

\* Every way out of a handler gives back what it holds and leaves the queue.
LEMMA ReturnKeeps == ASSUME PoolInv, NEW r \in Requests, Return(r)
                     PROVE  PoolInv'
<1> USE DEF Return
<1>1. /\ Goto(r, "done") /\ free' = free + Held(pc[r]) - Held("done") /\ free' >= 0
      /\ "done" \in Points /\ Held("done") = 0
  BY DEF PoolInv, ConnectionsAddUp, TypeOK, Held, Points
<1>2. /\ free' \in 0 .. PoolSize /\ pc' \in [Requests -> Points]
      /\ free' + Cardinality(Holders(1)') + Cardinality(Holders(2)') = PoolSize
      /\ {q \in Requests : Waiting(q)'} = {q \in Requests : Waiting(q)} \ {r}
  BY <1>1, Moves DEF PoolInv
<1>3. /\ queue' \in Seq(Requests) /\ ToSet(queue') = ToSet(queue) \ {r} /\ IsInjective(queue')
  BY RemoveWaiter DEF PoolInv, ConnectionsAddUp, TypeOK
<1>4. LoginPoints'
  BY <1>1, LoginPointsKept
<1>5. TypeOK'
  BY <1>2, <1>3 DEF PoolInv, ConnectionsAddUp, TypeOK
<1>6. ToSet(queue') = {q \in Requests : Waiting(q)'}
  BY <1>2, <1>3 DEF PoolInv, ConnectionsAddUp
<1> QED BY <1>2, <1>3, <1>4, <1>5, <1>6 DEF PoolInv, ConnectionsAddUp

\* A handler that asks for a connection joins the queue with what it holds.
LEMMA AcquireKeeps ==
    ASSUME PoolInv, NEW r \in Requests, NEW p \in {"wait1", "wait2"}, ~Waiting(r),
           Acquire(r, p), Held(pc[r]) = Held(p), p = "wait2" => r \in Logins,
           UNCHANGED <<free, server>>
    PROVE  PoolInv'
<1> USE DEF Acquire
<1>1. p \in Points /\ Goto(r, p) /\ free' = free + Held(pc[r]) - Held(p) /\ free' >= 0
  <2>1. Held(p) \in 0 .. 2
    BY DEF Held
  <2> QED BY <2>1 DEF PoolInv, ConnectionsAddUp, TypeOK, Points
<1>2. /\ free' \in 0 .. PoolSize /\ pc' \in [Requests -> Points]
      /\ free' + Cardinality(Holders(1)') + Cardinality(Holders(2)') = PoolSize
      /\ {q \in Requests : Waiting(q)'} = {q \in Requests : Waiting(q)} \cup {r}
  BY <1>1, Moves DEF PoolInv
<1>3. /\ queue' \in Seq(Requests) /\ ToSet(queue') = ToSet(queue) \cup {r} /\ IsInjective(queue')
  BY JoinQueue DEF PoolInv, ConnectionsAddUp, TypeOK
<1>4. LoginPoints'
  BY <1>1, LoginPointsKept
<1>5. TypeOK'
  BY <1>2, <1>3 DEF PoolInv, ConnectionsAddUp, TypeOK
<1>6. ToSet(queue') = {q \in Requests : Waiting(q)'}
  BY <1>2, <1>3 DEF PoolInv, ConnectionsAddUp
<1> QED BY <1>2, <1>3, <1>4, <1>5, <1>6 DEF PoolInv, ConnectionsAddUp

LEMMA GrantKeeps == ASSUME PoolInv, Grant PROVE PoolInv'
<1>1. PICK r : r = Head(queue)
  OBVIOUS
<1>2. /\ r \in ToSet(queue) /\ Tail(queue) \in Seq(Requests)
      /\ ToSet(Tail(queue)) = ToSet(queue) \ {r} /\ IsInjective(Tail(queue))
  BY <1>1, ServeQueue DEF Grant, PoolInv, ConnectionsAddUp, TypeOK
<1>3. r \in Requests /\ pc[r] \in {"wait1", "wait2"}
  BY <1>2 DEF PoolInv, ConnectionsAddUp, Waiting
<1>4. PICK p : p = IF pc[r] = "wait1" THEN "first" ELSE "second"
  OBVIOUS
<1>5. p \in Points /\ p \notin {"wait1", "wait2"} /\ Held(p) = Held(pc[r]) + 1 /\ Held(pc[r]) \in 0 .. 2
  BY <1>3, <1>4 DEF Points, Held
<1>6. Goto(r, p) /\ queue' = Tail(queue) /\ server' = server
  BY <1>1, <1>4 DEF Grant
<1>7. free' = free + Held(pc[r]) - Held(p) /\ free' >= 0
  BY <1>5 DEF Grant, PoolInv, ConnectionsAddUp, TypeOK
<1>8. /\ free' \in 0 .. PoolSize /\ pc' \in [Requests -> Points]
      /\ free' + Cardinality(Holders(1)') + Cardinality(Holders(2)') = PoolSize
      /\ {q \in Requests : Waiting(q)'} = {q \in Requests : Waiting(q)} \ {r}
  BY <1>3, <1>5, <1>6, <1>7, Moves DEF PoolInv
<1>9. LoginPoints'
  <2>1. p \in {"wait2", "second", "closing"} => r \in Logins
    BY <1>3, <1>4 DEF PoolInv, LoginPoints
  <2> QED BY <1>3, <1>5, <1>6, <2>1, LoginPointsKept
<1>10. TypeOK'
  BY <1>2, <1>6, <1>8 DEF PoolInv, ConnectionsAddUp, TypeOK
<1>11. ToSet(queue') = {q \in Requests : Waiting(q)'} /\ IsInjective(queue')
  BY <1>2, <1>6, <1>8 DEF PoolInv, ConnectionsAddUp
<1> QED BY <1>8, <1>9, <1>10, <1>11 DEF PoolInv, ConnectionsAddUp

LEMMA LoginIssuedKeeps == ASSUME PoolInv, NEW r \in Requests, LoginIssued(r) PROVE PoolInv'
<1>1. /\ "closing" \in Points /\ Goto(r, "closing") /\ pc[r] = "second"
      /\ free' = free + Held(pc[r]) - Held("closing") /\ free' >= 0
  BY DEF LoginIssued, PoolInv, ConnectionsAddUp, TypeOK, Points, Held
<1>2. /\ free' \in 0 .. PoolSize /\ pc' \in [Requests -> Points]
      /\ free' + Cardinality(Holders(1)') + Cardinality(Holders(2)') = PoolSize
      /\ {q \in Requests : Waiting(q)'} = {q \in Requests : Waiting(q)} \ {r}
  BY <1>1, Moves DEF PoolInv
<1>3. {q \in Requests : Waiting(q)'} = {q \in Requests : Waiting(q)}
  BY <1>1, <1>2 DEF Waiting
<1>4. LoginPoints'
  BY <1>1, LoginPointsKept DEF PoolInv, LoginPoints
<1>5. TypeOK'
  BY <1>2 DEF PoolInv, ConnectionsAddUp, TypeOK, LoginIssued
<1> QED BY <1>2, <1>3, <1>4, <1>5 DEF PoolInv, ConnectionsAddUp, LoginIssued

LEMMA EndTransactionKeeps == ASSUME PoolInv, NEW r \in Requests, EndTransaction(r) PROVE PoolInv'
<1>1. /\ "between" \in Points /\ Goto(r, "between") /\ pc[r] = "first"
      /\ free' = free + Held(pc[r]) - Held("between") /\ free' >= 0
  BY DEF EndTransaction, PoolInv, ConnectionsAddUp, TypeOK, Points, Held
<1>2. /\ free' \in 0 .. PoolSize /\ pc' \in [Requests -> Points]
      /\ free' + Cardinality(Holders(1)') + Cardinality(Holders(2)') = PoolSize
      /\ {q \in Requests : Waiting(q)'} = {q \in Requests : Waiting(q)} \ {r}
  BY <1>1, Moves DEF PoolInv
<1>3. {q \in Requests : Waiting(q)'} = {q \in Requests : Waiting(q)}
  BY <1>1, <1>2 DEF Waiting
<1>4. LoginPoints'
  BY <1>1, LoginPointsKept DEF PoolInv, LoginPoints
<1>5. TypeOK'
  BY <1>2 DEF PoolInv, ConnectionsAddUp, TypeOK, EndTransaction
<1> QED BY <1>2, <1>3, <1>4, <1>5 DEF PoolInv, ConnectionsAddUp, EndTransaction

LEMMA PoolStep == PoolInv /\ [Next]_vars => PoolInv'
<1> SUFFICES ASSUME PoolInv, [Next]_vars PROVE PoolInv'
  OBVIOUS
<1>1. CASE \E r \in Requests : Arrive(r)
  <2>1. PICK r \in Requests : Arrive(r)
    BY <1>1
  <2>2. ~Waiting(r) /\ Held(pc[r]) = Held("wait1")
    BY <2>1 DEF Arrive, Waiting, Held
  <2> QED BY <2>1, <2>2, AcquireKeeps DEF Arrive
<1>2. CASE \E r \in Requests : Finish(r) \/ LoginReturn(r) \/ Disconnect(r)
  BY <1>2, ReturnKeeps DEF Finish, LoginReturn, Disconnect
<1>3. CASE \E r \in Requests : LoginNested(r)
  <2>1. PICK r \in Requests : LoginNested(r)
    BY <1>3
  <2>2. ~Waiting(r) /\ Held(pc[r]) = Held("wait2")
    BY <2>1 DEF LoginNested, Waiting, Held
  <2> QED BY <2>1, <2>2, AcquireKeeps DEF LoginNested
<1>4. CASE \E r \in Requests : LoginIssued(r)
  BY <1>4, LoginIssuedKeeps
<1>7. CASE \E r \in Requests : EndTransaction(r)
  BY <1>7, EndTransactionKeeps
<1>8. CASE \E r \in Requests : BeginAnother(r)
  <2>1. PICK r \in Requests : BeginAnother(r)
    BY <1>8
  <2>2. ~Waiting(r) /\ Held(pc[r]) = Held("wait1")
    BY <2>1 DEF BeginAnother, Waiting, Held
  <2> QED BY <2>1, <2>2, AcquireKeeps DEF BeginAnother
<1>5. CASE Grant
  BY <1>5, GrantKeeps
<1>6. CASE Terminate \/ Exit \/ ForcedExit \/ UNCHANGED vars
  <2>1. UNCHANGED <<free, queue, pc>> /\ server' \in {"up", "draining", "exited", "killed"}
    BY <1>6 DEF Terminate, Exit, ForcedExit, vars, PoolInv, ConnectionsAddUp, TypeOK
  <2> QED BY <2>1 DEF PoolInv, LoginPoints, ConnectionsAddUp, TypeOK, Holders, Waiting
<1> QED BY <1>1, <1>2, <1>3, <1>4, <1>5, <1>6, <1>7, <1>8 DEF Next, Handler

\* The conservation law with the points only logins reach: inductive.
THEOREM PoolInvariance == Spec => []PoolInv
BY PoolInitially, PoolStep, PTL DEF Spec

\* The types of the pool's state hold in every reachable state.
THEOREM PoolTypes == Spec => []TypeOK
<1>1. PoolInv => TypeOK
  BY DEF PoolInv, ConnectionsAddUp
<1> QED BY <1>1, PoolInvariance, PTL

\* Whatever the size of the pool and however many requests run, time out or
\* hang up, connections are neither leaked nor given back twice, and a place
\* in the queue belongs to a handler that still waits.
THEOREM NoConnectionIsLost == Spec => []ConnectionsAddUp
<1>1. PoolInv => ConnectionsAddUp
  BY DEF PoolInv
<1> QED BY <1>1, PoolInvariance, PTL

\* A pool on which everybody waits is held by as many logins as it has
\* connections, each holding the transaction its second one waits behind.
THEOREM OnlyLoginsStandStill == Spec => []StandstillIsLogins
<1>1. PoolInv => StandstillIsLogins
  <2> SUFFICES ASSUME PoolInv, Stuck PROVE PoolHeldByLogins
    BY DEF StandstillIsLogins
  <2>1. \A r \in Requests : Held(pc[r]) = IF pc[r] = "wait2" THEN 1 ELSE 0
    BY DEF Stuck, Active, Waiting, Held, PoolInv, ConnectionsAddUp, TypeOK, Points
  <2>2. Holders(1) = {r \in Logins : pc[r] = "wait2"}
    BY <2>1 DEF Holders, PoolInv, LoginPoints, Requests
  <2>3. Holders(2) = {}
    BY <2>1 DEF Holders
  <2>4. free = 0 /\ free + Cardinality(Holders(1)) + Cardinality({}) = PoolSize
    BY <2>3 DEF Stuck, PoolInv, ConnectionsAddUp
  <2>5. Cardinality(Holders(1)) \in Nat
    BY RequestsFinite DEF Holders
  <2> QED BY <2>2, <2>4, <2>5, FS_EmptySet DEF PoolHeldByLogins
<1> QED BY <1>1, PoolInvariance, PTL

\* Whenever a request is in progress a connection can be handed out or a
\* handler has what it needs to go on.
SomebodyCanGoOn ==
    (\E r \in Requests : Active(r)) =>
        \/ free > 0 /\ queue # <<>>
        \/ \E r \in Requests : Active(r) /\ ~Waiting(r)

\* A pool larger than the number of logins there can be at a time never stands
\* still, whatever else asks it for connections: what it takes to be safe from
\* the nested transaction of LoginHandler (auth_http.go:295).
THEOREM LargePoolsNeverStandStill ==
    Cardinality(Logins) < PoolSize => (Spec => []SomebodyCanGoOn)
<1> SUFFICES ASSUME Cardinality(Logins) < PoolSize PROVE Spec => []SomebodyCanGoOn
  OBVIOUS
<1>1. PoolInv /\ StandstillIsLogins => SomebodyCanGoOn
  <2> SUFFICES ASSUME PoolInv, StandstillIsLogins, NEW r \in Requests, Active(r),
                      \A q \in Requests : Active(q) => Waiting(q)
               PROVE  free > 0 /\ queue # <<>>
    BY DEF SomebodyCanGoOn
  <2> DEFINE second == {q \in Logins : pc[q] = "wait2"}
  <2>1. Cardinality(second) <= Cardinality(Logins) /\ Cardinality(second) \in Nat
        /\ Cardinality(Logins) \in Nat /\ PoolSize \in Nat
    BY PoolAssumption, FS_Subset, FS_CardinalityType
  <2>2. Cardinality(second) # PoolSize
    BY <2>1
  <2>3. ~Stuck
    BY <2>2 DEF StandstillIsLogins, PoolHeldByLogins
  <2>4. free # 0 /\ free \in Nat
    BY <2>3 DEF Stuck, PoolInv, ConnectionsAddUp, TypeOK
  <2>5. r \in ToSet(queue)
    BY DEF PoolInv, ConnectionsAddUp
  <2>6. queue # <<>>
    BY <2>5 DEF ToSet
  <2> QED BY <2>4, <2>6
<1> QED BY <1>1, PoolInvariance, OnlyLoginsStandStill, PTL
-----------------------------------------------------------------------------
(* The circuit breaker.                                                    *)

\* The counter is the length of the streak, and an open circuit needs all of it.
StreakInv == /\ failures = streak
             /\ openFor > 0 => streak = Threshold

\* What a caller may have sent since the circuit last opened is told by where
\* it is: nothing if it is idle, since every recorded failure opens it anew.
SentInv == streak = Threshold =>
               \A c \in Callers : /\ stage[c] = "idle" => sent[c] = 0
                                  /\ stage[c] = "token" => sent[c] <= 1
                                  /\ sent[c] <= 2

BreakerInv == BreakerTypeOK /\ StreakInv /\ SentInv

LEMMA OneMoreFact == ASSUME NEW n \in 0 .. Threshold
                     PROVE  OneMore(n) \in 0 .. Threshold
BY BreakerAssumption, SMT DEF OneMore

LEMMA BreakerInitially == BreakerInit => BreakerInv
BY BreakerAssumption DEF BreakerInit, BreakerInv, BreakerTypeOK, StreakInv, SentInv, Stages

LEMMA BeginInv == ASSUME BreakerInv, NEW c \in Callers, Begin(c)
                  PROVE  BreakerInv'
BY BreakerAssumption
   DEF Begin, Send, MoveTo, circuitOpen, BreakerInv, BreakerTypeOK, StreakInv, SentInv, Stages

LEMMA UnconfiguredInv == ASSUME BreakerInv, NEW c \in Callers, Unconfigured(c)
                         PROVE  BreakerInv'
BY BreakerAssumption DEF Unconfigured, MoveTo, BreakerInv, BreakerTypeOK, StreakInv, SentInv, Stages

LEMMA TokenArrivesInv == ASSUME BreakerInv, NEW c \in Callers, TokenArrives(c)
                         PROVE  BreakerInv'
BY BreakerAssumption DEF TokenArrives, Send, MoveTo, BreakerInv, BreakerTypeOK, StreakInv, SentInv, Stages

LEMMA AnswerArrivesInv == ASSUME BreakerInv, NEW c \in Callers, AnswerArrives(c)
                          PROVE  BreakerInv'
BY BreakerAssumption DEF AnswerArrives, MoveTo, BreakerInv, BreakerTypeOK, StreakInv, SentInv, Stages

LEMMA RequestFailsInv == ASSUME BreakerInv, NEW c \in Callers, RequestFails(c)
                         PROVE  BreakerInv'
BY BreakerAssumption DEF RequestFails, MoveTo, BreakerInv, BreakerTypeOK, StreakInv, SentInv, Stages

LEMMA RecordSuccessInv == ASSUME BreakerInv, NEW c \in Callers, RecordSuccess(c)
                          PROVE  BreakerInv'
BY BreakerAssumption DEF RecordSuccess, MoveTo, BreakerInv, BreakerTypeOK, StreakInv, SentInv, Stages

LEMMA RecordFailureInv == ASSUME BreakerInv, NEW c \in Callers, RecordFailure(c)
                          PROVE  BreakerInv'
<1>1. OneMore(failures) = OneMore(streak) /\ OneMore(streak) \in 0 .. Threshold
  BY OneMoreFact DEF BreakerInv, BreakerTypeOK, StreakInv
<1>2. CASE OneMore(failures) = Threshold
  BY <1>1, <1>2, BreakerAssumption
     DEF RecordFailure, Open, MoveTo, BreakerInv, BreakerTypeOK, StreakInv, SentInv, Stages
<1>3. CASE OneMore(failures) # Threshold
  <2>1. streak # Threshold
    BY <1>1, <1>3, BreakerAssumption, SMT DEF OneMore
  <2> QED
    BY <1>1, <1>3, <2>1, BreakerAssumption
       DEF RecordFailure, MoveTo, BreakerInv, BreakerTypeOK, StreakInv, SentInv, Stages
<1> QED BY <1>2, <1>3

LEMMA TimeInv == ASSUME BreakerInv, Tick \/ ZoomChanges
                 PROVE  BreakerInv'
<1>1. CASE Tick
  <2>1. openFor' \in 0 .. Window /\ (openFor' > 0 => openFor > 0)
    BY <1>1, BreakerAssumption DEF Tick, BreakerInv, BreakerTypeOK
  <2> QED
    BY <1>1, <2>1 DEF Tick, BreakerInv, BreakerTypeOK, StreakInv, SentInv
<1>2. CASE ZoomChanges
  BY <1>2 DEF ZoomChanges, BreakerInv, BreakerTypeOK, StreakInv, SentInv
<1> QED BY <1>1, <1>2

THEOREM BreakerInvariance == BreakerSpec => []BreakerInv
<1>1. BreakerInv /\ [BreakerNext]_breakerVars => BreakerInv'
  <2> SUFFICES ASSUME BreakerInv, [BreakerNext]_breakerVars PROVE BreakerInv'
    OBVIOUS
  <2>1. CASE \E c \in Callers : Begin(c) \/ Unconfigured(c)
    BY <2>1, BeginInv, UnconfiguredInv
  <2>2. CASE \E c \in Callers : Proceed(c)
    BY <2>2, TokenArrivesInv, AnswerArrivesInv, RequestFailsInv, RecordSuccessInv,
       RecordFailureInv DEF Proceed
  <2>3. CASE Tick \/ ZoomChanges
    BY <2>3, TimeInv
  <2>4. CASE UNCHANGED breakerVars
    BY <2>4 DEF breakerVars, BreakerInv, BreakerTypeOK, StreakInv, SentInv
  <2> QED BY <2>1, <2>2, <2>3, <2>4 DEF BreakerNext
<1> QED BY BreakerInitially, <1>1, PTL DEF BreakerSpec

\* The counter, the time left, the stages and the history keep their types.
THEOREM BreakerTypes == BreakerSpec => []BreakerTypeOK
<1>1. BreakerInv => BreakerTypeOK
  BY DEF BreakerInv
<1> QED BY BreakerInvariance, <1>1, PTL

\* zoom_client.go, circuitOpen and recordResult: one call of each caller
\* between two openings, however many callers there are.
THEOREM BoundedTraffic == BreakerSpec => []OutageTrafficIsBounded
<1>1. BreakerInv => OutageTrafficIsBounded
  BY DEF BreakerInv, SentInv, OutageTrafficIsBounded
<1> QED BY BreakerInvariance, <1>1, PTL
=============================================================================
