-------------------------- MODULE RoomEvents_proofs --------------------------
(***************************************************************************)
(* RoomEvents for any numbers of rooms, sockets, messages, polls and       *)
(* repeats: the keys of a room agree, acknowledged events are numbered in  *)
(* order, and polls are up to date.                                        *)
(***************************************************************************)
EXTENDS RoomEvents, TLAPS

\* A message a socket is handling is its own, read for its room and not older
\* than the keys of that room.
SocketInv ==
    \A s \in Sockets :
        /\ phase[s] \in {"sending", "applied"} =>
              /\ current[s] \in Messages
              /\ roomOf[s] \in Rooms
              /\ fate[current[s]] = "read"
              /\ target[current[s]] = roomOf[s]
              /\ current[s] \notin past
        /\ phase[s] \notin {"sending", "applied"} => current[s] = None
        /\ phase[s] = "open" => roomOf[s] \in Rooms
        /\ phase[s] = "applied" => number[current[s]] # 0

OwnInv == \A s, t \in Sockets : current[s] # None /\ current[s] = current[t] => s = t

\* What the fate of a message says of its number.
MessageInv ==
    \A m \in Messages :
        /\ fate[m] = "unsent" => target[m] = None /\ number[m] = 0 /\ adrift[m] = 0 /\ m \notin past
        /\ fate[m] # "unsent" => target[m] \in Rooms
        /\ fate[m] = "acked" => number[m] # 0
        /\ adrift[m] > 0 => m \notin past
        /\ m \notin past /\ target[m] \in Rooms => number[m] <= sequence[target[m]]

\* No number is given twice while the keys of a room exist.
UniqueInv ==
    \A m, n \in Messages \ past :
        target[m] = target[n] /\ number[m] # 0 /\ number[m] = number[n] => m = n

\* What was acknowledged before a request has a smaller number.
OrderInv ==
    \A q \in Requests : \A m \in earlier[q] :
        /\ fate[m] = "acked" /\ target[m] = target[q]
        /\ (q \in Messages \ past /\ m \notin past /\ number[q] # 0) =>
              number[m] < number[q]

\* The keys of a room do not expire while a poll reads them.
PollInv == \A p \in Polls : poll[p] = "checked" =>
               target[p] \in Rooms /\ \A m \in earlier[p] : m \notin past

LatestInv == \A rm \in Rooms : latest[rm] \notin past

IInv == /\ TypeOK /\ SocketInv /\ OwnInv /\ MessageInv /\ UniqueInv /\ OrderInv
        /\ PollInv /\ LatestInv /\ KeysAgree /\ PollsAreUpToDate

LEMMA Invs == IInv => AcknowledgedInOrder
  BY DEF IInv, TypeOK, MessageInv, UniqueInv, OrderInv, AcknowledgedInOrder,
         Acknowledged, Requests

LEMMA Initially == Init => IInv
  <1> SUFFICES ASSUME Init PROVE IInv
    OBVIOUS
  <1> USE RoomAssumption DEF Init
  <1>1. TypeOK
    BY DEF TypeOK, Requests
  <1>2. SocketInv
    BY DEF SocketInv
  <1>3. OwnInv
    BY DEF OwnInv
  <1>4. MessageInv
    BY DEF MessageInv, Requests
  <1>5. UniqueInv
    BY DEF UniqueInv
  <1>6. OrderInv
    BY DEF OrderInv, Requests
  <1>7. PollInv
    BY DEF PollInv
  <1>8. LatestInv
    BY DEF LatestInv
  <1>9. KeysAgree
    BY DEF KeysAgree
  <1>10. PollsAreUpToDate
    BY DEF PollsAreUpToDate
  <1> QED
    BY <1>1, <1>2, <1>3, <1>4, <1>5, <1>6, <1>7, <1>8, <1>9, <1>10 DEF IInv
-----------------------------------------------------------------------------
(* Steps.                                                                  *)

LEMMA CreateRoomKeeps ==
    ASSUME IInv, NEW rm \in Rooms, NEW u \in Users, CreateRoom(rm, u)
    PROVE  IInv'
  BY RoomAssumption DEF CreateRoom, socketVars, pollVars, history, IInv, TypeOK, SocketInv, OwnInv,
     MessageInv, UniqueInv, OrderInv, PollInv, LatestInv, KeysAgree, PollsAreUpToDate

LEMMA OpenKeeps ==
    ASSUME IInv, NEW s \in Sockets, NEW rm \in Rooms, NEW u \in Users, Open(s, rm, u)
    PROVE  IInv'
  BY RoomAssumption DEF Open, socketVars, pollVars, history, IInv, TypeOK, SocketInv, OwnInv,
     MessageInv, UniqueInv, OrderInv, PollInv, LatestInv, KeysAgree, PollsAreUpToDate

LEMMA ReadKeeps ==
    ASSUME IInv, NEW s \in Sockets, NEW m \in Messages, Read(s, m)
    PROVE  IInv'
  <1> USE RoomAssumption DEF Read, socketVars, pollVars, history, Requests, IInv, TypeOK, Begin, Acknowledged
  <1>1. TypeOK'
    OBVIOUS
  <1>2. SocketInv'
    BY DEF SocketInv, MessageInv
  <1>3. OwnInv'
    BY DEF SocketInv, OwnInv
  <1>4. MessageInv'
    BY DEF SocketInv, MessageInv
  <1>5. UniqueInv'
    BY DEF MessageInv, UniqueInv
  <1>6. OrderInv'
    BY DEF MessageInv, OrderInv
  <1>7. PollInv'
    BY DEF PollInv
  <1>8. LatestInv'
    BY DEF LatestInv
  <1>9. KeysAgree'
    BY DEF MessageInv, KeysAgree
  <1>10. PollsAreUpToDate'
    BY DEF OrderInv, PollsAreUpToDate
  <1> QED
    BY <1>1, <1>2, <1>3, <1>4, <1>5, <1>6, <1>7, <1>8, <1>9, <1>10 DEF IInv

LEMMA ExecuteKeeps ==
    ASSUME IInv, NEW s \in Sockets, Execute(s)
    PROVE  IInv'
  <1> USE RoomAssumption DEF Execute, Script, socketVars, pollVars, history, Requests, IInv, TypeOK
  <1>1. TypeOK'
    BY DEF SocketInv
  <1>2. SocketInv'
    BY DEF SocketInv
  <1>3. OwnInv'
    BY DEF OwnInv
  <1>4. MessageInv'
    BY DEF SocketInv, MessageInv
  <1>5. UniqueInv'
    BY DEF SocketInv, MessageInv, UniqueInv
  <1>6. OrderInv'
    BY DEF SocketInv, MessageInv, OrderInv
  <1>7. PollInv'
    BY DEF PollInv
  <1>8. LatestInv'
    BY DEF SocketInv, LatestInv
  <1>9. KeysAgree'
    BY DEF SocketInv, KeysAgree
  <1>10. PollsAreUpToDate'
    BY DEF SocketInv, OrderInv, PollsAreUpToDate
  <1> QED
    BY <1>1, <1>2, <1>3, <1>4, <1>5, <1>6, <1>7, <1>8, <1>9, <1>10 DEF IInv

LEMMA ExecuteLateKeeps ==
    ASSUME IInv, NEW m \in Messages, ExecuteLate(m)
    PROVE  IInv'
  <1> USE RoomAssumption DEF ExecuteLate, Script, socketVars, pollVars, history, Requests, IInv, TypeOK
  <1>1. TypeOK'
    BY DEF MessageInv
  <1>2. SocketInv'
    BY DEF SocketInv
  <1>3. OwnInv'
    BY DEF OwnInv
  <1>4. MessageInv'
    BY DEF SocketInv, MessageInv
  <1>5. UniqueInv'
    BY DEF SocketInv, MessageInv, UniqueInv
  <1>6. OrderInv'
    BY DEF SocketInv, MessageInv, OrderInv
  <1>7. PollInv'
    BY DEF PollInv
  <1>8. LatestInv'
    BY DEF MessageInv, LatestInv
  <1>9. KeysAgree'
    BY DEF MessageInv, KeysAgree
  <1>10. PollsAreUpToDate'
    BY DEF PollsAreUpToDate
  <1> QED
    BY <1>1, <1>2, <1>3, <1>4, <1>5, <1>6, <1>7, <1>8, <1>9, <1>10 DEF IInv

LEMMA RepeatKeeps ==
    ASSUME IInv, NEW s \in Sockets, Repeat(s)
    PROVE  IInv'
  <1> USE RoomAssumption DEF Repeat, StopWaiting, socketVars, pollVars, history, Requests, IInv, TypeOK
  <1>1. TypeOK'
    OBVIOUS
  <1>2. SocketInv'
    BY DEF SocketInv
  <1>3. OwnInv'
    BY DEF OwnInv
  <1>4. MessageInv'
    BY DEF SocketInv, MessageInv
  <1>5. UniqueInv'
    BY DEF UniqueInv
  <1>6. OrderInv'
    BY DEF OrderInv
  <1>7. PollInv'
    BY DEF PollInv
  <1>8. LatestInv'
    BY DEF LatestInv
  <1>9. KeysAgree'
    BY DEF KeysAgree
  <1>10. PollsAreUpToDate'
    BY DEF PollsAreUpToDate
  <1> QED
    BY <1>1, <1>2, <1>3, <1>4, <1>5, <1>6, <1>7, <1>8, <1>9, <1>10 DEF IInv

LEMMA AcknowledgeKeeps ==
    ASSUME IInv, NEW s \in Sockets, Acknowledge(s)
    PROVE  IInv'
  <1> USE RoomAssumption DEF Acknowledge, socketVars, pollVars, history, Requests, IInv, TypeOK, Answer
  <1>1. TypeOK'
    BY DEF SocketInv
  <1>2. SocketInv'
    BY DEF SocketInv, OwnInv
  <1>3. OwnInv'
    BY DEF OwnInv
  <1>4. MessageInv'
    BY DEF SocketInv, MessageInv
  <1>5. UniqueInv'
    BY DEF UniqueInv
  <1>6. OrderInv'
    BY DEF OrderInv
  <1>7. PollInv'
    BY DEF PollInv
  <1>8. LatestInv'
    BY DEF LatestInv
  <1>9. KeysAgree'
    BY DEF KeysAgree
  <1>10. PollsAreUpToDate'
    BY DEF PollsAreUpToDate
  <1> QED
    BY <1>1, <1>2, <1>3, <1>4, <1>5, <1>6, <1>7, <1>8, <1>9, <1>10 DEF IInv

LEMMA GiveUpKeeps ==
    ASSUME IInv, NEW s \in Sockets, GiveUp(s)
    PROVE  IInv'
  <1> USE RoomAssumption DEF GiveUp, StopWaiting, socketVars, pollVars, history, Requests, IInv, TypeOK, Answer
  <1>1. TypeOK'
    BY DEF SocketInv
  <1>2. SocketInv'
    BY DEF SocketInv, OwnInv
  <1>3. OwnInv'
    BY DEF OwnInv
  <1>4. MessageInv'
    BY DEF SocketInv, MessageInv
  <1>5. UniqueInv'
    BY DEF UniqueInv
  <1>6. OrderInv'
    BY DEF SocketInv, OrderInv
  <1>7. PollInv'
    BY DEF PollInv
  <1>8. LatestInv'
    BY DEF LatestInv
  <1>9. KeysAgree'
    BY DEF KeysAgree
  <1>10. PollsAreUpToDate'
    BY DEF PollsAreUpToDate
  <1> QED
    BY <1>1, <1>2, <1>3, <1>4, <1>5, <1>6, <1>7, <1>8, <1>9, <1>10 DEF IInv

LEMMA CloseKeeps ==
    ASSUME IInv, NEW s \in Sockets, Close(s)
    PROVE  IInv'
  <1> USE RoomAssumption DEF Close, StopWaiting, socketVars, pollVars, history, Requests, IInv, TypeOK
  <1>1. TypeOK'
    OBVIOUS
  <1>2. SocketInv'
    BY DEF SocketInv, OwnInv
  <1>3. OwnInv'
    BY DEF OwnInv
  <1>4. MessageInv'
    BY DEF SocketInv, MessageInv
  <1>5. UniqueInv'
    BY DEF UniqueInv
  <1>6. OrderInv'
    BY DEF SocketInv, OrderInv
  <1>7. PollInv'
    BY DEF PollInv
  <1>8. LatestInv'
    BY DEF LatestInv
  <1>9. KeysAgree'
    BY DEF KeysAgree
  <1>10. PollsAreUpToDate'
    BY DEF PollsAreUpToDate
  <1> QED
    BY <1>1, <1>2, <1>3, <1>4, <1>5, <1>6, <1>7, <1>8, <1>9, <1>10 DEF IInv

LEMMA PollCheckKeeps ==
    ASSUME IInv, NEW p \in Polls, NEW rm \in Rooms, NEW u \in Users, PollCheck(p, rm, u)
    PROVE  IInv'
  <1> USE RoomAssumption DEF PollCheck, socketVars, pollVars, history, Requests, IInv, TypeOK, Begin, Acknowledged
  <1>1. TypeOK'
    OBVIOUS
  <1>2. SocketInv'
    BY DEF SocketInv
  <1>3. OwnInv'
    BY DEF OwnInv
  <1>4. MessageInv'
    BY DEF MessageInv
  <1>5. UniqueInv'
    BY DEF UniqueInv
  <1>6. OrderInv'
    BY DEF OrderInv
  <1>7. PollInv'
    BY DEF PollInv
  <1>8. LatestInv'
    BY DEF LatestInv
  <1>9. KeysAgree'
    BY DEF KeysAgree
  <1>10. PollsAreUpToDate'
    BY DEF PollsAreUpToDate
  <1> QED
    BY <1>1, <1>2, <1>3, <1>4, <1>5, <1>6, <1>7, <1>8, <1>9, <1>10 DEF IInv

LEMMA PollReadKeeps ==
    ASSUME IInv, NEW p \in Polls, PollRead(p)
    PROVE  IInv'
  <1> USE RoomAssumption DEF PollRead, socketVars, pollVars, history, Requests, IInv, TypeOK
  <1>1. TypeOK'
    BY DEF PollInv
  <1>2. SocketInv'
    BY DEF SocketInv
  <1>3. OwnInv'
    BY DEF OwnInv
  <1>4. MessageInv'
    BY DEF MessageInv
  <1>5. UniqueInv'
    BY DEF UniqueInv
  <1>6. OrderInv'
    BY DEF OrderInv
  <1>7. PollInv'
    BY DEF PollInv
  <1>8. LatestInv'
    BY DEF LatestInv
  <1>9. KeysAgree'
    BY DEF KeysAgree
  <1>10. PollsAreUpToDate'
    <2> SUFFICES ASSUME NEW m \in earlier[p]
                 PROVE  latest[target[p]] # None /\ latest[target[p]] \notin earlier[m] \ strayed
      BY DEF PollsAreUpToDate
    <2> DEFINE rm == target[p]
    <2>1. /\ m \in Messages \ past /\ fate[m] = "acked"
          /\ rm \in Rooms /\ target[m] = rm
      BY DEF PollInv, OrderInv
    <2>2. number[m] # 0 /\ number[m] <= sequence[rm]
      BY <2>1 DEF MessageInv
    <2>3. /\ latest[rm] # None /\ latest[rm] \in Messages \ past
          /\ latest[rm] \in strayed \/ number[latest[rm]] = sequence[rm]
      BY <2>1, <2>2 DEF KeysAgree, LatestInv
    <2>4. latest[rm] \notin earlier[m] \ strayed
      BY <2>1, <2>2, <2>3 DEF OrderInv
    <2> QED
      BY <2>3, <2>4
  <1> QED
    BY <1>1, <1>2, <1>3, <1>4, <1>5, <1>6, <1>7, <1>8, <1>9, <1>10 DEF IInv

LEMMA ExpireKeeps ==
    ASSUME IInv, NEW rm \in Rooms, Expire(rm)
    PROVE  IInv'
  <1> USE RoomAssumption DEF Expire, socketVars, pollVars, history, Requests, IInv, TypeOK, Quiet
  <1>1. TypeOK'
    OBVIOUS
  <1>2. SocketInv'
    BY DEF SocketInv
  <1>3. OwnInv'
    BY DEF OwnInv
  <1>4. MessageInv'
    BY DEF MessageInv
  <1>5. UniqueInv'
    BY DEF UniqueInv
  <1>6. OrderInv'
    BY DEF OrderInv
  <1>7. PollInv'
    BY DEF PollInv, OrderInv
  <1>8. LatestInv'
    BY DEF LatestInv, KeysAgree
  <1>9. KeysAgree'
    BY DEF KeysAgree
  <1>10. PollsAreUpToDate'
    BY DEF PollsAreUpToDate
  <1> QED
    BY <1>1, <1>2, <1>3, <1>4, <1>5, <1>6, <1>7, <1>8, <1>9, <1>10 DEF IInv
-----------------------------------------------------------------------------
LEMMA Inductive == IInv /\ [Next]_vars => IInv'
  <1> SUFFICES ASSUME IInv, [Next]_vars PROVE IInv'
    OBVIOUS
  <1>1. CASE UNCHANGED vars
    BY <1>1 DEF vars, socketVars, pollVars, history, IInv, TypeOK, SocketInv, OwnInv, MessageInv,
       UniqueInv, OrderInv, PollInv, LatestInv, KeysAgree, PollsAreUpToDate
  <1>2. ASSUME NEW rm \in Rooms, NEW u \in Users, CreateRoom(rm, u) PROVE IInv'
    BY <1>2, CreateRoomKeeps
  <1>3. ASSUME NEW s \in Sockets, NEW rm \in Rooms, NEW u \in Users, Open(s, rm, u)
        PROVE  IInv'
    BY <1>3, OpenKeeps
  <1>4. ASSUME NEW p \in Polls, NEW rm \in Rooms, NEW u \in Users, PollCheck(p, rm, u)
        PROVE  IInv'
    BY <1>4, PollCheckKeeps
  <1>5. ASSUME NEW s \in Sockets, NEW m \in Messages, Read(s, m) PROVE IInv'
    BY <1>5, ReadKeeps
  <1>6. ASSUME NEW s \in Sockets, Append(s) PROVE IInv'
    BY <1>6, ExecuteKeeps, RepeatKeeps, AcknowledgeKeeps, GiveUpKeeps DEF Append
  <1>7. ASSUME NEW s \in Sockets, Close(s) PROVE IInv'
    BY <1>7, CloseKeeps
  <1>8. ASSUME NEW p \in Polls, PollRead(p) PROVE IInv'
    BY <1>8, PollReadKeeps
  <1>9. ASSUME NEW rm \in Rooms, Expire(rm) PROVE IInv'
    BY <1>9, ExpireKeeps
  <1>10. ASSUME NEW m \in Messages, ExecuteLate(m) PROVE IInv'
    BY <1>10, ExecuteLateKeeps
  <1> QED
    BY <1>1, <1>2, <1>3, <1>4, <1>5, <1>6, <1>7, <1>8, <1>9, <1>10 DEF Next

\* The inductive invariant holds in every reachable state.
THEOREM Invariance == Spec => []IInv
  BY Initially, Inductive, PTL DEF Spec

\* Types, in particular the bound on the repeats of one script.
THEOREM TypeCorrectness == Spec => []TypeOK
  <1>1. IInv => TypeOK
    BY DEF IInv
  <1> QED
    BY <1>1, Invariance, PTL

\* The stored event of a room is the one that was given the stored number,
\* whatever scripts of whatever sockets Redis has run, and however often.
THEOREM KeysAgreement == Spec => []KeysAgree
  <1>1. IInv => KeysAgree
    BY DEF IInv
  <1> QED
    BY <1>1, Invariance, PTL

\* While the keys of a room exist, acknowledged events have different numbers,
\* in the order in which one was read after another was acknowledged.
THEOREM NumberedInOrder == Spec => []AcknowledgedInOrder
  BY Invs, Invariance, PTL

\* A poll never misses an event acknowledged before it began.
THEOREM UpToDatePolls == Spec => []PollsAreUpToDate
  <1>1. IInv => PollsAreUpToDate
    BY DEF IInv
  <1> QED
    BY <1>1, Invariance, PTL
=============================================================================
