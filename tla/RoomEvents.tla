----------------------------- MODULE RoomEvents -----------------------------
(***************************************************************************)
(* Live rooms: the creation of a room (rooms_http.go), the sockets that    *)
(* append its events (driving_wss.go), the Lua script that numbers them    *)
(* (redis_lua.go) and the polling fallback that reads the latest one.      *)
(*                                                                         *)
(* Redis runs a script without interruption; everything else interleaves.  *)
(* The client library repeats a script whose reply it did not get, and a   *)
(* script it no longer waits for may still reach Redis.                    *)
(***************************************************************************)
EXTENDS Naturals

CONSTANTS Users,
          Rooms,
          Sockets,      \* WebSocket connections
          Messages,     \* messages clients send, each once: a bound
          Polls,        \* GET /api/v1/rooms/state requests, each once: a bound
          Repeats,      \* attempts of the Redis client after the first one
          None

ASSUME RoomAssumption == /\ Repeats \in Nat
                         /\ None \notin Users \cup Rooms \cup Messages
                         /\ Messages \cap Polls = {}

VARIABLES host,         \* the user of the only row of room_participants of each
                        \* room, or None: no such row in live_rooms
          sequence,     \* Redis: room:<id>:sequence (0: no such key)
          latest,       \* Redis: room:<id>:latest (None: no such key)
          phase,        \* where the read loop of each socket is
          attempt,      \* repeats of the script it is running
          current,      \* the message it is handling
          roomOf,       \* the room of each socket
          fate,         \* what became of each message
          poll,         \* where each poll is
          saw,          \* the event it returned
          adrift,       \* scripts of each message on their way to Redis that
                        \* nobody waits for
          target,       \* the room each poll or message is about
          number,       \* what INCR last returned for a message
          earlier,      \* history: messages acknowledged in the room, since its
                        \* keys exist, before a message was read or a poll began
          past,         \* history: messages older than the keys of their room
          strayed       \* history: messages whose last script nobody waited for

socketVars == <<phase, attempt, current, roomOf>>
pollVars == <<poll, saw>>
history == <<earlier, past>>
vars == <<host, sequence, latest, socketVars, fate, pollVars, adrift, target,
          number, history, strayed>>

Requests == Messages \cup Polls

TypeOK ==
    /\ host \in [Rooms -> Users \cup {None}]
    /\ sequence \in [Rooms -> Nat]
    /\ latest \in [Rooms -> Messages \cup {None}]
    /\ phase \in [Sockets -> {"new", "open", "sending", "applied", "closed"}]
    /\ attempt \in [Sockets -> 0..Repeats]
    /\ current \in [Sockets -> Messages \cup {None}]
    /\ roomOf \in [Sockets -> Rooms \cup {None}]
    /\ fate \in [Messages -> {"unsent", "read", "acked", "failed", "lost"}]
    /\ poll \in [Polls -> {"new", "checked", "done", "refused"}]
    /\ saw \in [Polls -> Messages \cup {None}]
    /\ target \in [Requests -> Rooms \cup {None}]
    /\ number \in [Messages -> Nat]
    /\ earlier \in [Requests -> SUBSET Messages]
    /\ adrift \in [Messages -> Nat]
    /\ past \subseteq Messages
    /\ strayed \subseteq Messages

Init ==
    /\ host = [rm \in Rooms |-> None]
    /\ sequence = [rm \in Rooms |-> 0]
    /\ latest = [rm \in Rooms |-> None]
    /\ phase = [s \in Sockets |-> "new"]
    /\ attempt = [s \in Sockets |-> 0]
    /\ current = [s \in Sockets |-> None]
    /\ roomOf = [s \in Sockets |-> None]
    /\ fate = [m \in Messages |-> "unsent"]
    /\ poll = [p \in Polls |-> "new"]
    /\ saw = [p \in Polls |-> None]
    /\ target = [q \in Requests |-> None]
    /\ number = [m \in Messages |-> 0]
    /\ earlier = [q \in Requests |-> {}]
    /\ adrift = [m \in Messages |-> 0]
    /\ past = {}
    /\ strayed = {}

\* The acknowledged events whose numbers the keys of room rm still continue.
Acknowledged(rm) == {m \in Messages \ past : fate[m] = "acked" /\ target[m] = rm}

\* Request q, about room rm, begins.
Begin(q, rm) == /\ target' = [target EXCEPT ![q] = rm]
                /\ earlier' = [earlier EXCEPT ![q] = Acknowledged(rm)]
-----------------------------------------------------------------------------
(* rooms_http.go: rooms and their members.                                 *)

\* CreateRoomHandler: one transaction inserts the room and its host.  No
\* handler adds, removes or replaces a participant afterwards.
CreateRoom(rm, u) ==
    /\ host[rm] = None
    /\ host' = [host EXCEPT ![rm] = u]
    /\ UNCHANGED <<sequence, latest, socketVars, fate, pollVars, target,
                   number, history, adrift, strayed>>
-----------------------------------------------------------------------------
(* driving_wss.go: HandleLiveRoom.                                         *)

\* validateRoomMembership and the upgrade; membership is not looked at again.
Open(s, rm, u) ==
    /\ phase[s] = "new"
    /\ host[rm] = u
    /\ phase' = [phase EXCEPT ![s] = "open"]
    /\ roomOf' = [roomOf EXCEPT ![s] = rm]
    /\ UNCHANGED <<host, sequence, latest, attempt, current, fate, pollVars,
                   target, number, history, adrift, strayed>>

\* A valid event for this room: AppendRoomEvent sends the script to Redis.  Any
\* other message is answered with an error at once and changes nothing.
Read(s, m) ==
    /\ phase[s] = "open"
    /\ fate[m] = "unsent"
    /\ fate' = [fate EXCEPT ![m] = "read"]
    /\ phase' = [phase EXCEPT ![s] = "sending"]
    /\ current' = [current EXCEPT ![s] = m]
    /\ Begin(m, roomOf[s])
    /\ UNCHANGED <<host, sequence, latest, attempt, roomOf, pollVars, number,
                   past, adrift, strayed>>

\* Mutant: SET with the option NX.
ScriptKeepingFirst(rm, m) ==
    /\ sequence' = [sequence EXCEPT ![rm] = @ + 1]
    /\ latest' = IF latest[rm] = None THEN [latest EXCEPT ![rm] = m] ELSE latest

\* AppendRoomEvent's script: INCR, SET and the expiry of both keys, in one step.
Script(rm, m) == /\ sequence' = [sequence EXCEPT ![rm] = @ + 1]
                 /\ latest' = [latest EXCEPT ![rm] = m]

\* Redis runs the script the socket waits for.
Execute(s) ==
    /\ phase[s] = "sending"
    /\ Script(roomOf[s], current[s])
    /\ number' = [number EXCEPT ![current[s]] = sequence[roomOf[s]] + 1]
    /\ phase' = [phase EXCEPT ![s] = "applied"]
    /\ strayed' = strayed \ {current[s]}
    /\ UNCHANGED <<host, attempt, current, roomOf, fate, pollVars, target,
                   history, adrift>>

\* Redis runs a script nobody waits for any more.
ExecuteLate(m) ==
    /\ adrift[m] > 0
    /\ Script(target[m], m)
    /\ adrift' = [adrift EXCEPT ![m] = @ - 1]
    /\ strayed' = strayed \cup {m}
    /\ UNCHANGED <<host, socketVars, fate, pollVars, target, number, history>>

\* The socket stops waiting for its script, which may be on its way.
StopWaiting(s) ==
    \/ UNCHANGED adrift
    \/ phase[s] = "sending" /\ adrift' = [adrift EXCEPT ![current[s]] = @ + 1]

\* The connection to Redis broke before or after the script ran.
Repeat(s) ==
    /\ phase[s] \in {"sending", "applied"}
    /\ attempt[s] < Repeats
    /\ attempt' = [attempt EXCEPT ![s] = @ + 1]
    /\ phase' = [phase EXCEPT ![s] = "sending"]
    /\ StopWaiting(s)
    /\ UNCHANGED <<host, sequence, latest, current, roomOf, fate, pollVars,
                   target, number, history, strayed>>

\* The loop goes on with the next message.
Answer(s, answer) == /\ fate' = [fate EXCEPT ![current[s]] = answer]
                     /\ phase' = [phase EXCEPT ![s] = "open"]
                     /\ current' = [current EXCEPT ![s] = None]
                     /\ attempt' = [attempt EXCEPT ![s] = 0]

\* Mutant: the sender is answered while the script is on its way.
AcknowledgeEarly(s) ==
    /\ phase[s] \in {"sending", "applied"}
    /\ Answer(s, "acked")
    /\ UNCHANGED <<host, sequence, latest, roomOf, pollVars, target, number,
                   history, adrift, strayed>>

\* Mutant: the number is read back from Redis after the script.
AcknowledgeReadBack(s) ==
    /\ phase[s] = "applied"
    /\ Answer(s, "acked")
    /\ number' = [number EXCEPT ![current[s]] = sequence[roomOf[s]]]
    /\ UNCHANGED <<host, sequence, latest, roomOf, pollVars, target, history,
                   adrift, strayed>>

\* The reply of Redis arrived: the sender gets the event with its number.
Acknowledge(s) ==
    /\ phase[s] = "applied"
    /\ Answer(s, "acked")
    /\ UNCHANGED <<host, sequence, latest, roomOf, pollVars, target, number,
                   history, adrift, strayed>>

\* Mutant: the loop goes on without an answer.
GiveUpSilently(s) ==
    /\ phase[s] = "sending"
    /\ phase' = [phase EXCEPT ![s] = "open"]
    /\ current' = [current EXCEPT ![s] = None]
    /\ attempt' = [attempt EXCEPT ![s] = 0]
    /\ StopWaiting(s)
    /\ UNCHANGED <<host, sequence, latest, roomOf, fate, pollVars, target,
                   number, history, strayed>>

\* Redis answered with an error, or no attempt is left: the sender is told
\* that the event was not stored, which it may have been.
GiveUp(s) ==
    /\ \/ phase[s] = "sending"
       \/ phase[s] = "applied" /\ attempt[s] = Repeats
    /\ StopWaiting(s)
    /\ Answer(s, "failed")
    /\ UNCHANGED <<host, sequence, latest, roomOf, pollVars, target, number,
                   history, strayed>>

\* The client goes away between two messages, or the process ends.
Close(s) ==
    /\ phase[s] \notin {"new", "closed"}
    /\ phase' = [phase EXCEPT ![s] = "closed"]
    /\ current' = [current EXCEPT ![s] = None]
    /\ attempt' = [attempt EXCEPT ![s] = 0]
    /\ fate' = IF current[s] = None THEN fate
                                    ELSE [fate EXCEPT ![current[s]] = "lost"]
    /\ StopWaiting(s)
    /\ UNCHANGED <<host, sequence, latest, roomOf, pollVars, target, number,
                   history, strayed>>
-----------------------------------------------------------------------------
(* RoomStateHandler: membership, then GetLatestRoomEvent.                  *)

PollCheck(p, rm, u) ==
    /\ poll[p] = "new"
    /\ Begin(p, rm)
    /\ poll' = [poll EXCEPT ![p] = IF host[rm] = u THEN "checked" ELSE "refused"]
    /\ UNCHANGED <<host, sequence, latest, socketVars, fate, saw, number, past,
                   adrift, strayed>>

PollRead(p) ==
    /\ poll[p] = "checked"
    /\ saw' = [saw EXCEPT ![p] = latest[target[p]]]
    /\ poll' = [poll EXCEPT ![p] = "done"]
    /\ UNCHANGED <<host, sequence, latest, socketVars, fate, target, number,
                   history, adrift, strayed>>
-----------------------------------------------------------------------------
(* Redis: 24 hours after the last event both keys of a room expire.  No    *)
(* request about the room takes that long.                                 *)
Quiet(rm) == /\ \A s \in Sockets : roomOf[s] = rm => phase[s] \notin {"sending", "applied"}
             /\ \A m \in Messages : target[m] = rm => adrift[m] = 0
             /\ \A p \in Polls : target[p] = rm => poll[p] # "checked"

\* Mutant: the script forgets the expiry of the latest event.
ExpireSequence(rm) ==
    /\ sequence[rm] # 0 /\ Quiet(rm)
    /\ sequence' = [sequence EXCEPT ![rm] = 0]
    /\ past' = past \cup {m \in Messages : target[m] = rm}
    /\ UNCHANGED <<host, latest, socketVars, fate, pollVars, target, number,
                   earlier, adrift, strayed>>

Expire(rm) ==
    /\ sequence[rm] # 0 /\ Quiet(rm)
    /\ sequence' = [sequence EXCEPT ![rm] = 0]
    /\ latest' = [latest EXCEPT ![rm] = None]
    /\ past' = past \cup {m \in Messages : target[m] = rm}
    /\ UNCHANGED <<host, socketVars, fate, pollVars, target, number, earlier,
                   adrift, strayed>>
-----------------------------------------------------------------------------
Append(s) == Execute(s) \/ Repeat(s) \/ Acknowledge(s) \/ GiveUp(s)

Next == \/ \E rm \in Rooms, u \in Users :
              \/ CreateRoom(rm, u)
              \/ \E s \in Sockets : Open(s, rm, u)
              \/ \E p \in Polls : PollCheck(p, rm, u)
        \/ \E s \in Sockets :
              \/ \E m \in Messages : Read(s, m)
              \/ Append(s) \/ Close(s)
        \/ \E m \in Messages : ExecuteLate(m)
        \/ \E p \in Polls : PollRead(p)
        \/ \E rm \in Rooms : Expire(rm)

Spec == Init /\ [][Next]_vars

\* A call to Redis is answered, repeated or given up.
FairSpec == Spec /\ \A s \in Sockets : WF_vars(Append(s))
-----------------------------------------------------------------------------
\* The two keys of a room agree: the stored event is the one that was given the
\* stored number (an event whose sender was answered by an earlier run of its
\* script was given a smaller one), and both exist or neither does.
KeysAgree ==
    \A rm \in Rooms :
        IF latest[rm] = None THEN sequence[rm] = 0
        ELSE /\ target[latest[rm]] = rm
             /\ sequence[rm] > 0
             /\ IF latest[rm] \in strayed THEN sequence[rm] > number[latest[rm]]
                                          ELSE sequence[rm] = number[latest[rm]]

\* Whichever sockets they came from, and however often Redis ran their scripts:
\* two events of a room are acknowledged with different numbers, and an event
\* read after another was acknowledged gets the greater one (until the keys
\* expire and numbering starts again).
AcknowledgedInOrder ==
    \A rm \in Rooms : \A m \in Acknowledged(rm) :
        /\ \A n \in Acknowledged(rm) : number[m] = number[n] => m = n
        /\ \A n \in earlier[m] \ past : number[n] < number[m]

\* A poll that begins after an event was acknowledged returns that event or one
\* that is not older: never nothing, and never an event acknowledged before that
\* one was read, unless Redis ran a script of the older event that nobody waited
\* for any more.
PollsAreUpToDate ==
    \A p \in Polls : poll[p] = "done" =>
        \A m \in earlier[p] : /\ saw[p] # None
                              /\ saw[p] \notin earlier[m] \ strayed

\* The sender of every event hears of it, unless its connection ends.
EveryEventIsAnswered ==
    \A m \in Messages : (fate[m] = "read") ~> (fate[m] # "read")
=============================================================================
