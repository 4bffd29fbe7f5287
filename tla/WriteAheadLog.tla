---------------------------- MODULE WriteAheadLog ----------------------------
(***************************************************************************)
(* The write-ahead log of services/platform-engine/main.go: handlers that  *)
(* append to state_wal.log and then change memory, the recovery of memory  *)
(* from the log, and the ways the process, the machine or the disk fail.   *)
(* generate, zoom and search differ only in the map they store into and    *)
(* are one kind of request here; a request stands for its nanosecond id.   *)
(***************************************************************************)
EXTENDS Integers, Sequences, FiniteSets

CONSTANTS Requests,    \* calls of handleGenerate, handleZoom and handleSearch
          NoOne,       \* walMutex is free
          Faults       \* what goes wrong in this instance

ASSUME WalAssumption ==
    /\ IsFiniteSet(Requests) /\ NoOne \notin Requests
    /\ Faults \subseteq {"kill", "power", "signal", "write", "sync"}

VARIABLES running,     \* the process is there and serves requests
          open,        \* walFile is open
          walMutex,    \* the request that holds it, or NoOne
          file,        \* state_wal.log: one element for each write
          synced,      \* how many of them are on the disk for certain
          pc,          \* where each request is
          stored,      \* studyPlans, zoomSessions and searchLogs together
          transactionCount,
          durable,     \* history: requests whose Write and Sync both succeeded
          harmed       \* history: a write failed, power was lost or a signal came

vars == <<running, open, walMutex, file, synced, pc, stored, transactionCount, durable,
          harmed>>

\* How much of an entry a write left in the file: a piece of the JSON text, all
\* of it without the newline, or the whole line.
Cut == 1
Unended == 2
Whole == 3
Entry == [req : Requests, extent : Cut..Whole]

States == {"new", "ready", "written", "logged", "stored", "counted", "done", "lost"}

TypeOK == /\ running \in BOOLEAN /\ open \in BOOLEAN
          /\ walMutex \in Requests \cup {NoOne}
          /\ file \in Seq(Entry) /\ synced \in 0..Len(file)
          /\ pc \in [Requests -> States]
          /\ stored \subseteq Requests /\ durable \subseteq Requests /\ harmed \in BOOLEAN
          /\ transactionCount \in 0..Cardinality(Requests)

Init == /\ running = TRUE /\ open = TRUE
        /\ walMutex = NoOne
        /\ file = <<>> /\ synced = 0
        /\ pc = [r \in Requests |-> "new"]
        /\ stored = {} /\ transactionCount = 0
        /\ durable = {} /\ harmed = FALSE

Becomes(r, state) == pc' = [pc EXCEPT ![r] = state]
-----------------------------------------------------------------------------
(* initWAL: what the scanner makes of the file.                            *)

\* An entry is a line of its own unless the write before it left no newline or
\* the write after it continues its line; a line that does not parse is skipped.
Parseable(f, i) == /\ f[i].extent # Cut
                   /\ i > 1 => f[i - 1].extent = Whole
                   /\ i < Len(f) => f[i].extent = Whole

Lines(f) == {i \in DOMAIN f : Parseable(f, i)}

Recoverable(f) == {f[i].req : i \in Lines(f)}

\* Mutant: every line is counted, parsed or not.
RestartCountsLines == /\ ~running
                      /\ running' = TRUE /\ open' = TRUE
                      /\ stored' = Recoverable(file)
                      /\ transactionCount' = Len(file)
                      /\ UNCHANGED <<walMutex, file, synced, pc, durable, harmed>>

\* Mutant: the log is opened with O_TRUNC.
RestartTruncating == /\ ~running
                     /\ running' = TRUE /\ open' = TRUE
                     /\ stored' = Recoverable(file)
                     /\ transactionCount' = Cardinality(Lines(file))
                     /\ file' = <<>> /\ synced' = 0
                     /\ UNCHANGED <<walMutex, pc, durable, harmed>>

\* The process starts again, replays the log and opens it for appending.
Restart == /\ ~running
           /\ running' = TRUE /\ open' = TRUE
           /\ stored' = Recoverable(file)
           /\ transactionCount' = Cardinality(Lines(file))
           /\ UNCHANGED <<walMutex, file, synced, pc, durable, harmed>>
-----------------------------------------------------------------------------
(* handleGenerate, handleZoom, handleSearch.                               *)

Arrive(r) == /\ running
             /\ pc[r] = "new"
             /\ Becomes(r, "ready")
             /\ UNCHANGED <<running, open, walMutex, file, synced, stored,
                            transactionCount, durable, harmed>>

\* appendWAL: lock, then the write.
Write(r) == /\ running /\ open
            /\ pc[r] = "ready" /\ walMutex = NoOne
            /\ walMutex' = r
            /\ file' = Append(file, [req |-> r, extent |-> Whole])
            /\ Becomes(r, "written")
            /\ UNCHANGED <<running, open, synced, stored, transactionCount, durable, harmed>>

\* Mutant: the early return of a failed write keeps the lock.
WriteFailLocked(r) == /\ running
                      /\ pc[r] = "ready" /\ walMutex = NoOne
                      /\ ~open \/ "write" \in Faults
                      /\ walMutex' = r /\ harmed' = TRUE
                      /\ Becomes(r, "logged")
                      /\ UNCHANGED <<running, open, file, synced, stored,
                                     transactionCount, durable>>

\* The file is closed, or the disk took nothing or a part of the entry: the
\* error is logged and the handler goes on.
WriteFail(r) == /\ running
                /\ pc[r] = "ready" /\ walMutex = NoOne
                /\ \/ ~open /\ UNCHANGED file
                   \/ /\ open /\ "write" \in Faults
                      /\ \/ UNCHANGED file
                         \/ \E x \in {Cut, Unended} :
                              file' = Append(file, [req |-> r, extent |-> x])
                /\ harmed' = TRUE
                /\ Becomes(r, "logged")
                /\ UNCHANGED <<running, open, walMutex, synced, stored,
                               transactionCount, durable>>

\* walFile.Sync, whose error nobody looks at, and the unlock.
Sync(r) == /\ running
           /\ pc[r] = "written"
           /\ \/ open /\ synced' = Len(file) /\ durable' = durable \cup {r}
              \/ (~open \/ "sync" \in Faults) /\ UNCHANGED <<synced, durable>>
           /\ walMutex' = NoOne
           /\ Becomes(r, "logged")
           /\ UNCHANGED <<running, open, file, stored, transactionCount, harmed>>

\* Mutant: memory and the reply do not wait for the log.
StoreFirst(r) == /\ running
                 /\ pc[r] \in {"ready", "logged"}
                 /\ stored' = stored \cup {r}
                 /\ Becomes(r, "stored")
                 /\ UNCHANGED <<running, open, walMutex, file, synced,
                                transactionCount, durable, harmed>>

Store(r) == /\ running
            /\ pc[r] = "logged"
            /\ stored' = stored \cup {r}
            /\ Becomes(r, "stored")
            /\ UNCHANGED <<running, open, walMutex, file, synced,
                           transactionCount, durable, harmed>>

Count(r) == /\ running
            /\ pc[r] = "stored"
            /\ transactionCount' = transactionCount + 1
            /\ Becomes(r, "counted")
            /\ UNCHANGED <<running, open, walMutex, file, synced, stored, durable, harmed>>

Reply(r) == /\ running
            /\ pc[r] = "counted"
            /\ Becomes(r, "done")
            /\ UNCHANGED <<running, open, walMutex, file, synced, stored,
                           transactionCount, durable, harmed>>

Handle(r) == Write(r) \/ WriteFail(r) \/ Sync(r) \/ Store(r) \/ Count(r) \/ Reply(r)
-----------------------------------------------------------------------------
(* The end of the process.                                                 *)

\* Memory and the requests in progress are gone.
Die == /\ running
       /\ running' = FALSE /\ open' = FALSE
       /\ walMutex' = NoOne
       /\ pc' = [r \in Requests |-> IF pc[r] \in {"new", "done"} THEN pc[r] ELSE "lost"]
       /\ stored' = {} /\ transactionCount' = 0
       /\ UNCHANGED durable

Kill == /\ "kill" \in Faults
        /\ Die
        /\ UNCHANGED <<file, synced, harmed>>

\* The machine stops too: what was synced is there, of the rest a beginning.
PowerLoss == /\ "power" \in Faults
             /\ Die
             /\ \E n \in synced..Len(file) :
                   \/ file' = SubSeq(file, 1, n)
                   \/ /\ n < Len(file)
                      /\ \E x \in Cut..file[n + 1].extent :
                            file' = Append(SubSeq(file, 1, n),
                                           [file[n + 1] EXCEPT !.extent = x])
             /\ synced' = Len(file')
             /\ harmed' = TRUE

\* main closes the log on a signal while the server goes on ...
CloseOnSignal == /\ "signal" \in Faults
                 /\ running /\ open
                 /\ open' = FALSE /\ harmed' = TRUE
                 /\ UNCHANGED <<running, walMutex, file, synced, pc, stored,
                                transactionCount, durable>>

\* ... and returns.
Exit == /\ running /\ ~open
        /\ Die
        /\ UNCHANGED <<file, synced, harmed>>

Next == \/ \E r \in Requests : Arrive(r) \/ Handle(r)
        \/ Kill \/ PowerLoss \/ CloseOnSignal \/ Exit \/ Restart

Spec == Init /\ [][Next]_vars

\* A handler that can go on does; walMutex is a Go mutex and serves in turn.
FairSpec == Spec /\ \A r \in Requests : WF_vars(Handle(r))
-----------------------------------------------------------------------------
Uncounted == {r \in Requests : pc[r] = "stored"}

\* The hash of /api/state: what is counted is what is stored, except by the
\* handlers between the two, and again after every recovery.
StateHashAddsUp ==
    transactionCount + Cardinality(Uncounted) = Cardinality(stored)

\* An entry whose Write and Sync returned no error is recovered by every later
\* restart, whatever is appended after it.
DurableSurvives == durable \subseteq Recoverable(file)

\* What was written whole, and the write before it left no newline.
Line(r) == [req |-> r, extent |-> Whole]
JoinsATornLine(r) == \E i \in 2..Len(file) : /\ file[i] = Line(r)
                                             /\ file[i - 1].extent # Whole

\* Only that can take such an entry away: not a kill, a loss of power or a
\* failed write after it, nor any number of recoveries.
OnlyTornLinesLose == \A r \in durable : r \in Recoverable(file) \/ JoinsATornLine(r)

\* A request that has begun ends: no failure leaves walMutex locked.
EveryHandlerEnds == \A r \in Requests : (pc[r] = "ready") ~> (pc[r] \in {"done", "lost"})

\* What kills leave is a ledger: for as long as writes succeed, the power stays
\* and no signal comes, clients are told only of transactions that every later
\* restart brings back, and recovery never loses one.
Ledger == INSTANCE TransactionLedger
              WITH ledger <- Recoverable(file),
                   answered <- {r \in Requests : pc[r] = "done"},
                   sound <- ~harmed
LedgerSpec == Ledger!Spec
=============================================================================
