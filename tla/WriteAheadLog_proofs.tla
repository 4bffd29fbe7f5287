------------------------ MODULE WriteAheadLog_proofs ------------------------
(***************************************************************************)
(* WriteAheadLog for any number of requests: with every fault the state    *)
(* hash adds up, the log is a ledger until a write fails, the power goes   *)
(* or a signal comes, and only a torn line takes a durable entry away.     *)
(***************************************************************************)
EXTENDS WriteAheadLog, FiniteSetTheorems, SequenceTheorems, TLAPS

Typed == /\ running \in BOOLEAN /\ open \in BOOLEAN
         /\ walMutex \in Requests \cup {NoOne}
         /\ file \in Seq(Entry) /\ synced \in 0..Len(file)
         /\ pc \in [Requests -> States]
         /\ stored \subseteq Requests /\ durable \subseteq Requests
         /\ transactionCount \in Nat /\ harmed \in BOOLEAN

\* A request writes once, and only after it has arrived.
WrittenOnce(f) == \A i, j \in DOMAIN f : f[i].req = f[j].req => i = j
FileInv == /\ WrittenOnce(file)
           /\ \A i \in DOMAIN file : pc[file[i].req] \notin {"new", "ready"}

\* A process that is gone has no memory and no request in progress.
MemoryInv == /\ \A r \in stored : pc[r] \in {"stored", "counted", "done", "lost"}
             /\ ~running => /\ stored = {} /\ transactionCount = 0
                            /\ \A r \in Requests : pc[r] \in {"new", "done", "lost"}

IInv == Typed /\ FileInv /\ MemoryInv /\ StateHashAddsUp

-----------------------------------------------------------------------------
(* The log as a sequence.                                                  *)

LEMMA EntryType == /\ Cut = 1 /\ Unended = 2 /\ Whole = 3
                   /\ \A r \in Requests, x \in {Cut, Unended, Whole} :
                         [req |-> r, extent |-> x] \in Entry
                   /\ \A e \in Entry : e.req \in Requests /\ e.extent \in 1..3
  BY DEF Cut, Unended, Whole, Entry

\* Appending the entry of a request that is not in the log yet.
LEMMA AppendOnce ==
    ASSUME NEW f \in Seq(Entry), WrittenOnce(f), NEW e \in Entry,
           \A i \in DOMAIN f : f[i].req # e.req
    PROVE  /\ Append(f, e) \in Seq(Entry) /\ Len(Append(f, e)) = Len(f) + 1
           /\ WrittenOnce(Append(f, e))
           /\ \A i \in DOMAIN Append(f, e) :
                 \/ i \in DOMAIN f /\ Append(f, e)[i] = f[i]
                 \/ i = Len(f) + 1 /\ Append(f, e)[i] = e
           /\ \A i \in DOMAIN f : i \in DOMAIN Append(f, e) /\ Append(f, e)[i] = f[i]
           /\ Len(f) + 1 \in DOMAIN Append(f, e) /\ Append(f, e)[Len(f) + 1] = e
  <1>1. /\ Append(f, e) \in Seq(Entry) /\ Len(Append(f, e)) = Len(f) + 1
        /\ DOMAIN f = 1..Len(f) /\ DOMAIN Append(f, e) = 1..(Len(f) + 1)
        /\ \A i \in 1..Len(f) : Append(f, e)[i] = f[i]
        /\ Append(f, e)[Len(f) + 1] = e
        /\ Len(f) \in Nat
    OBVIOUS
  <1>2. WrittenOnce(Append(f, e))
    BY <1>1 DEF WrittenOnce
  <1> QED
    BY <1>1, <1>2

\* What a loss of power leaves of a log.
LEMMA PrefixOnce ==
    ASSUME NEW f \in Seq(Entry), WrittenOnce(f), NEW n \in 0..Len(f)
    PROVE  /\ SubSeq(f, 1, n) \in Seq(Entry) /\ Len(SubSeq(f, 1, n)) = n
           /\ WrittenOnce(SubSeq(f, 1, n))
           /\ \A i \in DOMAIN SubSeq(f, 1, n) :
                 i \in 1..n /\ i \in DOMAIN f /\ SubSeq(f, 1, n)[i] = f[i]
  <1>1. n \in Nat /\ Len(f) \in Nat /\ n <= Len(f) /\ DOMAIN f = 1..Len(f)
    OBVIOUS
  <1>2. \A i \in 1..n : f[i] \in Entry
    BY <1>1
  <1>3. /\ SubSeq(f, 1, n) \in Seq(Entry) /\ Len(SubSeq(f, 1, n)) = n
        /\ \A i \in 1..n : SubSeq(f, 1, n)[i] = f[i]
    BY <1>1, <1>2, SubSeqProperties
  <1>4. DOMAIN SubSeq(f, 1, n) = 1..n
    BY <1>1, <1>3
  <1>5. WrittenOnce(SubSeq(f, 1, n))
    BY <1>1, <1>3, <1>4 DEF WrittenOnce
  <1> QED
    BY <1>1, <1>3, <1>4, <1>5

\* Recovery counts each transaction once.
LEMMA RecoveryCount ==
    ASSUME NEW f \in Seq(Entry), WrittenOnce(f)
    PROVE  /\ Recoverable(f) \subseteq Requests
           /\ IsFiniteSet(Recoverable(f))
           /\ Cardinality(Recoverable(f)) = Cardinality(Lines(f))
           /\ Cardinality(Lines(f)) \in Nat
           /\ \A r \in Recoverable(f) : \E i \in DOMAIN f : f[i].req = r
  <1>1. /\ Len(f) \in Nat /\ DOMAIN f = 1..Len(f) /\ Lines(f) \in SUBSET (1..Len(f))
        /\ \A i \in DOMAIN f : f[i] \in Entry
    BY DEF Lines
  <1>2. IsFiniteSet(Lines(f)) /\ Cardinality(Lines(f)) \in Nat
    <2>1. IsFiniteSet(1..Len(f))
      BY <1>1, FS_Interval
    <2> QED
      BY <1>1, <2>1, FS_Subset, FS_CardinalityType
  <1> DEFINE g == [i \in Lines(f) |-> f[i].req]
  <1>3. g \in Surjection(Lines(f), Recoverable(f))
    BY DEF Surjection, Recoverable
  <1>4. g \in Injection(Lines(f), Recoverable(f))
    BY <1>1, <1>3 DEF Injection, IsInjective, WrittenOnce, Surjection
  <1>5. /\ IsFiniteSet(Recoverable(f))
        /\ Cardinality(Recoverable(f)) = Cardinality(Lines(f))
    BY <1>2, <1>3, <1>4, FS_Surjection
  <1>6. /\ Recoverable(f) \subseteq Requests
        /\ \A r \in Recoverable(f) : \E i \in DOMAIN f : f[i].req = r
    BY <1>1, EntryType DEF Recoverable
  <1> QED
    BY <1>2, <1>5, <1>6

-----------------------------------------------------------------------------
USE WalAssumption DEF WalAssumption

LEMMA InitInv == Init => IInv
  <1> SUFFICES ASSUME Init PROVE IInv
    OBVIOUS
  <1>1. Typed
    <2>1. running \in BOOLEAN /\ open \in BOOLEAN /\ harmed \in BOOLEAN
      BY DEF Init
    <2>2. /\ walMutex \in Requests \cup {NoOne} /\ file \in Seq(Entry)
          /\ synced \in 0..Len(file) /\ transactionCount \in Nat
          /\ stored \subseteq Requests /\ durable \subseteq Requests
      BY DEF Init
    <2>3. pc \in [Requests -> States]
      BY DEF Init, States
    <2> QED
      BY <2>1, <2>2, <2>3 DEF Typed
  <1>2. FileInv
    BY DEF Init, FileInv, WrittenOnce
  <1>3. MemoryInv
    BY DEF Init, MemoryInv
  <1>4. Uncounted = {} /\ stored = {}
    BY DEF Init, Uncounted
  <1>5. StateHashAddsUp
    BY <1>4, FS_EmptySet DEF Init, StateHashAddsUp
  <1> QED
    BY <1>1, <1>2, <1>3, <1>5 DEF IInv

\* A step that moves one request between states other than "stored" and leaves
\* memory alone leaves the count right.
LEMMA QuietStep ==
    ASSUME IInv, NEW r \in Requests, NEW s \in States \ {"stored"}, Becomes(r, s),
           pc[r] # "stored", UNCHANGED <<stored, transactionCount>>
    PROVE  StateHashAddsUp'
  <1>1. Uncounted' = Uncounted
    BY DEF IInv, Typed, Becomes, Uncounted
  <1> QED
    BY <1>1 DEF IInv, StateHashAddsUp

LEMMA DieInv ==
    ASSUME IInv, Die, harmed' \in BOOLEAN,
           file' \in Seq(Entry), synced' \in 0..Len(file'),
           WrittenOnce(file'),
           \A i \in DOMAIN file' : \E j \in DOMAIN file : file'[i].req = file[j].req
    PROVE  IInv'
  <1>1. Typed'
    BY DEF Die, IInv, Typed, States
  <1>2. \A r \in Requests : /\ pc'[r] \in {"new", "done", "lost"}
                            /\ pc'[r] \in {"new", "ready"} => pc[r] \in {"new", "ready"}
    BY DEF Die, IInv, Typed
  <1>3. \A i \in DOMAIN file : file[i].req \in Requests
    BY EntryType DEF IInv, Typed
  <1>4. FileInv'
    BY <1>2, <1>3 DEF IInv, FileInv
  <1>5. MemoryInv'
    BY <1>2 DEF Die, MemoryInv
  <1>6. Uncounted' = {} /\ stored' = {}
    BY <1>2 DEF Die, Uncounted
  <1>7. StateHashAddsUp'
    BY <1>6, FS_EmptySet DEF Die, StateHashAddsUp
  <1> QED
    BY <1>1, <1>4, <1>5, <1>7 DEF IInv

LEMMA RestartInv == ASSUME IInv, Restart PROVE IInv'
  <1>1. /\ file \in Seq(Entry) /\ WrittenOnce(file)
    BY DEF IInv, Typed, FileInv
  <1>2. Typed'
    BY <1>1, RecoveryCount DEF Restart, IInv, Typed
  <1>3. FileInv'
    BY DEF Restart, IInv, FileInv
  <1>4. \A r \in Recoverable(file) : r \in Requests /\ pc[r] \notin {"new", "ready"}
    BY <1>1, RecoveryCount DEF IInv, FileInv
  <1>5. \A r \in Requests : pc[r] \in {"new", "done", "lost"}
    BY DEF Restart, IInv, MemoryInv
  <1>6. MemoryInv'
    BY <1>4, <1>5 DEF Restart, MemoryInv
  <1>7. Uncounted' = {}
    BY <1>5 DEF Restart, Uncounted
  <1>8. StateHashAddsUp'
    BY <1>1, <1>7, RecoveryCount, FS_EmptySet DEF Restart, StateHashAddsUp
  <1> QED
    BY <1>2, <1>3, <1>6, <1>8 DEF IInv

LEMMA ArriveInv == ASSUME IInv, NEW r \in Requests, Arrive(r) PROVE IInv'
  <1>1. Typed'
    BY DEF Arrive, Becomes, IInv, Typed, States
  <1>2. FileInv'
    <2>1. \A i \in DOMAIN file : file[i].req # r
      BY DEF IInv, FileInv, Arrive
    <2> QED
      BY <2>1 DEF IInv, Typed, FileInv, Arrive, Becomes
  <1>3. MemoryInv'
    BY DEF Arrive, Becomes, IInv, Typed, MemoryInv
  <1>4. StateHashAddsUp'
    BY QuietStep DEF Arrive, States
  <1> QED
    BY <1>1, <1>2, <1>3, <1>4 DEF IInv

LEMMA WriteInv == ASSUME IInv, NEW r \in Requests, Write(r) PROVE IInv'
  <1> DEFINE e == [req |-> r, extent |-> Whole]
  <1>1. e \in Entry /\ e.req = r /\ file' = Append(file, e)
    BY EntryType DEF Write
  <1>2. file \in Seq(Entry) /\ WrittenOnce(file) /\ \A i \in DOMAIN file : file[i].req # r
    BY DEF IInv, Typed, FileInv, Write
  <1>3. /\ file' \in Seq(Entry) /\ Len(file') = Len(file) + 1 /\ WrittenOnce(file')
        /\ \A i \in DOMAIN file' : \/ i \in DOMAIN file /\ file'[i] = file[i]
                                   \/ file'[i] = e
    BY <1>1, <1>2, AppendOnce
  <1>4. Typed'
    BY <1>3 DEF Write, Becomes, IInv, Typed, States
  <1>5. pc' = [pc EXCEPT ![r] = "written"]
    BY DEF Write, Becomes
  <1>6. FileInv'
    BY <1>1, <1>3, <1>5 DEF IInv, Typed, FileInv
  <1>7. MemoryInv'
    BY DEF Write, Becomes, IInv, Typed, MemoryInv
  <1>8. StateHashAddsUp'
    BY QuietStep DEF Write, States
  <1> QED
    BY <1>4, <1>6, <1>7, <1>8 DEF IInv

LEMMA WriteFailInv == ASSUME IInv, NEW r \in Requests, WriteFail(r) PROVE IInv'
  <1>1. file \in Seq(Entry) /\ WrittenOnce(file) /\ \A i \in DOMAIN file : file[i].req # r
    BY DEF IInv, Typed, FileInv, WriteFail
  <1>2. pc' = [pc EXCEPT ![r] = "logged"]
    BY DEF WriteFail, Becomes
  <1>3. /\ file' \in Seq(Entry) /\ Len(file') >= Len(file) /\ WrittenOnce(file')
        /\ \A i \in DOMAIN file' : \/ i \in DOMAIN file /\ file'[i] = file[i]
                                   \/ file'[i].req = r
    <2>1. CASE file' = file
      BY <1>1, <2>1
    <2>2. ASSUME NEW x \in {Cut, Unended},
                 file' = Append(file, [req |-> r, extent |-> x])
          PROVE  /\ file' \in Seq(Entry) /\ Len(file') >= Len(file) /\ WrittenOnce(file')
                 /\ \A i \in DOMAIN file' : \/ i \in DOMAIN file /\ file'[i] = file[i]
                                            \/ file'[i].req = r
      <3> DEFINE e == [req |-> r, extent |-> x]
      <3>1. e \in Entry /\ e.req = r
        BY EntryType
      <3> QED
        BY <1>1, <2>2, <3>1, AppendOnce
    <2> QED
      BY <2>1, <2>2 DEF WriteFail
  <1>4. Typed'
    BY <1>3 DEF WriteFail, Becomes, IInv, Typed, States
  <1>5. FileInv'
    BY <1>2, <1>3 DEF IInv, Typed, FileInv
  <1>6. MemoryInv'
    BY DEF WriteFail, Becomes, IInv, Typed, MemoryInv
  <1>7. StateHashAddsUp'
    BY QuietStep DEF WriteFail, States
  <1> QED
    BY <1>4, <1>5, <1>6, <1>7 DEF IInv

LEMMA SyncInv == ASSUME IInv, NEW r \in Requests, Sync(r) PROVE IInv'
  <1>1. Typed'
    BY DEF Sync, Becomes, IInv, Typed, States
  <1>2. FileInv'
    BY DEF Sync, Becomes, IInv, Typed, FileInv
  <1>3. MemoryInv'
    BY DEF Sync, Becomes, IInv, Typed, MemoryInv
  <1>4. StateHashAddsUp'
    BY QuietStep DEF Sync, States
  <1> QED
    BY <1>1, <1>2, <1>3, <1>4 DEF IInv

LEMMA StoreInv == ASSUME IInv, NEW r \in Requests, Store(r) PROVE IInv'
  <1>1. Typed'
    BY DEF Store, Becomes, IInv, Typed, States
  <1>2. FileInv'
    BY DEF Store, Becomes, IInv, Typed, FileInv
  <1>3. MemoryInv'
    BY DEF Store, Becomes, IInv, Typed, MemoryInv
  <1>4. /\ Uncounted' = Uncounted \cup {r} /\ r \notin Uncounted
        /\ stored' = stored \cup {r} /\ r \notin stored
    BY DEF Store, Becomes, Uncounted, IInv, Typed, MemoryInv
  <1>5. IsFiniteSet(Uncounted) /\ IsFiniteSet(stored)
    BY FS_Subset DEF Uncounted, IInv, Typed
  <1>6. /\ Cardinality(Uncounted') = Cardinality(Uncounted) + 1
        /\ Cardinality(stored') = Cardinality(stored) + 1
    BY <1>4, <1>5, FS_AddElement
  <1>7. StateHashAddsUp'
    BY <1>5, <1>6, FS_CardinalityType DEF Store, IInv, Typed, StateHashAddsUp
  <1> QED
    BY <1>1, <1>2, <1>3, <1>7 DEF IInv

LEMMA CountInv == ASSUME IInv, NEW r \in Requests, Count(r) PROVE IInv'
  <1>1. Typed'
    BY DEF Count, Becomes, IInv, Typed, States
  <1>2. FileInv'
    BY DEF Count, Becomes, IInv, Typed, FileInv
  <1>3. MemoryInv'
    BY DEF Count, Becomes, IInv, Typed, MemoryInv
  <1>4. Uncounted' = Uncounted \ {r} /\ r \in Uncounted
    BY DEF Count, Becomes, Uncounted, IInv, Typed
  <1>5. IsFiniteSet(Uncounted)
    BY FS_Subset DEF Uncounted
  <1>6. Cardinality(Uncounted') = Cardinality(Uncounted) - 1
    BY <1>4, <1>5, FS_RemoveElement
  <1>7. StateHashAddsUp'
    BY <1>5, <1>6, FS_CardinalityType DEF Count, IInv, Typed, StateHashAddsUp
  <1> QED
    BY <1>1, <1>2, <1>3, <1>7 DEF IInv

LEMMA ReplyInv == ASSUME IInv, NEW r \in Requests, Reply(r) PROVE IInv'
  <1>1. Typed'
    BY DEF Reply, Becomes, IInv, Typed, States
  <1>2. FileInv'
    BY DEF Reply, Becomes, IInv, Typed, FileInv
  <1>3. MemoryInv'
    BY DEF Reply, Becomes, IInv, Typed, MemoryInv
  <1>4. StateHashAddsUp'
    BY QuietStep DEF Reply, States
  <1> QED
    BY <1>1, <1>2, <1>3, <1>4 DEF IInv

LEMMA CloseInv == ASSUME IInv, CloseOnSignal PROVE IInv'
  BY DEF CloseOnSignal, IInv, Typed, FileInv, MemoryInv, StateHashAddsUp, Uncounted

LEMMA KillInv == ASSUME IInv, Kill \/ Exit PROVE IInv'
  BY DieInv DEF Kill, Exit, IInv, Typed, FileInv

LEMMA PowerLossInv == ASSUME IInv, PowerLoss PROVE IInv'
  <1>1. file \in Seq(Entry) /\ WrittenOnce(file) /\ synced \in 0..Len(file)
    BY DEF IInv, Typed, FileInv
  <1>2. PICK n \in synced..Len(file) :
              \/ file' = SubSeq(file, 1, n)
              \/ /\ n < Len(file)
                 /\ \E x \in Cut..file[n + 1].extent :
                       file' = Append(SubSeq(file, 1, n),
                                      [file[n + 1] EXCEPT !.extent = x])
    BY DEF PowerLoss
  <1> DEFINE p == SubSeq(file, 1, n)
  <1>3. n \in 0..Len(file)
    BY <1>1
  <1>4. /\ p \in Seq(Entry) /\ Len(p) = n /\ WrittenOnce(p)
        /\ \A i \in DOMAIN p : i \in 1..n /\ i \in DOMAIN file /\ p[i] = file[i]
    BY <1>1, <1>3, PrefixOnce
  <1> HIDE DEF p
  <1>5. /\ file' \in Seq(Entry) /\ WrittenOnce(file')
        /\ \A i \in DOMAIN file' : \E j \in DOMAIN file : file'[i].req = file[j].req
    <2>1. CASE file' = p
      BY <1>4, <2>1
    <2>2. ASSUME n < Len(file), NEW x \in Cut..file[n + 1].extent,
                 file' = Append(p, [file[n + 1] EXCEPT !.extent = x])
          PROVE  /\ file' \in Seq(Entry) /\ WrittenOnce(file')
                 /\ \A i \in DOMAIN file' : \E j \in DOMAIN file : file'[i].req = file[j].req
      <3> DEFINE e == [file[n + 1] EXCEPT !.extent = x]
      <3>1. n + 1 \in DOMAIN file /\ file[n + 1] \in Entry
        BY <1>1, <1>3, <2>2
      <3>2. e \in Entry /\ e.req = file[n + 1].req
        BY <3>1, EntryType DEF Entry
      <3>3. \A i \in DOMAIN p : p[i].req # e.req
        BY <1>1, <1>3, <1>4, <3>1, <3>2 DEF WrittenOnce
      <3>4. file' = Append(p, e)
        BY <2>2
      <3> HIDE DEF e
      <3>5. /\ file' \in Seq(Entry) /\ WrittenOnce(file')
            /\ \A i \in DOMAIN file' : \/ i \in DOMAIN p /\ file'[i] = p[i]
                                       \/ file'[i] = e
        BY <1>4, <3>2, <3>3, <3>4, AppendOnce
      <3> QED
        BY <1>4, <3>1, <3>2, <3>5
    <2> QED
      BY <1>2, <2>1, <2>2 DEF p
  <1>6. synced' \in 0..Len(file')
    BY <1>5 DEF PowerLoss
  <1>7. harmed' \in BOOLEAN
    BY DEF PowerLoss
  <1> QED
    BY <1>5, <1>6, <1>7, DieInv DEF PowerLoss

LEMMA StepInv == IInv /\ [Next]_vars => IInv'
  <1> SUFFICES ASSUME IInv, [Next]_vars PROVE IInv'
    OBVIOUS
  <1>1. ASSUME NEW r \in Requests, Arrive(r) \/ Handle(r) PROVE IInv'
    BY <1>1, ArriveInv, WriteInv, WriteFailInv, SyncInv, StoreInv, CountInv, ReplyInv
       DEF Handle
  <1>2. CASE Kill \/ PowerLoss \/ CloseOnSignal \/ Exit \/ Restart
    BY <1>2, KillInv, PowerLossInv, CloseInv, RestartInv
  <1>3. CASE UNCHANGED vars
    BY <1>3 DEF vars, IInv, Typed, FileInv, MemoryInv, StateHashAddsUp, Uncounted
  <1> QED
    BY <1>1, <1>2, <1>3 DEF Next

LEMMA Inductive == Spec => []IInv
  BY InitInv, StepInv, PTL DEF Spec

-----------------------------------------------------------------------------
\* Every variable keeps its type; the counter never exceeds the requests.
THEOREM TypeCorrectness == Spec => []TypeOK
  <1>1. IInv => TypeOK
    <2> SUFFICES ASSUME IInv PROVE TypeOK
      OBVIOUS
    <2>1. IsFiniteSet(stored) /\ Cardinality(stored) <= Cardinality(Requests)
      BY FS_Subset DEF IInv, Typed
    <2>2. IsFiniteSet(Uncounted)
      BY FS_Subset DEF Uncounted
    <2>3. transactionCount <= Cardinality(Requests)
      BY <2>1, <2>2, FS_CardinalityType DEF IInv, Typed, StateHashAddsUp
    <2> QED
      BY <2>3, FS_CardinalityType DEF IInv, Typed, TypeOK
  <1> QED
    BY <1>1, Inductive, PTL

\* The hash of /api/state counts the stored transactions, whatever fails
\* (main.go:61-63, 179-181, 228-239).
THEOREM StateHash == Spec => []StateHashAddsUp
  BY Inductive, PTL DEF IInv

-----------------------------------------------------------------------------
(* Without torn writes.                                                    *)

AllWhole(f) == \A i \in DOMAIN f : f[i].extent = Whole
NoTearing == Faults \subseteq {"kill", "signal", "sync"}

\* Every entry is a line, so what was durable stays; an entry between Write
\* and Sync is in the log.
WholeInv == /\ AllWhole(file)
            /\ DurableSurvives
            /\ \A r \in Requests : pc[r] = "written" => r \in Recoverable(file)

LEMMA WholeLog ==
    ASSUME NEW f \in Seq(Entry), AllWhole(f)
    PROVE  Recoverable(f) = {f[i].req : i \in DOMAIN f}
  <1>1. DOMAIN f = 1..Len(f) /\ Len(f) \in Nat
    OBVIOUS
  <1>2. Lines(f) = DOMAIN f
    BY <1>1, EntryType DEF Lines, Parseable, AllWhole
  <1> QED
    BY <1>2 DEF Recoverable

LEMMA AppendWhole ==
    ASSUME NEW f \in Seq(Entry), AllWhole(f), NEW r \in Requests
    PROVE  LET g == Append(f, [req |-> r, extent |-> Whole])
           IN  AllWhole(g) /\ Recoverable(g) = Recoverable(f) \cup {r}
  <1> DEFINE e == [req |-> r, extent |-> Whole]
             g == Append(f, e)
  <1>1. e \in Entry /\ e.req = r /\ e.extent = Whole
    BY EntryType
  <1> HIDE DEF e
  <1>2. /\ g \in Seq(Entry)
        /\ DOMAIN f = 1..Len(f) /\ DOMAIN g = 1..(Len(f) + 1) /\ Len(f) \in Nat
        /\ \A i \in 1..Len(f) : g[i] = f[i]
        /\ g[Len(f) + 1] = e
    BY <1>1
  <1> HIDE DEF g
  <1>3. AllWhole(g)
    BY <1>1, <1>2 DEF AllWhole
  <1>4. {g[i].req : i \in DOMAIN g} = {f[i].req : i \in DOMAIN f} \cup {r}
    BY <1>1, <1>2
  <1>5. Recoverable(g) = Recoverable(f) \cup {r}
    BY <1>2, <1>3, <1>4, WholeLog
  <1> QED
    BY <1>3, <1>5 DEF g, e

LEMMA WholeStep ==
    ASSUME NoTearing, IInv, WholeInv, [Next]_vars PROVE WholeInv'
  <1> USE DEF WholeInv, DurableSurvives
  <1>1. ASSUME NEW r \in Requests, Write(r) PROVE WholeInv'
    <2>1. AllWhole(file') /\ Recoverable(file') = Recoverable(file) \cup {r}
      BY <1>1, AppendWhole DEF Write, IInv, Typed
    <2> QED
      BY <1>1, <2>1 DEF Write, Becomes, IInv, Typed
  <1>2. ASSUME NEW r \in Requests, WriteFail(r) PROVE WholeInv'
    <2>1. UNCHANGED file
      BY <1>2 DEF WriteFail, NoTearing
    <2> QED
      BY <1>2, <2>1 DEF WriteFail, Becomes, IInv, Typed
  <1>3. ASSUME NEW r \in Requests, Sync(r) PROVE WholeInv'
    BY <1>3 DEF Sync, Becomes, IInv, Typed
  <1>4. ASSUME NEW r \in Requests, Arrive(r) \/ Store(r) \/ Count(r) \/ Reply(r)
        PROVE  WholeInv'
    BY <1>4 DEF Arrive, Store, Count, Reply, Becomes, IInv, Typed
  <1>5. CASE Kill \/ Exit
    BY <1>5 DEF Kill, Exit, Die, IInv, Typed
  <1>6. ~PowerLoss
    BY DEF PowerLoss, NoTearing
  <1>7. CASE CloseOnSignal \/ Restart \/ UNCHANGED vars
    BY <1>7 DEF CloseOnSignal, Restart, vars
  <1> QED
    BY <1>1, <1>2, <1>3, <1>4, <1>5, <1>6, <1>7 DEF Next, Handle

\* As long as the process dies by kills and signals and the disk takes whole
\* entries, what was written and synced survives every restart (main.go:43-100).
THEOREM LogSurvives == NoTearing => (Spec => []DurableSurvives)
  <1> SUFFICES ASSUME NoTearing PROVE Spec => []DurableSurvives
    OBVIOUS
  <1>1. Init => WholeInv
    BY DEF Init, WholeInv, AllWhole, DurableSurvives
  <1>2. IInv /\ WholeInv /\ [Next]_vars => WholeInv'
    BY WholeStep
  <1>3. WholeInv => DurableSurvives
    BY DEF WholeInv
  <1> QED
    BY <1>1, <1>2, <1>3, Inductive, PTL DEF Spec

-----------------------------------------------------------------------------
(* The log implements TransactionLedger.                                   *)

Answered == {r \in Requests : pc[r] = "done"}

\* Until then the log is open while the process runs and holds whole lines, so
\* a request past appendWAL is in it.
SoundInv == ~harmed => /\ AllWhole(file)
                       /\ running => open
                       /\ \A r \in Requests :
                             pc[r] \in {"written", "logged", "stored", "counted", "done"}
                                 => r \in Recoverable(file)

\* From the first failure on every step is one in which nothing is promised.
LEMMA UnsoundStep ==
    ASSUME IInv, IInv', harmed' = TRUE
    PROVE  SoundInv' /\ Ledger!Unsound
  <1>1. Recoverable(file') \subseteq Requests
    BY RecoveryCount DEF IInv, Typed, FileInv
  <1> QED
    BY <1>1 DEF SoundInv, Ledger!Unsound

\* Until then kills and restarts leave the ledger as it is.
LEMMA SoundStep ==
    ASSUME IInv, SoundInv, harmed = FALSE, harmed' = FALSE, [Next]_vars
    PROVE  SoundInv' /\ [Ledger!Next]_(Ledger!vars)
  <1> USE DEF SoundInv, Ledger!vars
  <1>1. ASSUME NEW r \in Requests, Write(r)
        PROVE  SoundInv' /\ Ledger!Enter(r)
    <2>1. AllWhole(file') /\ Recoverable(file') = Recoverable(file) \cup {r}
      BY <1>1, AppendWhole DEF Write, IInv, Typed
    <2>2. r \notin Recoverable(file)
      BY <1>1, RecoveryCount DEF Write, IInv, Typed, FileInv
    <2>3. Answered' = Answered
      BY <1>1 DEF Write, Becomes, Answered, IInv, Typed
    <2>4. SoundInv'
      BY <1>1, <2>1 DEF Write, Becomes, IInv, Typed
    <2> QED
      BY <2>1, <2>2, <2>3, <2>4 DEF Ledger!Enter, Answered
  <1>2. ASSUME NEW r \in Requests, Reply(r)
        PROVE  SoundInv' /\ Ledger!Answer(r)
    <2>1. r \in Recoverable(file) /\ UNCHANGED file
      BY <1>2 DEF Reply
    <2>2. Answered' = Answered \cup {r}
      BY <1>2 DEF Reply, Becomes, Answered, IInv, Typed
    <2>3. SoundInv'
      BY <1>2, <2>1 DEF Reply, Becomes, IInv, Typed
    <2> QED
      BY <2>1, <2>2, <2>3 DEF Ledger!Answer, Answered
  <1>3. ASSUME NEW r \in Requests, Arrive(r) \/ Sync(r) \/ Store(r) \/ Count(r)
        PROVE  SoundInv' /\ UNCHANGED <<file, Answered>>
    BY <1>3 DEF Arrive, Sync, Store, Count, Becomes, Answered, IInv, Typed
  <1>4. \A r \in Requests : ~WriteFail(r)
    BY DEF WriteFail
  <1>5. ~PowerLoss /\ ~CloseOnSignal /\ ~Exit
    BY DEF PowerLoss, CloseOnSignal, Exit
  <1>9. UNCHANGED <<file, Answered>> => UNCHANGED Ledger!vars
    BY DEF Answered
  <1>10. (\E r \in Requests : Ledger!Enter(r) \/ Ledger!Answer(r)) => Ledger!Next
    BY DEF Ledger!Next
  <1>11. CASE \E r \in Requests : Arrive(r) \/ Handle(r)
    BY <1>1, <1>2, <1>3, <1>4, <1>9, <1>10, <1>11 DEF Handle
  <1>12. CASE Kill \/ Restart \/ UNCHANGED vars
    <2>1. CASE Kill
      BY <1>9, <2>1 DEF Kill, Die, Answered, IInv, Typed
    <2>2. CASE Restart
      BY <1>9, <2>2 DEF Restart, Answered
    <2>3. CASE UNCHANGED vars
      BY <1>9, <2>3 DEF vars, Answered
    <2> QED
      BY <1>12, <2>1, <2>2, <2>3
  <1> QED
    BY <1>5, <1>11, <1>12 DEF Next

\* For as long as writes succeed, the power stays and no signal comes, clients
\* are told only of transactions that every later restart brings back, however
\* often the process is killed (main.go:43-100, 163-226).
THEOREM LogIsALedger == Spec => LedgerSpec
  <1>1. Init => SoundInv /\ Ledger!Init
    <2> SUFFICES ASSUME Init PROVE SoundInv /\ Ledger!Init
      OBVIOUS
    <2>1. Recoverable(file) = {}
      BY DEF Init, Recoverable, Lines
    <2> QED
      BY <2>1 DEF Init, SoundInv, AllWhole, Ledger!Init
  <1>2. IInv /\ SoundInv /\ [Next]_vars => SoundInv' /\ [Ledger!Next]_(Ledger!vars)
    <2> SUFFICES ASSUME IInv, SoundInv, [Next]_vars
                 PROVE  SoundInv' /\ [Ledger!Next]_(Ledger!vars)
      OBVIOUS
    <2>1. IInv' /\ harmed \in BOOLEAN /\ harmed' \in BOOLEAN
      BY StepInv DEF IInv, Typed
    <2>2. CASE harmed' = TRUE
      BY <2>1, <2>2, UnsoundStep DEF Ledger!Next
    <2>3. CASE harmed' = FALSE
      <3>1. harmed = FALSE
        BY <2>1, <2>3
           DEF Next, Arrive, Handle, Write, WriteFail, Sync, Store, Count, Reply, Kill,
               PowerLoss, CloseOnSignal, Exit, Restart, vars
      <3> QED
        BY <2>3, <3>1, SoundStep
    <2> QED
      BY <2>1, <2>2, <2>3
  <1> QED
    BY <1>1, <1>2, Inductive, PTL DEF Spec, LedgerSpec, Ledger!Spec

-----------------------------------------------------------------------------
(* Under every fault: where the lock is, and what can take a durable entry *)
(* away.                                                                   *)

\* walMutex is held exactly by the handler between its Write and the unlock.
HeldByItsWriter == \A r \in Requests : walMutex = r <=> pc[r] = "written"

\* What was synced is a whole line among the writes a loss of power leaves.
LineInv == /\ \A r \in durable : \E i \in 1..synced : file[i] = Line(r)
           /\ \A r \in Requests : pc[r] = "written" =>
                 \E i \in 1..Len(file) : file[i] = Line(r)

\* Neither the lock nor a line moves in a step that writes nothing.
LEMMA LinesKept ==
    ASSUME LineInv, file' \in Seq(Entry), synced' \in 0..Len(file'), synced <= synced',
           Len(file) <= Len(file'), \A i \in 1..Len(file) : file'[i] = file[i],
           IInv, durable' = durable,
           \A r \in Requests : pc'[r] = "written" =>
               pc[r] = "written" \/ \E i \in 1..Len(file') : file'[i] = Line(r)
    PROVE  LineInv'
  <1>1. Len(file) \in Nat /\ Len(file') \in Nat /\ synced \in 0..Len(file) /\ synced' \in Nat
    BY DEF IInv, Typed
  <1>2. \A i \in 1..synced : i \in 1..synced' /\ file'[i] = file[i]
    BY <1>1
  <1>3. \A i \in 1..Len(file) : i \in 1..Len(file') /\ file'[i] = file[i]
    BY <1>1
  <1>4. \A r \in durable' : \E i \in 1..synced' : file'[i] = Line(r)
    BY <1>2 DEF LineInv
  <1>5. \A r \in Requests : pc'[r] = "written" => \E i \in 1..Len(file') : file'[i] = Line(r)
    BY <1>3 DEF LineInv
  <1> QED
    BY <1>4, <1>5 DEF LineInv, Line

LEMMA MutexStep == ASSUME IInv, HeldByItsWriter, [Next]_vars PROVE HeldByItsWriter'
  <1> USE DEF IInv, Typed, HeldByItsWriter, Becomes
  <1>1. ASSUME NEW r \in Requests, Arrive(r) \/ Handle(r) PROVE HeldByItsWriter'
    <2>1. CASE Write(r)
      BY <2>1 DEF Write
    <2>2. CASE WriteFail(r)
      BY <2>2 DEF WriteFail
    <2>3. CASE Sync(r)
      BY <2>3 DEF Sync
    <2>4. CASE Arrive(r) \/ Store(r) \/ Count(r) \/ Reply(r)
      BY <2>4 DEF Arrive, Store, Count, Reply
    <2> QED
      BY <1>1, <2>1, <2>2, <2>3, <2>4 DEF Handle
  <1>2. CASE Kill \/ PowerLoss \/ Exit
    BY <1>2 DEF Kill, PowerLoss, Exit, Die
  <1>3. CASE CloseOnSignal \/ Restart \/ UNCHANGED vars
    BY <1>3 DEF CloseOnSignal, Restart, vars
  <1> QED
    BY <1>1, <1>2, <1>3 DEF Next

\* What is left of the log after a loss of power begins with all that was synced.
LEMMA PowerKeepsLines == ASSUME IInv, LineInv, PowerLoss PROVE LineInv'
  <1>1. /\ file \in Seq(Entry) /\ synced \in 0..Len(file) /\ Len(file) \in Nat
        /\ WrittenOnce(file)
    BY DEF IInv, Typed, FileInv
  <1>2. PICK n \in synced..Len(file) :
              \/ file' = SubSeq(file, 1, n)
              \/ \E x \in Cut..file[n + 1].extent :
                     /\ n < Len(file)
                     /\ file' = Append(SubSeq(file, 1, n), [file[n + 1] EXCEPT !.extent = x])
    BY DEF PowerLoss
  <1> DEFINE p == SubSeq(file, 1, n)
  <1>3. n \in 0..Len(file) /\ synced <= n
    BY <1>1
  <1>4. /\ p \in Seq(Entry) /\ Len(p) = n
        /\ \A i \in DOMAIN p : p[i] = file[i]
    BY <1>1, <1>3, PrefixOnce
  <1>5. DOMAIN p = 1..n
    BY <1>4
  <1> HIDE DEF p
  <1>6. /\ n <= Len(file') /\ Len(file') \in Nat /\ \A i \in 1..n : file'[i] = file[i]
    <2>1. CASE file' = p
      BY <1>3, <1>4, <1>5, <2>1
    <2>2. CASE \E e : file' = Append(p, e)
      <3>1. PICK e : file' = Append(p, e)
        BY <2>2
      <3>2. Len(file') = n + 1 /\ \A i \in 1..n : file'[i] = p[i]
        BY <1>4, <3>1
      <3> QED
        BY <1>3, <1>4, <1>5, <3>2
    <2> QED
      BY <1>2, <2>1, <2>2 DEF p
  <1>7. synced' = Len(file') /\ durable' = durable
    BY DEF PowerLoss, Die
  <1>8. \A i \in 1..synced : i \in 1..synced' /\ file'[i] = file[i]
    BY <1>1, <1>3, <1>6, <1>7
  <1>9. \A r \in durable' : \E i \in 1..synced' : file'[i] = Line(r)
    BY <1>7, <1>8 DEF LineInv
  <1>10. \A r \in Requests : pc'[r] # "written"
    BY DEF PowerLoss, Die, IInv, Typed
  <1> QED
    BY <1>9, <1>10 DEF LineInv, Line

LEMMA LineStep == ASSUME IInv, LineInv, [Next]_vars PROVE LineInv'
  <1>1. file \in Seq(Entry) /\ synced \in 0..Len(file) /\ Len(file) \in Nat
    BY DEF IInv, Typed
  <1>2. IInv'
    BY StepInv
  <1>3. file' \in Seq(Entry) /\ synced' \in 0..Len(file')
    BY <1>2 DEF IInv, Typed
  <1>4. ASSUME NEW r \in Requests, Write(r) PROVE LineInv'
    <2>1. Line(r) \in Entry /\ file' = Append(file, Line(r))
      BY <1>4, EntryType DEF Write, Line
    <2>2. /\ Len(file') = Len(file) + 1 /\ file'[Len(file) + 1] = Line(r)
          /\ \A i \in 1..Len(file) : file'[i] = file[i]
      BY <1>1, <2>1
    <2>3. Len(file) + 1 \in 1..Len(file')
      BY <1>1, <2>2
    <2>4. synced' = synced /\ durable' = durable /\ pc' = [pc EXCEPT ![r] = "written"]
      BY <1>4 DEF Write, Becomes
    <2>5. \A q \in Requests : pc'[q] = "written" =>
             pc[q] = "written" \/ \E i \in 1..Len(file') : file'[i] = Line(q)
      BY <2>2, <2>3, <2>4 DEF IInv, Typed
    <2> QED
      BY <1>1, <1>3, <2>2, <2>4, <2>5, LinesKept
  <1>5. ASSUME NEW r \in Requests, WriteFail(r) PROVE LineInv'
    <2>1. /\ Len(file) <= Len(file') /\ \A i \in 1..Len(file) : file'[i] = file[i]
      <3>1. CASE file' = file
        BY <1>1, <3>1
      <3>2. CASE \E e : file' = Append(file, e)
        BY <1>1, <3>2
      <3> QED
        BY <1>5, <3>1, <3>2 DEF WriteFail
    <2>2. /\ synced' = synced /\ durable' = durable
          /\ \A q \in Requests : pc'[q] = "written" => pc[q] = "written"
      BY <1>5 DEF WriteFail, Becomes, IInv, Typed
    <2> QED
      BY <1>1, <1>3, <2>1, <2>2, LinesKept
  <1>6. ASSUME NEW r \in Requests, Sync(r) PROVE LineInv'
    <2>1. /\ file' = file /\ \A q \in Requests : pc'[q] = "written" => pc[q] = "written"
          /\ \/ synced' = Len(file) /\ durable' = durable \cup {r}
             \/ UNCHANGED <<synced, durable>>
      BY <1>6 DEF Sync, Becomes, IInv, Typed
    <2>2. \E i \in 1..Len(file) : file[i] = Line(r)
      BY <1>6 DEF Sync, LineInv
    <2>3. \A i \in 1..synced : i \in 1..Len(file)
      BY <1>1
    <2>4. \A q \in durable' : \E i \in 1..synced' : file'[i] = Line(q)
      BY <2>1, <2>2, <2>3 DEF LineInv
    <2>5. \A q \in Requests : pc'[q] = "written" => \E i \in 1..Len(file') : file'[i] = Line(q)
      BY <2>1 DEF LineInv
    <2> QED
      BY <2>4, <2>5 DEF LineInv, Line
  <1>7. CASE PowerLoss
    BY <1>7, PowerKeepsLines
  <1>8. CASE \/ \E r \in Requests : Arrive(r) \/ Store(r) \/ Count(r) \/ Reply(r)
             \/ Kill \/ Exit \/ CloseOnSignal \/ Restart \/ UNCHANGED vars
    <2>1. UNCHANGED <<file, synced, durable>>
      BY <1>8 DEF Arrive, Store, Count, Reply, Kill, Exit, Die, CloseOnSignal, Restart, vars
    <2>2. \A q \in Requests : pc'[q] = "written" => pc[q] = "written"
      <3>1. ASSUME NEW r \in Requests, Arrive(r) \/ Store(r) \/ Count(r) \/ Reply(r)
            PROVE  \A q \in Requests : pc'[q] = "written" => pc[q] = "written"
        BY <3>1 DEF Arrive, Store, Count, Reply, Becomes, IInv, Typed
      <3>2. CASE Kill \/ Exit
        BY <3>2 DEF Kill, Exit, Die
      <3> QED
        BY <1>8, <3>1, <3>2 DEF CloseOnSignal, Restart, vars
    <2> QED
      BY <2>1, <2>2 DEF LineInv, Line
  <1> QED
    BY <1>4, <1>5, <1>6, <1>7, <1>8 DEF Next, Handle

\* appendWAL: whoever holds walMutex is about to sync and unlock, so no failed
\* write, closed log or dead process leaves it locked (main.go:78-100).
THEOREM MutexIsHeldByItsWriter == Spec => []HeldByItsWriter
  <1>1. Init => HeldByItsWriter
    BY DEF Init, HeldByItsWriter
  <1>2. IInv /\ HeldByItsWriter /\ [Next]_vars => HeldByItsWriter'
    BY MutexStep
  <1> QED
    BY <1>1, <1>2, Inductive, PTL DEF Spec

\* Whatever fails, an entry whose Write and Sync succeeded is recovered unless
\* the write before it was torn: initWAL skips the line that the two share
\* (main.go:49-65). Nothing that is appended after it can take it away.
THEOREM OnlyATornLineLosesAnEntry == Spec => []OnlyTornLinesLose
  <1>1. Init => LineInv
    BY DEF Init, LineInv
  <1>2. IInv /\ LineInv /\ [Next]_vars => LineInv'
    BY LineStep
  <1>3. IInv /\ LineInv => OnlyTornLinesLose
    <2> SUFFICES ASSUME IInv, LineInv, NEW r \in durable, ~JoinsATornLine(r)
                 PROVE  r \in Recoverable(file)
      BY DEF OnlyTornLinesLose
    <2>1. /\ Len(file) \in Nat /\ DOMAIN file = 1..Len(file) /\ synced \in 0..Len(file)
          /\ \A i \in 1..Len(file) : file[i] \in Entry
      BY DEF IInv, Typed
    <2>2. PICK i \in 1..synced : file[i] = Line(r)
      BY DEF LineInv
    <2>3. i \in 1..Len(file) /\ file[i].req = r /\ file[i].extent = Whole
      BY <2>1, <2>2 DEF Line
    <2>4. i > 1 => file[i - 1].extent = Whole
      BY <2>1, <2>2, <2>3 DEF JoinsATornLine
    <2>5. i \in Lines(file)
      BY <2>1, <2>3, <2>4, EntryType DEF Lines, Parseable
    <2> QED
      BY <2>3, <2>5 DEF Recoverable
  <1> QED
    BY <1>1, <1>2, <1>3, Inductive, PTL DEF Spec
=============================================================================
