-------------------------- MODULE Curriculum_proofs --------------------------
(***************************************************************************)
(* Curriculum for any topics, citations and retries: what is delivered is  *)
(* grounded, the audit trail does not lie, and prompts are bounded; and    *)
(* Chunk, by induction over sentences and paragraphs, for any text.        *)
(***************************************************************************)
EXTENDS Curriculum, SequenceTheorems, WellFoundedInduction, TLAPS

\* How far the sequences have grown at each step of the handler.
StepInv ==
    /\ pc = "chunk" => round = 0 /\ Len(sources) = 0 /\ Len(curriculum) = 0
    /\ pc = "compile" => Len(sources) = round - 1 /\ Len(curriculum) = round - 1
    /\ pc \in {"ask", "verify"} => Len(sources) = round /\ Len(curriculum) = round - 1
    /\ pc \in {"log", "done"} /\ outcome = "succeeded" =>
          Len(sources) = round /\ Len(curriculum) = round
    /\ pc \in {"log", "done"} /\ outcome = "failed" =>
          Len(sources) >= round - 1 /\ Len(curriculum) = round - 1
    /\ pc # "chunk" => round > 0

\* What is about to be logged as a success is the last answer accepted.
DraftInv == pc = "log" /\ outcome = "succeeded" => draft = curriculum[round]

\* The reply is sent at the end.
ReplyInv == /\ (pc = "done") <=> (reply # "none")
            /\ reply = "ok" => outcome = "succeeded" /\ round = Len(chunks)
            /\ reply = "fault" => outcome = "failed"

GroundedInv == \A c \in 1..Len(curriculum) :
                  /\ Recognized(curriculum[c]) # {}
                  /\ Recognized(curriculum[c]) \subseteq sources[c]

\* A row is about a chunk the handler is done with.
RowInv == \A k \in 1..Len(logs) :
             /\ logs[k].chunk <= round
             /\ logs[k].chunk = round => pc = "done"
             /\ logs[k].status = "succeeded" => logs[k].chunk <= Len(curriculum)

\* Every prompt the model got took an attempt.
AttemptInv == /\ asked <= MaxRetries + 1
              /\ pc = "ask" => asked <= attempt

IInv == /\ TypeOK /\ StepInv /\ DraftInv /\ ReplyInv /\ GroundedInv /\ RowInv
        /\ AuditIsTruthful /\ AttemptInv

LEMMA Invs == IInv => DeliveredIsGrounded /\ PromptsAreBounded
  <1> SUFFICES ASSUME IInv PROVE DeliveredIsGrounded /\ PromptsAreBounded
    OBVIOUS
  <1> USE DEF IInv, TypeOK
  <1>1. DeliveredIsGrounded
    BY DEF DeliveredIsGrounded, GroundedInv, ReplyInv, StepInv
  <1>2. PromptsAreBounded
    BY DEF PromptsAreBounded, AttemptInv, StepInv
  <1> QED BY <1>1, <1>2

LEMMA Initially == Init => IInv
  <1> SUFFICES ASSUME Init PROVE IInv
    OBVIOUS
  <1> USE CurriculumAssumption DEF Init
  <1>1. TypeOK
    <2>1. <<>> \in Seq(SUBSET Verses) /\ <<>> \in Seq(Row)
      BY EmptySeq
    <2>2. attempt \in 0..MaxRetries /\ asked \in Nat /\ round \in Nat
      OBVIOUS
    <2> QED BY <2>1, <2>2 DEF TypeOK
  <1>2. StepInv /\ DraftInv /\ ReplyInv /\ AttemptInv
    BY DEF StepInv, DraftInv, ReplyInv, AttemptInv
  <1>3. GroundedInv /\ RowInv /\ AuditIsTruthful
    BY DEF GroundedInv, RowInv, AuditIsTruthful
  <1> QED BY <1>1, <1>2, <1>3 DEF IInv

LEMMA SplitStep == ASSUME IInv, Split PROVE IInv'
  BY CurriculumAssumption
  DEF Split, NextRound, model, IInv, TypeOK, StepInv, DraftInv, ReplyInv, GroundedInv,
      RowInv, AuditIsTruthful, AttemptInv

LEMMA CompileStep == ASSUME IInv, NEW found \in SUBSET Verses, Compile(found) PROVE IInv'
  <1> USE CurriculumAssumption DEF Compile, job, IInv, TypeOK
  <1>1. /\ sources' \in Seq(SUBSET Verses)
        /\ Len(sources') = Len(sources) + 1
        /\ \A c \in 1..Len(sources) : sources'[c] = sources[c]
    BY AppendProperties
  <1>2. TypeOK' /\ StepInv' /\ DraftInv' /\ ReplyInv' /\ AttemptInv'
    BY <1>1 DEF StepInv, DraftInv, ReplyInv, AttemptInv
  <1>3. GroundedInv'
    BY <1>1 DEF GroundedInv, StepInv
  <1>4. RowInv' /\ AuditIsTruthful'
    BY DEF RowInv, AuditIsTruthful, ReplyInv, StepInv
  <1> QED BY <1>2, <1>3, <1>4

\* A step of the handler that leaves what was accepted, compiled and logged.
LEMMA QuietStep ==
  ASSUME IInv, TypeOK', StepInv', AttemptInv', pc \in {"compile", "ask"},
         pc' \in {"ask", "verify", "log"}, pc' = "log" => outcome' = "failed",
         UNCHANGED <<chunks, round, sources, curriculum, logs, reply>>
  PROVE  IInv'
  <1> USE DEF IInv, TypeOK
  <1>1. DraftInv' /\ ReplyInv'
    BY DEF DraftInv, ReplyInv
  <1>2. GroundedInv' /\ RowInv' /\ AuditIsTruthful'
    BY DEF GroundedInv, RowInv, AuditIsTruthful, ReplyInv
  <1> QED BY <1>1, <1>2

LEMMA CompileFailsStep == ASSUME IInv, CompileFails PROVE IInv'
  <1> USE CurriculumAssumption DEF CompileFails, Fault, job, model, IInv
  <1>1. TypeOK'
    BY DEF TypeOK
  <1>2. StepInv' /\ AttemptInv'
    BY DEF TypeOK, StepInv, AttemptInv
  <1> QED BY <1>1, <1>2, QuietStep

LEMMA AttemptFailsStep == ASSUME IInv, AttemptFails PROVE IInv'
  <1> USE CurriculumAssumption DEF AttemptFails, TryAgain, Received, Fault, job, IInv
  <1>1. TypeOK'
    BY DEF TypeOK
  <1>2. StepInv' /\ AttemptInv'
    BY DEF TypeOK, StepInv, AttemptInv
  <1> QED BY <1>1, <1>2, QuietStep

LEMMA RefusedStep == ASSUME IInv, Refused PROVE IInv'
  <1> USE CurriculumAssumption DEF Refused, Received, Fault, job, IInv
  <1>1. TypeOK'
    BY DEF TypeOK
  <1>2. StepInv' /\ AttemptInv'
    BY DEF TypeOK, StepInv, AttemptInv
  <1> QED BY <1>1, <1>2, QuietStep

LEMMA AnswerStep == ASSUME IInv, NEW cited \in SUBSET Verses, Answer(cited) PROVE IInv'
  <1> USE CurriculumAssumption DEF Answer, Received, job, IInv
  <1>1. TypeOK'
    BY DEF TypeOK
  <1>2. StepInv' /\ AttemptInv'
    BY DEF TypeOK, StepInv, AttemptInv
  <1> QED BY <1>1, <1>2, QuietStep

LEMMA VerifyStep == ASSUME IInv, Verify PROVE IInv'
  <1> USE CurriculumAssumption DEF Verify, Fault, job, model, IInv
  <1>1. CASE Verified
    <2> USE <1>1
    <2>0. curriculum \in Seq(SUBSET Verses) /\ draft \in SUBSET Verses
      BY DEF TypeOK
    <2>1. /\ curriculum' \in Seq(SUBSET Verses)
          /\ Len(curriculum') = Len(curriculum) + 1
          /\ \A c \in 1..Len(curriculum) : curriculum'[c] = curriculum[c]
          /\ curriculum'[Len(curriculum) + 1] = draft
      BY <2>0, AppendProperties
    <2>2. TypeOK' /\ StepInv' /\ ReplyInv' /\ AttemptInv'
      BY <2>1 DEF TypeOK, StepInv, ReplyInv, AttemptInv
    <2>3. DraftInv'
      BY <2>1 DEF TypeOK, DraftInv, StepInv
    <2>4. GroundedInv'
      BY <2>1 DEF TypeOK, GroundedInv, StepInv, Verified, Recognized
    <2>5. RowInv'
      BY <2>1 DEF TypeOK, RowInv, Row, StepInv
    <2>6. ASSUME NEW k \in 1..Len(logs), logs[k].status = "succeeded"
          PROVE  /\ logs[k].chunk \in 1..Len(curriculum)
                 /\ logs[k].cited = Recognized(curriculum[logs[k].chunk])
      BY <2>6 DEF TypeOK, AuditIsTruthful
    <2>7. ASSUME NEW k \in 1..Len(logs) PROVE logs[k].status = "succeeded"
      BY DEF TypeOK, AuditIsTruthful, ReplyInv
    <2>8. AuditIsTruthful'
      BY <2>1, <2>6, <2>7 DEF TypeOK, AuditIsTruthful
    <2> QED BY <2>2, <2>3, <2>4, <2>5, <2>8
  <1>2. CASE ~Verified
    <2> USE <1>2
    <2>1. TypeOK' /\ StepInv' /\ ReplyInv' /\ AttemptInv' /\ DraftInv' /\ GroundedInv'
      BY DEF TypeOK, StepInv, ReplyInv, AttemptInv, DraftInv, GroundedInv
    <2>2. RowInv' /\ AuditIsTruthful'
      BY DEF TypeOK, RowInv, AuditIsTruthful, ReplyInv
    <2> QED BY <2>1, <2>2
  <1> QED BY <1>1, <1>2

LEMMA LogStep == ASSUME IInv, Log PROVE IInv'
  <1> DEFINE row == [chunk |-> round, status |-> outcome,
                     cited |-> IF outcome = "succeeded" THEN Recognized(draft) ELSE {}]
  <1> USE CurriculumAssumption DEF Log, Finish, NextRound, job, model, IInv
  <1>1. row \in Row
    BY DEF Row, TypeOK, StepInv, Recognized
  <1>0. /\ Append(logs, row) \in Seq(Row)
        /\ Len(Append(logs, row)) = Len(logs) + 1
        /\ \A k \in 1..Len(logs) : Append(logs, row)[k] = logs[k]
        /\ Append(logs, row)[Len(logs) + 1] = row
    <2> HIDE DEF row
    <2> QED BY <1>1, AppendProperties DEF TypeOK
  <1>2. \/ logs' = logs
        \/ /\ logs' = Append(logs, row)
           /\ logs' \in Seq(Row)
           /\ Len(logs') = Len(logs) + 1
           /\ \A k \in 1..Len(logs) : logs'[k] = logs[k]
           /\ logs'[Len(logs) + 1] = row
    BY <1>0 DEF WriteLog
  <1>3. row.chunk = round /\ row.status = outcome
    OBVIOUS
  <1>4. row.status = "succeeded" => row.cited = Recognized(draft)
    OBVIOUS
  <1> HIDE DEF row
  <1>5. TypeOK'
    BY <1>2 DEF TypeOK
  <1>6. StepInv' /\ DraftInv' /\ ReplyInv' /\ AttemptInv' /\ GroundedInv'
    BY DEF TypeOK, StepInv, DraftInv, ReplyInv, AttemptInv, GroundedInv
  <1>7. ASSUME NEW k \in 1..Len(logs')
        PROVE  \/ k \in 1..Len(logs) /\ logs'[k] = logs[k]
               \/ k = Len(logs) + 1 /\ Len(logs') = k /\ logs'[k] = row
    BY <1>2 DEF TypeOK
  <1>8. ASSUME NEW k \in 1..Len(logs)
        PROVE  /\ logs[k] \in Row /\ logs[k].chunk < round
               /\ logs[k].status = "succeeded"
    <2>1. logs[k] \in Row
      BY DEF TypeOK
    <2>2. logs[k].chunk < round
      BY <2>1 DEF TypeOK, RowInv, Row
    <2>3. logs[k].status = "succeeded"
      BY <2>1 DEF TypeOK, ReplyInv, AuditIsTruthful
    <2> QED BY <2>1, <2>2, <2>3
  <1>9. RowInv'
    BY <1>3, <1>7, <1>8 DEF TypeOK, RowInv, StepInv, Row
  <1>10. ASSUME NEW k \in 1..Len(logs'), NEW l \in 1..Len(logs'), k < l
         PROVE  logs'[k].chunk < logs'[l].chunk
    <2>1. k \in 1..Len(logs) /\ logs'[k] = logs[k]
      BY <1>2, <1>10 DEF TypeOK
    <2>2. CASE l \in 1..Len(logs) /\ logs'[l] = logs[l]
      <3>1. logs[k].chunk < logs[l].chunk
        BY <2>1, <2>2, <1>10 DEF TypeOK, AuditIsTruthful
      <3> QED BY <2>1, <2>2, <3>1
    <2>3. CASE logs'[l] = row
      BY <2>1, <2>3, <1>3, <1>8
    <2> QED BY <2>2, <2>3, <1>7
  <1>11. ASSUME NEW k \in 1..Len(logs')
         PROVE  IF logs'[k].status = "succeeded"
                THEN /\ logs'[k].chunk \in 1..Len(curriculum)
                     /\ logs'[k].cited = Recognized(curriculum[logs'[k].chunk])
                ELSE logs'[k].chunk = round' /\ reply' = "fault"
    <2>1. CASE k \in 1..Len(logs) /\ logs'[k] = logs[k]
      BY <2>1, <1>8 DEF TypeOK, AuditIsTruthful
    <2>2. CASE logs'[k] = row
      BY <2>2, <1>3, <1>4 DEF TypeOK, StepInv, DraftInv
    <2> QED BY <2>1, <2>2, <1>7
  <1>12. AuditIsTruthful'
    BY <1>5, <1>10, <1>11 DEF TypeOK, AuditIsTruthful
  <1> QED BY <1>5, <1>6, <1>9, <1>12

LEMMA HangUpStep == ASSUME IInv, HangUp PROVE IInv'
  BY DEF HangUp, job, model, IInv, TypeOK, StepInv, DraftInv, ReplyInv, GroundedInv,
         RowInv, AuditIsTruthful, AttemptInv

LEMMA StutterStep == ASSUME IInv, UNCHANGED vars PROVE IInv'
  BY DEF vars, job, model, IInv, TypeOK, StepInv, DraftInv, ReplyInv, GroundedInv,
         RowInv, AuditIsTruthful, AttemptInv

LEMMA Inductive == IInv /\ [Next]_vars => IInv'
  BY SplitStep, CompileStep, CompileFailsStep, AttemptFailsStep, RefusedStep, AnswerStep,
     VerifyStep, LogStep, HangUpStep, StutterStep
  DEF Next, Handler

LEMMA Always == Spec => []IInv
  BY Initially, Inductive, PTL DEF Spec

\* Every variable keeps its type, and the retries their bound.
THEOREM TypeCorrectness == Spec => []TypeOK
  <1>1. IInv => TypeOK
    BY DEF IInv
  <1> QED BY <1>1, Always, PTL

\* Whatever fails in between, the client gets all the answers or none, and each
\* cites what was compiled for its own chunk.
THEOREM GroundedDelivery == Spec => []DeliveredIsGrounded
  BY Invs, Always, PTL

\* A row of the audit log tells the truth about its chunk.
THEOREM TruthfulAudit == Spec => []AuditIsTruthful
  <1>1. IInv => AuditIsTruthful
    BY DEF IInv
  <1> QED BY <1>1, Always, PTL

\* No chunk is paid for more often than the retries allow, and none before the
\* answers to the chunks before it were accepted.
THEOREM BoundedPrompts == Spec => []PromptsAreBounded
  BY Invs, Always, PTL

-----------------------------------------------------------------------------
(* Loops. The number a property fails at first, if there is one, is what   *)
(* the well-foundedness of < on the naturals gives.                        *)

\* What holds at 0 and is handed on from each number to the next holds up to n.
LEMMA Induction ==
    ASSUME NEW n \in Nat, NEW I, 0 \in I, \A i \in 1 .. n : i - 1 \in I => i \in I
    PROVE  \A i \in 0 .. n : i \in I
<1> DEFINE T == {i \in 0 .. n : i \notin I}
<1> SUFFICES ASSUME T # {} PROVE FALSE
  OBVIOUS
<1>1. IsWellFoundedOn(OpToRel(<, Nat), Nat)
  BY NatLessThanWellFounded
<1>2. PICK i \in T : \A j \in T : ~(<<j, i>> \in OpToRel(<, Nat))
  <2>1. T \subseteq Nat
    OBVIOUS
  <2> QED BY <1>1, <2>1, WFMin
<1>3. i \in 1 .. n
  OBVIOUS
<1>4. i - 1 \in I
  <2>1. <<i - 1, i>> \in Nat \X Nat /\ i - 1 < i
    BY <1>3
  <2>2. <<i - 1, i>> \in OpToRel(<, Nat)
    BY <2>1 DEF OpToRel
  <2>3. i - 1 \in 0 .. n
    BY <1>3
  <2>4. i - 1 \notin T
    <3> HIDE DEF T
    <3> QED BY <1>2, <2>2
  <2> QED BY <2>3, <2>4
<1> QED BY <1>3, <1>4

\* f tells what a loop has computed after i of n steps.
Table(f, n, base, step) == f[0] = base /\ \A i \in 1 .. n : f[i] = step[i][f[i - 1]]

\* A loop that computes one value in B after another has a table of them all.
LEMMA Iteration ==
    ASSUME NEW n \in Nat, NEW B, NEW base \in B, NEW step \in [1 .. n -> [B -> B]]
    PROVE  \E f \in [0 .. n -> B] : Table(f, n, base, step)
<1> DEFINE Upto(k) == \E f \in [0 .. k -> B] :
                         f[0] = base /\ \A i \in 1 .. k : f[i] = step[i][f[i - 1]]
           I == {k \in 0 .. n : Upto(k)}
<1>1. 0 \in I
  <2> DEFINE g == [i \in 0 .. 0 |-> base]
  <2>1. g \in [0 .. 0 -> B] /\ g[0] = base /\ \A i \in 1 .. 0 : g[i] = step[i][g[i - 1]]
    OBVIOUS
  <2>2. Upto(0)
    <3> HIDE DEF g
    <3> QED BY <2>1
  <2>3. 0 \in 0 .. n
    OBVIOUS
  <2> HIDE DEF Upto
  <2> QED BY <2>2, <2>3
<1>2. ASSUME NEW k \in 1 .. n, k - 1 \in I PROVE k \in I
  <2>1. PICK f \in [0 .. k - 1 -> B] :
              f[0] = base /\ \A i \in 1 .. k - 1 : f[i] = step[i][f[i - 1]]
    BY <1>2
  <2> DEFINE g == [i \in 0 .. k |-> IF i = k THEN step[k][f[k - 1]] ELSE f[i]]
  <2>2. g \in [0 .. k -> B]
    <3>1. f[k - 1] \in B
      BY <2>1
    <3>2. step[k][f[k - 1]] \in B
      BY <3>1
    <3>3. \A i \in 0 .. k : i # k => f[i] \in B
      BY <2>1
    <3> QED BY <3>2, <3>3
  <2>3. \A i \in 0 .. k - 1 : g[i] = f[i]
    OBVIOUS
  <2>4. g[0] = base /\ g[k] = step[k][g[k - 1]]
    <3>1. 0 \in 0 .. k - 1 /\ k - 1 \in 0 .. k - 1
      OBVIOUS
    <3>2. g[k] = step[k][f[k - 1]]
      OBVIOUS
    <3> HIDE DEF g
    <3> QED BY <2>1, <2>3, <3>1, <3>2
  <2>5. \A i \in 1 .. k - 1 : g[i] = step[i][g[i - 1]]
    <3> HIDE DEF g
    <3> QED BY <2>1, <2>3
  <2>6. \A i \in 1 .. k : i \in 1 .. k - 1 \/ i = k
    OBVIOUS
  <2>7. k \in 0 .. n
    OBVIOUS
  <2> HIDE DEF g
  <2>8. Upto(k)
    BY <2>2, <2>4, <2>5, <2>6
  <2> HIDE DEF Upto
  <2> QED BY <2>7, <2>8
<1>3. \A i \in 0 .. n : i \in I
  <2> HIDE DEF I
  <2> QED BY <1>1, <1>2, Induction
<1>4. Upto(n)
  <2> HIDE DEF Upto
  <2> QED BY <1>3
<1> QED BY <1>4 DEF Table

LEMMA TotalIsNatural == ASSUME NEW lengths \in Seq(Nat) PROVE Total(lengths) \in Nat
<1> DEFINE n == Len(lengths)
           Op(sum, i) == sum + lengths[i]
           Rec(f) == f = [i \in 0 .. n |-> IF i = 0 THEN 0 ELSE f[i - 1] + lengths[i]]
           step == [i \in 1 .. n |-> [sum \in Nat |-> sum + lengths[i]]]
<1>1. n \in Nat /\ \A i \in 1 .. n : lengths[i] \in Nat
  OBVIOUS
<1>2. step \in [1 .. n -> [Nat -> Nat]]
  BY <1>1
<1>3. PICK f \in [0 .. n -> Nat] : Table(f, n, 0, step)
  <2> HIDE DEF n, step
  <2>1. 0 \in Nat
    OBVIOUS
  <2> QED BY <1>1, <1>2, <2>1, Iteration
<1>4. \A i \in 1 .. n : f[i] = f[i - 1] + lengths[i]
  <2>1. ASSUME NEW i \in 1 .. n PROVE step[i][f[i - 1]] = f[i - 1] + lengths[i]
    <3>1. i - 1 \in 0 .. n
      BY <1>1
    <3>2. f[i - 1] \in Nat
      BY <1>3, <3>1
    <3> QED BY <1>1, <3>2
  <2> QED BY <1>3, <2>1 DEF Table
<1>5. Rec(f)
  <2>1. \A i \in 0 .. n : i = 0 \/ i \in 1 .. n
    OBVIOUS
  <2> QED BY <1>3, <1>4, <2>1 DEF Table
<1>6. PICK g : g = CHOOSE h : Rec(h)
  OBVIOUS
<1>7. Rec(g)
  <2> HIDE DEF Rec
  <2> QED BY <1>5, <1>6
<1>8. Total(lengths) = g[n]
  BY <1>6 DEF Total, Loop
<1>9. \A i \in 0 .. n : g[i] \in Nat
  <2> DEFINE I == {j \in 0 .. n : g[j] \in Nat}
  <2>1. 0 \in I
    BY <1>1, <1>7
  <2>2. ASSUME NEW i \in 1 .. n, i - 1 \in I PROVE i \in I
    <3>1. i \in 0 .. n /\ i # 0 /\ lengths[i] \in Nat /\ g[i - 1] \in Nat
      BY <1>1, <2>2
    <3>2. g[i] = g[i - 1] + lengths[i]
      BY <1>7, <3>1
    <3> QED BY <3>1, <3>2
  <2>3. \A i \in 0 .. n : i \in I
    <3> HIDE DEF n, I
    <3> QED BY <1>1, <2>1, <2>2, Induction
  <2> QED BY <2>3
<1> QED BY <1>1, <1>8, <1>9

\* Parts that are joined have a length.
LEMMA JoinedIsNatural == ASSUME NEW lengths \in Seq(Nat) \ {<<>>} PROVE Joined(lengths) \in Nat
<1>1. Total(lengths) \in Nat /\ Len(lengths) - 1 \in Nat
  BY TotalIsNatural
<1> QED BY <1>1 DEF Joined, Separator

\* FlattenSeq joins one sequence after another.
LEMMA FlattenTable ==
    ASSUME NEW X, NEW ss \in Seq(Seq(X))
    PROVE  \E f \in [0 .. Len(ss) -> Seq(X)] :
              /\ f[0] = <<>> /\ \A i \in 1 .. Len(ss) : f[i] = f[i - 1] \o ss[i]
              /\ FlattenSeq(ss) = f[Len(ss)]
<1> DEFINE n == Len(ss)
           step == [i \in 1 .. n |-> [t \in Seq(X) |-> t \o ss[i]]]
           Rec(f) == f = [i \in 1 .. n |-> IF i = 1 THEN ss[i] ELSE f[i - 1] \o ss[i]]
<1>1. n \in Nat /\ \A i \in 1 .. n : ss[i] \in Seq(X)
  OBVIOUS
<1>2. step \in [1 .. n -> [Seq(X) -> Seq(X)]]
  BY <1>1
<1>3. PICK f \in [0 .. n -> Seq(X)] : Table(f, n, <<>>, step)
  <2> HIDE DEF n, step
  <2>1. <<>> \in Seq(X)
    OBVIOUS
  <2> QED BY <1>1, <1>2, <2>1, Iteration
<1>4. f[0] = <<>> /\ \A i \in 1 .. n : f[i] = f[i - 1] \o ss[i]
  <2>1. ASSUME NEW i \in 1 .. n PROVE step[i][f[i - 1]] = f[i - 1] \o ss[i]
    <3>1. i - 1 \in 0 .. n
      BY <1>1
    <3>2. f[i - 1] \in Seq(X)
      BY <1>3, <3>1
    <3> QED BY <1>1, <3>2
  <2> QED BY <1>3, <2>1 DEF Table
<1>5. FlattenSeq(ss) = f[n]
  <2>1. CASE n = 0
    BY <1>4, <2>1 DEF FlattenSeq
  <2>2. CASE n # 0
    <3> DEFINE h == [i \in 1 .. n |-> f[i]]
    <3>1. f[1] = ss[1]
      <4>1. 1 \in 1 .. n
        BY <1>1, <2>2
      <4>2. f[1] = f[0] \o ss[1]
        <5>1. f[1] = f[1 - 1] \o ss[1]
          BY <1>4, <4>1
        <5>2. 1 - 1 = 0
          OBVIOUS
        <5> QED BY <5>1, <5>2
      <4>3. ss[1] \in Seq(X)
        BY <1>1, <4>1
      <4> HIDE DEF n
      <4> QED BY <1>4, <4>2, <4>3, ConcatEmptySeq
    <3>2. ASSUME NEW i \in 1 .. n PROVE h[i] = IF i = 1 THEN ss[i] ELSE h[i - 1] \o ss[i]
      <4>1. CASE i = 1
        BY <3>1, <4>1
      <4>2. CASE i # 1
        <5>1. h[i] = f[i] /\ h[i - 1] = f[i - 1]
          BY <1>1, <4>2
        <5> QED BY <1>4, <4>2, <5>1
      <4> QED BY <4>1, <4>2
    <3>3. Rec(h)
      BY <3>2
    <3>4. PICK g : g = CHOOSE k : Rec(k)
      OBVIOUS
    <3>5. Rec(g)
      <4> HIDE DEF Rec, h
      <4> QED BY <3>3, <3>4
    <3>6. FlattenSeq(ss) = g[n]
      BY <2>2, <3>4 DEF FlattenSeq
    <3>7. \A i \in 1 .. n : g[i] = f[i]
      <4> DEFINE I == {0} \cup {i \in 1 .. n : g[i] = f[i]}
      <4>1. ASSUME NEW i \in 1 .. n, i - 1 \in I PROVE i \in I
        <5>1. CASE i = 1
          BY <3>1, <3>5, <5>1
        <5>2. CASE i # 1
          <6>1. i - 1 \in 1 .. n /\ g[i - 1] = f[i - 1]
            BY <4>1, <5>2
          <6> QED BY <1>4, <3>5, <5>2, <6>1
        <5> QED BY <5>1, <5>2
      <4>2. \A i \in 0 .. n : i \in I
        <5>1. 0 \in I
          OBVIOUS
        <5> HIDE DEF n, I
        <5> QED BY <1>1, <4>1, <5>1, Induction
      <4>3. \A i \in 1 .. n : i \in 0 .. n /\ i # 0
        OBVIOUS
      <4> QED BY <4>2, <4>3
    <3> QED BY <1>1, <2>2, <3>6, <3>7
  <2> QED BY <2>1, <2>2
<1> QED BY <1>4, <1>5

LEMMA FlattenAppend ==
    ASSUME NEW X, NEW ss \in Seq(Seq(X)), NEW s \in Seq(X)
    PROVE  /\ FlattenSeq(ss) \in Seq(X)
           /\ FlattenSeq(Append(ss, s)) = FlattenSeq(ss) \o s
<1> DEFINE n == Len(ss)
<1>1. PICK t : t = Append(ss, s)
  OBVIOUS
<1>2. /\ t \in Seq(Seq(X)) /\ Len(t) = n + 1 /\ t[n + 1] = s /\ n \in Nat
      /\ \A i \in 1 .. n : t[i] = ss[i]
  BY <1>1
<1>3. PICK f \in [0 .. n -> Seq(X)] :
              /\ f[0] = <<>> /\ \A i \in 1 .. n : f[i] = f[i - 1] \o ss[i]
              /\ FlattenSeq(ss) = f[n]
  BY FlattenTable
<1>4. PICK g \in [0 .. Len(t) -> Seq(X)] :
              /\ g[0] = <<>> /\ \A i \in 1 .. Len(t) : g[i] = g[i - 1] \o t[i]
              /\ FlattenSeq(t) = g[Len(t)]
  BY <1>2, FlattenTable
<1>5. \A i \in 0 .. n : g[i] = f[i]
  <2> DEFINE I == {i \in 0 .. n : g[i] = f[i]}
  <2>1. 0 \in I
    BY <1>2, <1>3, <1>4
  <2>2. ASSUME NEW i \in 1 .. n, i - 1 \in I PROVE i \in I
    <3>1. i \in 1 .. Len(t) /\ i \in 0 .. n
      BY <1>2
    <3> QED BY <1>2, <1>3, <1>4, <2>2, <3>1
  <2>3. \A i \in 0 .. n : i \in I
    <3> HIDE DEF n, I
    <3> QED BY <1>2, <2>1, <2>2, Induction
  <2> QED BY <2>3
<1>6. FlattenSeq(t) = g[n] \o s
  <2>1. PICK k : k = Len(t)
    OBVIOUS
  <2>2. k \in 1 .. k /\ k - 1 = n /\ t[k] = s
    BY <1>2, <2>1
  <2>3. g[k] = g[k - 1] \o t[k]
    BY <1>4, <2>1, <2>2
  <2> QED BY <1>4, <2>1, <2>2, <2>3
<1>7. n \in 0 .. n
  BY <1>2
<1> QED BY <1>1, <1>2, <1>3, <1>5, <1>7, <1>6

-----------------------------------------------------------------------------
(* What Chunk keeps and how long its chunks are. A builder is good if none *)
(* of its chunks, finished or not, is too long, and if it is empty when it *)
(* says so; what it has kept are the places of all its chunks.             *)

Place == Nat \X Nat

ChunkOf == [pieces : Seq(Place), len : Nat]

Builder == [chunks : Seq(ChunkOf), pieces : Seq(Place), len : Nat]

Bounded(c) == c.len <= MaxChunkSize + Separator \/ Len(c.pieces) = 1

GoodBuilder(b) == /\ b \in Builder
                  /\ b.len = 0 => b.pieces = <<>>
                  /\ Bounded(Current(b))
                  /\ \A c \in 1 .. Len(b.chunks) : Bounded(b.chunks[c])

Kept(b) == AllPieces(b.chunks) \o b.pieces

LEMMA PiecesOf ==
    ASSUME NEW cs \in Seq(ChunkOf)
    PROVE  LET ps == [k \in DOMAIN cs |-> cs[k].pieces] IN
           /\ ps \in Seq(Seq(Place)) /\ Len(ps) = Len(cs)
           /\ \A k \in 1 .. Len(cs) : ps[k] = cs[k].pieces
<1>1. PICK n \in Nat : n = Len(cs)
  OBVIOUS
<1>2. DOMAIN cs = 1 .. n
  BY <1>1
<1>3. ASSUME NEW k \in 1 .. n PROVE cs[k].pieces \in Seq(Place)
  <2>1. cs[k] \in ChunkOf
    BY <1>1
  <2> QED BY <2>1 DEF ChunkOf
<1>4. PICK ps : ps = [k \in 1 .. n |-> cs[k].pieces]
  OBVIOUS
<1>5. ps \in [1 .. n -> Seq(Place)] /\ \A k \in 1 .. n : ps[k] = cs[k].pieces
  BY <1>3, <1>4
<1>6. ps \in Seq(Seq(Place)) /\ Len(ps) = n
  BY <1>5
<1> QED BY <1>1, <1>2, <1>4, <1>5, <1>6

LEMMA PiecesAppend ==
    ASSUME NEW cs \in Seq(ChunkOf), NEW c \in ChunkOf
    PROVE  /\ AllPieces(cs) \in Seq(Place)
           /\ AllPieces(Append(cs, c)) = AllPieces(cs) \o c.pieces
<1>1. PICK ps : ps = [k \in DOMAIN cs |-> cs[k].pieces]
  OBVIOUS
<1>2. /\ ps \in Seq(Seq(Place)) /\ Len(ps) = Len(cs)
      /\ \A k \in 1 .. Len(cs) : ps[k] = cs[k].pieces
  BY <1>1, PiecesOf
<1>3. c.pieces \in Seq(Place)
  BY DEF ChunkOf
<1>4. PICK t : t = Append(cs, c)
  OBVIOUS
<1>5. [k \in DOMAIN t |-> t[k].pieces] = Append(ps, c.pieces)
  <2>1. PICK q : q = [k \in DOMAIN t |-> t[k].pieces]
    OBVIOUS
  <2>2. /\ t \in Seq(ChunkOf) /\ Len(t) = Len(cs) + 1 /\ t[Len(cs) + 1] = c /\ Len(cs) \in Nat
        /\ \A k \in 1 .. Len(cs) : t[k] = cs[k]
    BY <1>4
  <2>3. q \in Seq(Seq(Place)) /\ Len(q) = Len(cs) + 1 /\ \A k \in 1 .. Len(cs) + 1 : q[k] = t[k].pieces
    BY <2>1, <2>2, PiecesOf
  <2>4. PICK r : r = Append(ps, c.pieces)
    OBVIOUS
  <2>5. /\ r \in Seq(Seq(Place)) /\ Len(r) = Len(cs) + 1 /\ r[Len(cs) + 1] = c.pieces
        /\ \A k \in 1 .. Len(cs) : r[k] = ps[k]
    BY <1>2, <1>3, <2>4, AppendProperties
  <2>6. ASSUME NEW k \in 1 .. Len(cs) + 1 PROVE q[k] = r[k]
    <3>1. CASE k \in 1 .. Len(cs)
      <4>1. q[k] = t[k].pieces /\ t[k] = cs[k] /\ r[k] = ps[k] /\ ps[k] = cs[k].pieces
        BY <1>2, <2>2, <2>3, <2>5, <3>1
      <4> QED BY <4>1
    <3>2. CASE k = Len(cs) + 1
      BY <2>2, <2>3, <2>5, <3>2
    <3> QED BY <2>2, <3>1, <3>2
  <2>7. q = r
    BY <2>3, <2>5, <2>6, SeqEqual
  <2> QED BY <2>1, <2>4, <2>7
<1>6. FlattenSeq(ps) \in Seq(Place) /\ FlattenSeq(Append(ps, c.pieces)) = FlattenSeq(ps) \o c.pieces
  BY <1>2, <1>3, FlattenAppend
<1> QED BY <1>1, <1>4, <1>5, <1>6 DEF AllPieces

LEMMA KeptIsText == ASSUME NEW b \in Builder
                    PROVE  /\ AllPieces(b.chunks) \in Seq(Place) /\ b.pieces \in Seq(Place)
                           /\ Kept(b) \in Seq(Place)
<1>1. b.chunks \in Seq(ChunkOf) /\ b.pieces \in Seq(Place)
  BY DEF Builder
<1>2. [pieces |-> <<>>, len |-> 0] \in ChunkOf
  BY DEF ChunkOf
<1>3. AllPieces(b.chunks) \in Seq(Place)
  BY <1>1, <1>2, PiecesAppend
<1> QED BY <1>1, <1>3, ConcatProperties DEF Kept

\* A flush loses nothing, and leaves room or an empty builder.
LEMMA FlushKeeps ==
    ASSUME NEW b, GoodBuilder(b), NEW n \in Nat
    PROVE  /\ GoodBuilder(Flush(b, n)) /\ Kept(Flush(b, n)) = Kept(b)
           /\ \/ Flush(b, n).len + n <= MaxChunkSize
              \/ Flush(b, n).len = 0 /\ Flush(b, n).pieces = <<>>
<1>1. b \in Builder /\ b.chunks \in Seq(ChunkOf) /\ Current(b) \in ChunkOf /\ b.len \in Nat
  BY DEF GoodBuilder, Builder, ChunkOf, Current
<1>2. CASE b.len + n > MaxChunkSize /\ b.len > 0
  <2>1. PICK t : t = Append(b.chunks, Current(b))
    OBVIOUS
  <2>2. /\ t \in Seq(ChunkOf) /\ Len(t) = Len(b.chunks) + 1 /\ t[Len(b.chunks) + 1] = Current(b)
        /\ \A c \in 1 .. Len(b.chunks) : t[c] = b.chunks[c]
    BY <1>1, <2>1, AppendProperties
  <2>3. Flush(b, n) = [chunks |-> t, pieces |-> <<>>, len |-> 0]
    BY <1>2, <2>1 DEF Flush, Start
  <2>4. AllPieces(t) = AllPieces(b.chunks) \o b.pieces
    BY <1>1, <2>1, PiecesAppend DEF Current
  <2>5. Kept(Flush(b, n)) = Kept(b)
    <3>1. Kept(Flush(b, n)) = AllPieces(t) \o <<>>
      BY <2>3 DEF Kept
    <3>2. AllPieces(t) = Kept(b) /\ Kept(b) \in Seq(Place)
      BY <1>1, <2>4, KeptIsText DEF Kept
    <3> QED BY <3>1, <3>2, ConcatEmptySeq
  <2>6. Flush(b, n) \in Builder
    BY <2>2, <2>3 DEF Builder
  <2>7. Bounded(Current(Flush(b, n)))
    BY <2>3, ChunkerAssumption DEF Bounded, Current, Separator
  <2>8. ASSUME NEW c \in 1 .. Len(t) PROVE Bounded(t[c])
    <3>1. CASE c \in 1 .. Len(b.chunks)
      BY <2>2, <3>1 DEF GoodBuilder
    <3>2. CASE c = Len(b.chunks) + 1
      BY <2>2, <3>2 DEF GoodBuilder
    <3>3. Len(b.chunks) \in Nat
      BY <1>1
    <3> QED BY <2>2, <3>1, <3>2, <3>3
  <2> QED BY <2>3, <2>5, <2>6, <2>7, <2>8 DEF GoodBuilder
<1>3. CASE ~(b.len + n > MaxChunkSize /\ b.len > 0)
  <2>1. Flush(b, n) = b
    BY <1>3 DEF Flush
  <2>2. b.len + n <= MaxChunkSize \/ (b.len = 0 /\ b.pieces = <<>>)
    BY <1>1, <1>3, ChunkerAssumption DEF GoodBuilder
  <2> QED BY <2>1, <2>2
<1> QED BY <1>2, <1>3

\* A part that fits a chunk, or is a single sentence, is added and bounded.
LEMMA AddKeeps ==
    ASSUME NEW b, GoodBuilder(b), NEW places \in Seq(Place), NEW n \in Nat,
           n <= MaxChunkSize \/ Len(places) = 1
    PROVE  GoodBuilder(Add(b, places, n)) /\ Kept(Add(b, places, n)) = Kept(b) \o places
<1>1. PICK f : f = Flush(b, n)
  OBVIOUS
<1>2. /\ GoodBuilder(f) /\ Kept(f) = Kept(b)
      /\ f.len + n <= MaxChunkSize \/ (f.len = 0 /\ f.pieces = <<>>)
  BY <1>1, FlushKeeps
<1>3. /\ f \in Builder /\ f.chunks \in Seq(ChunkOf) /\ f.pieces \in Seq(Place) /\ f.len \in Nat
      /\ AllPieces(f.chunks) \in Seq(Place)
  BY <1>2, KeptIsText DEF GoodBuilder, Builder
<1>4. PICK w : w = Add(b, places, n)
  OBVIOUS
<1>5. w = [f EXCEPT !.pieces = f.pieces \o places, !.len = f.len + n + Separator]
  BY <1>1, <1>4 DEF Add, Write
<1>6. /\ w.chunks = f.chunks /\ w.pieces = f.pieces \o places /\ w.len = f.len + n + Separator
      /\ w \in Builder /\ w.len > 0
  <2>1. f.pieces \o places \in Seq(Place) /\ f.len + n + Separator \in Nat /\ f.len + n + Separator > 0
    BY <1>3, ConcatProperties DEF Separator
  <2> QED BY <1>3, <1>5, <2>1 DEF Builder
<1>7. Kept(w) = Kept(f) \o places
  <2>1. PICK x \in Seq(Place) : x = AllPieces(f.chunks)
    BY <1>3
  <2>2. PICK y \in Seq(Place) : y = f.pieces
    BY <1>3
  <2>3. x \o (y \o places) = (x \o y) \o places
    BY ConcatAssociative
  <2>4. Kept(w) = x \o (y \o places) /\ Kept(f) = x \o y
    BY <1>6, <2>1, <2>2 DEF Kept
  <2> QED BY <2>3, <2>4
<1>8. Bounded(Current(w))
  <2>1. CASE f.len + n <= MaxChunkSize
    BY <1>3, <1>6, <2>1, ChunkerAssumption DEF Bounded, Current, Separator
  <2>2. CASE f.len = 0 /\ f.pieces = <<>>
    <3>1. w.pieces = places /\ w.len = n + Separator
      BY <1>6, <2>2, ConcatEmptySeq DEF Separator
    <3> QED BY <3>1, ChunkerAssumption DEF Bounded, Current, Separator
  <2> QED BY <1>2, <2>1, <2>2
<1>9. GoodBuilder(w)
  BY <1>2, <1>6, <1>8 DEF GoodBuilder
<1> QED BY <1>2, <1>4, <1>7, <1>9

Paragraph == Seq(Nat) \ {<<>>}
Text == Seq(Paragraph) \ {<<>>}

\* The good builders are what the loops of Chunk range over.
GoodBuilders == {b \in Builder : GoodBuilder(b)}

LEMMA JoinAgain ==
    ASSUME NEW x \in Seq(Place), NEW y \in Seq(Place), NEW z \in Seq(Place)
    PROVE  (x \o y) \o z = x \o (y \o z)
BY ConcatAssociative

\* The first s sentences of paragraph p.
Sentences(p, s) == [j \in 1 .. s |-> <<p, j>>]

LEMMA OneSentence ==
    ASSUME NEW p \in Nat, NEW s \in Nat \ {0}
    PROVE  /\ Sentences(p, s - 1) \in Seq(Place) /\ <<<<p, s>>>> \in Seq(Place)
           /\ Sentences(p, s) = Sentences(p, s - 1) \o <<<<p, s>>>>
<1>1. ASSUME NEW t \in Nat
      PROVE  /\ Sentences(p, t) \in Seq(Place) /\ Len(Sentences(p, t)) = t
             /\ \A j \in 1 .. t : Sentences(p, t)[j] = <<p, j>>
  <2>1. \A j \in 1 .. t : <<p, j>> \in Place
    BY DEF Place
  <2>2. Sentences(p, t) \in [1 .. t -> Place]
    BY <2>1 DEF Sentences
  <2> QED BY <2>2 DEF Sentences
<1>2. <<p, s>> \in Place
  BY DEF Place
<1>3. PICK a \in Seq(Place) : a = Sentences(p, s - 1)
  BY <1>1
<1>4. PICK c \in Seq(Place) : c = Sentences(p, s)
  BY <1>1
<1>5. PICK d : d = Append(a, <<p, s>>)
  OBVIOUS
<1>6. /\ d \in Seq(Place) /\ Len(d) = Len(a) + 1 /\ d[Len(a) + 1] = <<p, s>>
      /\ \A j \in 1 .. Len(a) : d[j] = a[j]
  BY <1>2, <1>5, AppendProperties
<1>7. Len(a) = s - 1 /\ \A j \in 1 .. s - 1 : a[j] = <<p, j>>
  <2>1. PICK t \in Nat : t = s - 1
    OBVIOUS
  <2> QED BY <1>1, <1>3, <2>1
<1>8. Len(c) = s /\ \A j \in 1 .. s : c[j] = <<p, j>>
  BY <1>1, <1>4
<1>9. ASSUME NEW j \in 1 .. s PROVE c[j] = d[j]
  <2>1. CASE j \in 1 .. s - 1
    <3>1. j \in 1 .. Len(a)
      BY <1>7, <2>1
    <3> QED BY <1>6, <1>7, <1>8, <2>1, <3>1
  <2>2. CASE j = s
    <3>1. Len(a) + 1 = s
      BY <1>7
    <3> QED BY <1>6, <1>8, <2>2, <3>1
  <2> QED BY <2>1, <2>2
<1>10. c = d
  BY <1>6, <1>7, <1>8, <1>9, SeqEqual
<1>11. d = a \o <<<<p, s>>>>
  BY <1>2, <1>5, AppendIsConcat
<1>12. <<<<p, s>>>> \in Seq(Place)
  BY <1>2
<1> QED BY <1>3, <1>4, <1>10, <1>11, <1>12

LEMMA ParagraphFacts ==
    ASSUME NEW text \in Text, NEW p \in 1 .. Len(text)
    PROVE  /\ text[p] \in Seq(Nat) /\ Len(text[p]) \in Nat \ {0} /\ Joined(text[p]) \in Nat
           /\ \A s \in 1 .. Len(text[p]) : text[p][s] \in Nat
           /\ Places(text, p) = Sentences(p, Len(text[p])) /\ Places(text, p) \in Seq(Place)
<1>1. text[p] \in Seq(Nat) \ {<<>>} /\ p \in Nat
  BY DEF Text, Paragraph
<1>2. Joined(text[p]) \in Nat
  BY <1>1, JoinedIsNatural
<1>3. Len(text[p]) \in Nat \ {0} /\ DOMAIN text[p] = 1 .. Len(text[p])
  BY <1>1
<1>4. Places(text, p) = Sentences(p, Len(text[p]))
  BY <1>3 DEF Places, Sentences
<1>5. Sentences(p, Len(text[p])) \in Seq(Place)
  <2>1. \A j \in 1 .. Len(text[p]) : <<p, j>> \in Place
    BY <1>1, <1>3 DEF Place
  <2>2. Sentences(p, Len(text[p])) \in [1 .. Len(text[p]) -> Place]
    BY <2>1 DEF Sentences
  <2> QED BY <1>3, <2>2
<1> QED BY <1>1, <1>2, <1>3, <1>4, <1>5

\* Sentence by sentence or as a whole, a paragraph is kept.
LEMMA ParagraphKeeps ==
    ASSUME NEW text \in Text, NEW p \in 1 .. Len(text), NEW b, GoodBuilder(b)
    PROVE  /\ GoodBuilder(AddParagraph(text, b, p))
           /\ Kept(AddParagraph(text, b, p)) = Kept(b) \o Places(text, p)
<1> DEFINE n == Len(text[p])
           size == Joined(text[p])
<1>1. /\ n \in Nat \ {0} /\ size \in Nat /\ \A s \in 1 .. n : text[p][s] \in Nat
      /\ Places(text, p) = Sentences(p, n) /\ Places(text, p) \in Seq(Place) /\ p \in Nat
  BY ParagraphFacts
<1>2. CASE size <= MaxChunkSize
  <2>1. AddParagraph(text, b, p) = Add(b, Places(text, p), size)
    <3>1. ~(size > MaxChunkSize)
      BY <1>1, <1>2, ChunkerAssumption
    <3> QED BY <3>1 DEF AddParagraph
  <2> HIDE DEF size, n
  <2> QED BY <1>1, <1>2, <2>1, AddKeeps
<1>3. CASE size > MaxChunkSize
  <2>1. PICK base : base = Flush(b, size)
    OBVIOUS
  <2>2. GoodBuilder(base) /\ Kept(base) = Kept(b)
    BY <1>1, <2>1, FlushKeeps
  <2> DEFINE Op(c, s) == Add(c, <<<<p, s>>>>, text[p][s])
             step == [s \in 1 .. n |-> [c \in GoodBuilders |-> Op(c, s)]]
             Rec(f) == f = [i \in 0 .. n |-> IF i = 0 THEN base ELSE Op(f[i - 1], i)]
  <2>3. ASSUME NEW s \in 1 .. n, NEW c, GoodBuilder(c)
        PROVE  GoodBuilder(Op(c, s)) /\ Kept(Op(c, s)) = Kept(c) \o <<<<p, s>>>>
    <3>1. <<<<p, s>>>> \in Seq(Place) /\ Len(<<<<p, s>>>>) = 1
      <4>1. <<p, s>> \in Place
        BY <1>1 DEF Place
      <4> QED BY <4>1
    <3>2. text[p][s] \in Nat
      BY <1>1
    <3> QED BY <2>3, <3>1, <3>2, AddKeeps
  <2>4. PICK f \in [0 .. n -> GoodBuilders] : Table(f, n, base, step)
    <3>1. base \in GoodBuilders
      BY <2>2 DEF GoodBuilders, GoodBuilder
    <3>2. \A s \in 1 .. n : \A c \in GoodBuilders : Op(c, s) \in GoodBuilders
      <4> HIDE DEF Op
      <4> QED BY <2>3 DEF GoodBuilders, GoodBuilder
    <3>3. step \in [1 .. n -> [GoodBuilders -> GoodBuilders]]
      <4> HIDE DEF Op, n
      <4> QED BY <3>2
    <3> HIDE DEF n, step
    <3> QED BY <1>1, <3>1, <3>3, Iteration
  <2>5. \A i \in 1 .. n : f[i] = Op(f[i - 1], i)
    <3> HIDE DEF Op
    <3>1. ASSUME NEW i \in 1 .. n PROVE step[i][f[i - 1]] = Op(f[i - 1], i)
      <4>1. i - 1 \in 0 .. n
        BY <1>1
      <4>2. f[i - 1] \in GoodBuilders
        <5> HIDE DEF n
        <5> QED BY <2>4, <4>1
      <4> HIDE DEF n
      <4> QED BY <4>2
    <3> HIDE DEF step, n
    <3> QED BY <2>4, <3>1 DEF Table
  <2>6. Rec(f)
    <3>1. \A i \in 0 .. n : i = 0 \/ i \in 1 .. n
      BY <1>1
    <3> HIDE DEF Op, step, n
    <3> QED BY <2>4, <2>5, <3>1 DEF Table
  <2>7. PICK g : g = CHOOSE h : Rec(h)
    OBVIOUS
  <2>8. Rec(g)
    <3> HIDE DEF Rec
    <3> QED BY <2>6, <2>7
  <2>9. AddParagraph(text, b, p) = g[n]
    <3>1. AddParagraph(text, b, p) = Loop(LAMBDA c, s : Add(c, <<<<p, s>>>>, text[p][s]), base, n)
      BY <1>3, <2>1 DEF AddParagraph
    <3> QED BY <2>7, <3>1 DEF Loop
  <2>10. \A i \in 0 .. n : GoodBuilder(g[i]) /\ Kept(g[i]) = Kept(b) \o Sentences(p, i)
    <3> DEFINE I == {i \in 0 .. n : GoodBuilder(g[i]) /\ Kept(g[i]) = Kept(b) \o Sentences(p, i)}
    <3> HIDE DEF Op
    <3>0. Kept(b) \in Seq(Place)
      BY KeptIsText DEF GoodBuilder
    <3>1. 0 \in I
      <4>1. g[0] = base
        BY <1>1, <2>8
      <4>2. Sentences(p, 0) = <<>>
        BY DEF Sentences
      <4>3. Kept(b) \o <<>> = Kept(b)
        BY <3>0, ConcatEmptySeq
      <4>4. 0 \in 0 .. n
        BY <1>1
      <4> HIDE DEF n
      <4> QED BY <2>2, <4>1, <4>2, <4>3, <4>4
    <3>2. ASSUME NEW i \in 1 .. n, i - 1 \in I PROVE i \in I
      <4>0. i \in 0 .. n /\ i \in Nat \ {0} /\ i # 0
        BY <1>1
      <4>1. g[i] = Op(g[i - 1], i) /\ i \in 0 .. n /\ i \in Nat \ {0}
        <5> HIDE DEF n
        <5> QED BY <2>8, <4>0
      <4>2. GoodBuilder(g[i - 1]) /\ Kept(g[i - 1]) = Kept(b) \o Sentences(p, i - 1)
        BY <3>2
      <4>3. GoodBuilder(g[i]) /\ Kept(g[i]) = (Kept(b) \o Sentences(p, i - 1)) \o <<<<p, i>>>>
        <5> HIDE DEF n
        <5> QED BY <2>3, <4>1, <4>2
      <4>4. /\ Sentences(p, i - 1) \in Seq(Place) /\ <<<<p, i>>>> \in Seq(Place)
            /\ Sentences(p, i) = Sentences(p, i - 1) \o <<<<p, i>>>>
        BY <1>1, <4>1, OneSentence
      <4>5. Kept(g[i]) = Kept(b) \o Sentences(p, i)
        <5>1. PICK x \in Seq(Place) : x = Kept(b)
          BY <3>0
        <5>2. PICK y \in Seq(Place) : y = Sentences(p, i - 1)
          BY <4>4
        <5>3. PICK z \in Seq(Place) : z = <<<<p, i>>>>
          BY <4>4
        <5>4. (x \o y) \o z = x \o (y \o z)
          BY JoinAgain
        <5> QED BY <4>3, <4>4, <5>1, <5>2, <5>3, <5>4
      <4> HIDE DEF n
      <4> QED BY <4>1, <4>3, <4>5
    <3>3. \A i \in 0 .. n : i \in I
      <4> HIDE DEF n, I
      <4> QED BY <1>1, <3>1, <3>2, Induction
    <3> QED BY <3>3
  <2>11. n \in 0 .. n
    BY <1>1
  <2> HIDE DEF n, size
  <2> QED BY <1>1, <2>9, <2>10, <2>11
<1>4. size <= MaxChunkSize \/ size > MaxChunkSize
  BY <1>1, ChunkerAssumption
<1> QED BY <1>2, <1>3, <1>4

\* The places of a text, paragraph after paragraph.
LEMMA TextTable ==
    ASSUME NEW text \in Text
    PROVE  \E f \in [0 .. Len(text) -> Seq(Place)] :
              /\ f[0] = <<>> /\ \A p \in 1 .. Len(text) : f[p] = f[p - 1] \o Places(text, p)
              /\ AllPlaces(text) = f[Len(text)]
<1>1. PICK n \in Nat : n = Len(text) /\ DOMAIN text = 1 .. n
  BY DEF Text
<1>2. PICK ss : ss = [p \in 1 .. n |-> Places(text, p)]
  OBVIOUS
<1>3. ss \in [1 .. n -> Seq(Place)] /\ \A p \in 1 .. n : ss[p] = Places(text, p)
  BY <1>1, <1>2, ParagraphFacts
<1>4. ss \in Seq(Seq(Place)) /\ Len(ss) = n
  BY <1>3
<1>5. AllPlaces(text) = FlattenSeq(ss)
  BY <1>1, <1>2 DEF AllPlaces
<1>6. PICK f \in [0 .. Len(ss) -> Seq(Place)] :
              /\ f[0] = <<>> /\ \A i \in 1 .. Len(ss) : f[i] = f[i - 1] \o ss[i]
              /\ FlattenSeq(ss) = f[Len(ss)]
  BY <1>4, FlattenTable
<1>7. /\ f \in [0 .. n -> Seq(Place)] /\ f[0] = <<>>
      /\ \A p \in 1 .. n : f[p] = f[p - 1] \o Places(text, p)
      /\ AllPlaces(text) = f[n]
  BY <1>3, <1>4, <1>5, <1>6
<1> QED BY <1>1, <1>7

LEMMA TextIsLong == ASSUME NEW text \in Text
                    PROVE  TextLen(text) \in Nat /\ AllPlaces(text) \in Seq(Place)
<1>1. PICK n \in Nat \ {0} : n = Len(text) /\ DOMAIN text = 1 .. n
  BY DEF Text
<1>2. PICK ls : ls = [p \in 1 .. n |-> Joined(text[p])]
  OBVIOUS
<1>3. ls \in [1 .. n -> Nat]
  BY <1>1, <1>2, ParagraphFacts
<1>4. ls \in Seq(Nat) \ {<<>>}
  BY <1>3
<1>5. TextLen(text) = Joined(ls)
  BY <1>1, <1>2 DEF TextLen
<1>6. AllPlaces(text) \in Seq(Place)
  <2>1. PICK f \in [0 .. Len(text) -> Seq(Place)] : AllPlaces(text) = f[Len(text)]
    BY TextTable
  <2> QED BY <1>1, <2>1
<1> QED BY <1>4, <1>5, <1>6, JoinedIsNatural

\* The builder after the last paragraph.
Built(text) == Loop(LAMBDA c, p : AddParagraph(text, c, p), Start, Len(text))

LEMMA BuiltKeeps == ASSUME NEW text \in Text
                    PROVE  GoodBuilder(Built(text)) /\ Kept(Built(text)) = AllPlaces(text)
<1> DEFINE Op(c, p) == AddParagraph(text, c, p)
<1>1. PICK n \in Nat : n = Len(text)
  BY DEF Text
<1> DEFINE step == [p \in 1 .. n |-> [c \in GoodBuilders |-> Op(c, p)]]
           Rec(f) == f = [i \in 0 .. n |-> IF i = 0 THEN Start ELSE Op(f[i - 1], i)]
<1>2. GoodBuilder(Start) /\ Kept(Start) = <<>>
  <2>1. Start \in Builder
    BY DEF Start, Builder
  <2>2. Bounded(Current(Start))
    BY ChunkerAssumption DEF Start, Current, Bounded, Separator
  <2>3. Kept(Start) = <<>>
    <3>1. [k \in DOMAIN <<>> |-> (<<>>)[k].pieces] = <<>>
      OBVIOUS
    <3>2. FlattenSeq(<<>>) = <<>>
      BY DEF FlattenSeq
    <3> QED BY <3>1, <3>2 DEF Kept, AllPieces, Start
  <2> QED BY <2>1, <2>2, <2>3 DEF GoodBuilder, Start
<1>3. ASSUME NEW p \in 1 .. n, NEW c, GoodBuilder(c)
      PROVE  GoodBuilder(Op(c, p)) /\ Kept(Op(c, p)) = Kept(c) \o Places(text, p)
  BY <1>1, <1>3, ParagraphKeeps
<1> HIDE DEF Op
<1>4. PICK f \in [0 .. n -> GoodBuilders] : Table(f, n, Start, step)
  <2>1. Start \in GoodBuilders
    BY <1>2 DEF GoodBuilders, GoodBuilder
  <2>2. \A p \in 1 .. n : \A c \in GoodBuilders : Op(c, p) \in GoodBuilders
    BY <1>3 DEF GoodBuilders, GoodBuilder
  <2>3. step \in [1 .. n -> [GoodBuilders -> GoodBuilders]]
    BY <2>2
  <2> HIDE DEF step
  <2> QED BY <1>1, <2>1, <2>3, Iteration
<1>5. \A i \in 1 .. n : f[i] = Op(f[i - 1], i)
  <2>1. ASSUME NEW i \in 1 .. n PROVE step[i][f[i - 1]] = Op(f[i - 1], i)
    <3>1. f[i - 1] \in GoodBuilders
      BY <1>4
    <3> QED BY <3>1
  <2> HIDE DEF step
  <2> QED BY <1>4, <2>1 DEF Table
<1>6. Rec(f)
  <2>1. \A i \in 0 .. n : i = 0 \/ i \in 1 .. n
    OBVIOUS
  <2> HIDE DEF step
  <2> QED BY <1>4, <1>5, <2>1 DEF Table
<1>7. PICK g : g = CHOOSE h : Rec(h)
  OBVIOUS
<1>8. Rec(g)
  <2> HIDE DEF Rec
  <2> QED BY <1>6, <1>7
<1>9. Built(text) = g[n]
  BY <1>1, <1>7 DEF Built, Loop, Op
<1>10. PICK t \in [0 .. n -> Seq(Place)] :
              /\ t[0] = <<>> /\ \A p \in 1 .. n : t[p] = t[p - 1] \o Places(text, p)
              /\ AllPlaces(text) = t[n]
  BY <1>1, TextTable
<1>11. \A i \in 0 .. n : GoodBuilder(g[i]) /\ Kept(g[i]) = t[i]
  <2> DEFINE I == {i \in 0 .. n : GoodBuilder(g[i]) /\ Kept(g[i]) = t[i]}
  <2>1. 0 \in I
    <3>1. g[0] = Start
      BY <1>8
    <3> QED BY <1>2, <1>10, <3>1
  <2>2. ASSUME NEW i \in 1 .. n, i - 1 \in I PROVE i \in I
    <3>1. i \in 0 .. n /\ i # 0
      OBVIOUS
    <3>2. g[i] = Op(g[i - 1], i)
      BY <1>8, <3>1
    <3>3. GoodBuilder(g[i - 1]) /\ Kept(g[i - 1]) = t[i - 1]
      BY <2>2
    <3>4. GoodBuilder(g[i]) /\ Kept(g[i]) = t[i - 1] \o Places(text, i)
      BY <1>3, <3>2, <3>3
    <3> QED BY <1>10, <3>1, <3>4
  <2>3. \A i \in 0 .. n : i \in I
    <3> HIDE DEF I
    <3> QED BY <2>1, <2>2, Induction
  <2> QED BY <2>3
<1> QED BY <1>9, <1>10, <1>11

\* mapreduce.go, Chunk: for every text, nothing is lost, repeated or moved, and
\* only a single sentence can be longer than the limit and a separator.
LEMMA ChunkKeeps ==
    ASSUME NEW text \in Text
    PROVE  /\ AllPieces(Chunk(text)) = AllPlaces(text)
           /\ \A c \in DOMAIN Chunk(text) : Bounded(Chunk(text)[c])
<1>1. TextLen(text) \in Nat /\ AllPlaces(text) \in Seq(Place)
  BY TextIsLong
<1>2. CASE TextLen(text) <= MaxChunkSize
  <2>1. PICK c : c = [pieces |-> AllPlaces(text), len |-> TextLen(text)]
    OBVIOUS
  <2>2. c \in ChunkOf /\ c.pieces = AllPlaces(text) /\ Bounded(c)
    BY <1>1, <1>2, <2>1, ChunkerAssumption DEF ChunkOf, Bounded, Separator
  <2>3. Chunk(text) = <<c>>
    BY <1>2, <2>1 DEF Chunk
  <2>4. AllPieces(<<>>) = <<>>
    <3>1. [k \in DOMAIN <<>> |-> (<<>>)[k].pieces] = <<>>
      OBVIOUS
    <3>2. FlattenSeq(<<>>) = <<>>
      BY DEF FlattenSeq
    <3> QED BY <3>1, <3>2 DEF AllPieces
  <2>5. <<c>> = Append(<<>>, c) /\ <<>> \in Seq(ChunkOf)
    OBVIOUS
  <2>6. AllPieces(<<c>>) = <<>> \o c.pieces
    BY <2>2, <2>4, <2>5, PiecesAppend
  <2>7. AllPieces(<<c>>) = AllPlaces(text)
    BY <1>1, <2>2, <2>6, ConcatEmptySeq
  <2>8. \A k \in DOMAIN <<c>> : (<<c>>)[k] = c
    OBVIOUS
  <2> QED BY <2>2, <2>3, <2>7, <2>8
<1>3. CASE ~(TextLen(text) <= MaxChunkSize)
  <2>1. PICK b : b = Built(text)
    OBVIOUS
  <2>2. GoodBuilder(b) /\ Kept(b) = AllPlaces(text)
    BY <2>1, BuiltKeeps
  <2>3. /\ b \in Builder /\ b.chunks \in Seq(ChunkOf) /\ Current(b) \in ChunkOf /\ b.len \in Nat
        /\ AllPieces(b.chunks) \in Seq(Place)
    BY <2>2, KeptIsText DEF GoodBuilder, Builder, ChunkOf, Current
  <2>4. Chunk(text) = IF b.len > 0 THEN Append(b.chunks, Current(b)) ELSE b.chunks
    BY <1>3, <2>1 DEF Chunk, Built
  <2>5. CASE b.len > 0
    <3>1. PICK t : t = Append(b.chunks, Current(b))
      OBVIOUS
    <3>2. /\ t \in Seq(ChunkOf) /\ Len(t) = Len(b.chunks) + 1 /\ t[Len(b.chunks) + 1] = Current(b)
          /\ \A c \in 1 .. Len(b.chunks) : t[c] = b.chunks[c]
      BY <2>3, <3>1, AppendProperties
    <3>3. AllPieces(t) = AllPlaces(text)
      BY <2>2, <2>3, <3>1, PiecesAppend DEF Kept, Current
    <3>4. ASSUME NEW c \in 1 .. Len(t) PROVE Bounded(t[c])
      <4>1. CASE c \in 1 .. Len(b.chunks)
        BY <2>2, <3>2, <4>1 DEF GoodBuilder
      <4>2. CASE c = Len(b.chunks) + 1
        BY <2>2, <3>2, <4>2 DEF GoodBuilder
      <4>3. Len(b.chunks) \in Nat
        BY <2>3
      <4> QED BY <3>2, <4>1, <4>2, <4>3
    <3>5. DOMAIN t = 1 .. Len(t) /\ Chunk(text) = t
      BY <2>4, <2>5, <3>1, <3>2
    <3> QED BY <3>3, <3>4, <3>5
  <2>6. CASE ~(b.len > 0)
    <3>1. b.len = 0 /\ b.pieces = <<>> /\ Chunk(text) = b.chunks
      BY <2>2, <2>3, <2>4, <2>6 DEF GoodBuilder
    <3>2. AllPieces(b.chunks) = AllPlaces(text)
      BY <2>2, <2>3, <3>1, ConcatEmptySeq DEF Kept
    <3>3. DOMAIN b.chunks = 1 .. Len(b.chunks)
      BY <2>3
    <3> QED BY <2>2, <3>1, <3>2, <3>3 DEF GoodBuilder
  <2> QED BY <2>5, <2>6
<1> QED BY <1>2, <1>3

\* The handler works on what Chunk made of the topic it was sent.
SplitInv == /\ topic \in Topics
            /\ chunks = IF pc = "chunk" THEN <<>> ELSE Chunk(topic)

LEMMA SplitInvariance == Spec => []SplitInv
<1>1. Init => SplitInv
  BY DEF Init, SplitInv
<1>2. SplitInv /\ [Next]_vars => SplitInv'
  <2> SUFFICES ASSUME SplitInv, [Next]_vars PROVE SplitInv'
    OBVIOUS
  <2>1. CASE Split
    BY <2>1 DEF Split, NextRound, SplitInv
  <2>2. CASE Handler /\ ~Split
    BY <2>2 DEF Handler, Compile, CompileFails, AttemptFails, TryAgain, Refused, Answer, Verify,
       Log, Finish, NextRound, Fault, job, SplitInv
  <2>3. CASE HangUp \/ UNCHANGED vars
    BY <2>3 DEF HangUp, job, vars, SplitInv
  <2> QED BY <2>1, <2>2, <2>3 DEF Next
<1> QED BY <1>1, <1>2, PTL DEF Spec

\* Every chunk of every request together are the topic, whatever its text.
THEOREM TextIsKept == Spec => []ChunksKeepTheText
<1>1. SplitInv => ChunksKeepTheText
  BY ChunkKeeps, TopicsAssumption DEF SplitInv, ChunksKeepTheText, Text, Paragraph
<1> QED BY <1>1, SplitInvariance, PTL

\* No chunk but a single sentence is longer than the limit and a separator.
THEOREM BoundedChunks == Spec => []ChunksAreBounded
<1>1. SplitInv => ChunksAreBounded
  BY ChunkKeeps, TopicsAssumption DEF SplitInv, ChunksAreBounded, Bounded, Text, Paragraph
<1> QED BY <1>1, SplitInvariance, PTL
=============================================================================
