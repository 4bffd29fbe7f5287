----------------------------- MODULE Curriculum -----------------------------
(***************************************************************************)
(* One request to generate a curriculum (internal/ports/ai_http.go): the   *)
(* topic is cut into chunks, and for each chunk in turn sources are        *)
(* retrieved (rag.go), the model is asked (adapters/llm/client.go), its    *)
(* answer is verified (verification.go), and the outcome is logged in one  *)
(* transaction.  The retrieval, the model, the database and the client may *)
(* fail at any point.                                                      *)
(*                                                                         *)
(* A verse stands for its citation.  The regular expression that finds     *)
(* citations allows letters and spaces in the name of a book, so it does   *)
(* not see those of numbered books ("[1 John 4:8]").                       *)
(***************************************************************************)
EXTENDS Chunker

CONSTANTS Verses,          \* citations
          Numbered,        \* those of books whose name begins with a number
          Topics,          \* texts a client may send
          MaxRetries       \* of LLMClient

ASSUME CurriculumAssumption == /\ Numbered \subseteq Verses
                               /\ MaxRetries \in Nat

\* strings.Split returns one part at least, of a text and of a paragraph.
ASSUME TopicsAssumption == Topics \subseteq Seq(Seq(Nat) \ {<<>>}) \ {<<>>}

VARIABLES topic,           \* the request
          pc,              \* the step the handler is at
          chunks,          \* what Chunk made of the topic
          round,           \* the chunk it is working on
          sources,         \* compiledContext of each round so far
          draft,           \* the model's answer: the citations in it
          curriculum,      \* the answers accepted so far
          attempt,         \* retries in this round
          asked,           \* how often the model got the prompt in this round
          outcome,         \* the status the handler is about to log
          logs,            \* rows of ai_request_logs with their citation_trails
          gone,            \* the client has hung up: r.Context() is cancelled
          reply            \* "none", "ok" or "fault"

job == <<topic, chunks>>
model == <<attempt, asked>>
vars == <<job, pc, round, sources, draft, curriculum, model, outcome, logs, gone, reply>>

\* What citationRegex and auditCitationRegex find.
Recognized(citations) == citations \ Numbered

Row == [chunk : Nat \ {0}, status : {"succeeded", "failed"}, cited : SUBSET Verses]

TypeOK ==
    /\ topic \in Topics
    /\ pc \in {"chunk", "compile", "ask", "verify", "log", "done"}
    /\ round \in Nat
    /\ sources \in Seq(SUBSET Verses)
    /\ draft \subseteq Verses
    /\ curriculum \in Seq(SUBSET Verses)
    /\ attempt \in 0..MaxRetries
    /\ asked \in Nat
    /\ outcome \in {"succeeded", "failed"}
    /\ logs \in Seq(Row)
    /\ gone \in BOOLEAN
    /\ reply \in {"none", "ok", "fault"}

Init ==
    /\ topic \in Topics
    /\ pc = "chunk"
    /\ chunks = <<>>
    /\ round = 0
    /\ sources = <<>>
    /\ draft = {}
    /\ curriculum = <<>>
    /\ attempt = 0
    /\ asked = 0
    /\ outcome = "failed"
    /\ logs = <<>>
    /\ gone = FALSE
    /\ reply = "none"

\* The handler logs a failure and answers with it.
Fault == pc' = "log" /\ outcome' = "failed"

NextRound == round' = round + 1 /\ pc' = "compile"
-----------------------------------------------------------------------------
Split ==
    /\ pc = "chunk"
    /\ chunks' = Chunk(topic)
    /\ NextRound
    /\ UNCHANGED <<topic, sources, draft, curriculum, model, outcome, logs, gone, reply>>

\* CompileContext found sources for this chunk, and performRequest begins.
Compile(found) ==
    /\ pc = "compile" /\ ~gone
    /\ found # {}
    /\ sources' = Append(sources, found)
    /\ pc' = "ask"
    /\ attempt' = 0
    /\ asked' = 0
    /\ UNCHANGED <<job, round, draft, curriculum, outcome, logs, gone, reply>>

\* The chunk is refused as an injection, the embedding or the search fails, or
\* nothing is found.
CompileFails ==
    /\ pc = "compile"
    /\ Fault
    /\ UNCHANGED <<job, round, sources, draft, curriculum, model, logs, gone, reply>>
-----------------------------------------------------------------------------
(* performRequest: every attempt passes the same http.Request on.  Its     *)
(* body is at its end after the first one, and net/http may fail, rewind   *)
(* it, or send it empty, so an attempt can have any result.                *)

\* Mutant: one attempt too many.
TryOnceMore == IF attempt <= MaxRetries
               THEN attempt' = attempt + 1 /\ UNCHANGED <<pc, outcome>>
               ELSE UNCHANGED attempt /\ Fault

TryAgain == IF attempt < MaxRetries
            THEN attempt' = attempt + 1 /\ UNCHANGED <<pc, outcome>>
            ELSE UNCHANGED attempt /\ Fault

\* The prompt reaches the model.
Received == ~gone /\ asked' = asked + 1

\* HTTPClient.Do fails: the connection broke or timed out, before or after the
\* prompt was received, or the context is cancelled.
AttemptFails ==
    /\ pc = "ask"
    /\ Received \/ UNCHANGED asked
    /\ TryAgain
    /\ UNCHANGED <<job, round, sources, draft, curriculum, logs, gone, reply>>

\* No API key, an HTTP error, broken JSON or no choice: not retried.
Refused ==
    /\ pc = "ask"
    /\ Received \/ UNCHANGED asked
    /\ Fault
    /\ UNCHANGED <<job, round, sources, draft, curriculum, attempt, logs, gone, reply>>

Answer(cited) ==
    /\ pc = "ask"
    /\ Received
    /\ draft' = cited
    /\ pc' = "verify"
    /\ UNCHANGED <<job, round, sources, curriculum, attempt, outcome, logs, gone, reply>>
-----------------------------------------------------------------------------
\* Mutant: citations of earlier chunks are good enough.
VerifiedByAny == /\ Recognized(draft) # {}
                 /\ Recognized(draft) \subseteq UNION ToSet(sources)

\* ResponseVerificationSubsystem.Verify
Verified == /\ Recognized(draft) # {}
            /\ Recognized(draft) \subseteq sources[round]

Verify ==
    /\ pc = "verify"
    /\ IF Verified
       THEN /\ curriculum' = Append(curriculum, draft)
            /\ pc' = "log"
            /\ outcome' = "succeeded"
       ELSE Fault /\ UNCHANGED curriculum
    /\ UNCHANGED <<job, round, sources, draft, model, logs, gone, reply>>

\* One transaction: the row with all its citations, or nothing, and no error
\* either way.
WriteLog ==
    \/ UNCHANGED logs
    \/ /\ ~gone
       /\ logs' = Append(logs, [chunk |-> round, status |-> outcome,
                                cited |-> IF outcome = "succeeded"
                                          THEN Recognized(draft) ELSE {}])

\* Mutant: a failed chunk is skipped.
FinishSkipping == IF round = Len(chunks)
                  THEN pc' = "done" /\ reply' = "ok" /\ UNCHANGED round
                  ELSE NextRound /\ UNCHANGED reply

\* Mutant: a cancelled chunk is taken up again.
FinishAgain == IF outcome = "failed" /\ gone
               THEN pc' = "compile" /\ UNCHANGED <<round, reply>>
               ELSE IF outcome = "failed"
               THEN pc' = "done" /\ reply' = "fault" /\ UNCHANGED round
               ELSE IF round = Len(chunks)
               THEN pc' = "done" /\ reply' = "ok" /\ UNCHANGED round
               ELSE NextRound /\ UNCHANGED reply

Finish == IF outcome = "failed"
          THEN pc' = "done" /\ reply' = "fault" /\ UNCHANGED round
          ELSE IF round = Len(chunks)
          THEN pc' = "done" /\ reply' = "ok" /\ UNCHANGED round
          ELSE NextRound /\ UNCHANGED reply

\* writeAIRequestLog, and then the next chunk or the reply.
Log ==
    /\ pc = "log"
    /\ WriteLog
    /\ Finish
    /\ UNCHANGED <<job, sources, draft, curriculum, model, outcome, gone>>

HangUp ==
    /\ pc # "done" /\ ~gone
    /\ gone' = TRUE
    /\ UNCHANGED <<job, pc, round, sources, draft, curriculum, model, outcome, logs, reply>>
-----------------------------------------------------------------------------
Handler == \/ Split \/ CompileFails \/ AttemptFails \/ Refused \/ Verify \/ Log
           \/ \E vs \in SUBSET Verses : Compile(vs) \/ Answer(vs)

Next == Handler \/ HangUp

Spec == Init /\ [][Next]_vars

\* Calls to the model have a timeout; the scripture engine and the database are
\* assumed to answer or to fail.
FairSpec == Spec /\ WF_vars(Handler)
-----------------------------------------------------------------------------
AllPieces(cs) == FlattenSeq([c \in DOMAIN cs |-> cs[c].pieces])

\* However paragraphs and sentences fall, chunks carry the whole text in its
\* order, each part once.
ChunksKeepTheText == pc # "chunk" => AllPieces(chunks) = AllPlaces(topic)

\* A chunk exceeds the limit by at most one separator, unless it is a single
\* sentence that is too long by itself.
ChunksAreBounded ==
    \A c \in DOMAIN chunks : \/ chunks[c].len <= MaxChunkSize + Separator
                             \/ Len(chunks[c].pieces) = 1

\* The client gets an answer to every chunk, in their order, or a fault and no
\* answer; and the citations that are recognized in each answer are at least
\* one and among the sources compiled for that very chunk.
DeliveredIsGrounded ==
    /\ reply = "ok" => Len(curriculum) = Len(chunks)
    /\ \A c \in DOMAIN curriculum : /\ Recognized(curriculum[c]) # {}
                                    /\ Recognized(curriculum[c]) \subseteq sources[c]

\* The audit trail may have gaps but does not lie: rows are in the order of the
\* chunks, one each; a row that says "succeeded" carries exactly the citations
\* recognized in the answer accepted for its chunk; a row that says "failed" is
\* the last, and the client got the fault.
AuditIsTruthful ==
    \A k \in DOMAIN logs :
        /\ \A l \in DOMAIN logs : k < l => logs[k].chunk < logs[l].chunk
        /\ IF logs[k].status = "succeeded"
           THEN /\ logs[k].chunk \in DOMAIN curriculum
                /\ logs[k].cited = Recognized(curriculum[logs[k].chunk])
           ELSE logs[k].chunk = round /\ reply = "fault"

\* Retries are bounded chunk by chunk: the model gets no prompt more than
\* MaxRetries + 1 times, and gets the prompt of a chunk only when the answer to
\* every chunk before it has been accepted.
PromptsAreBounded == /\ asked <= MaxRetries + 1
                     /\ pc = "ask" => Len(curriculum) = round - 1

\* Every request is answered.
EveryRequestEnds == <>(reply # "none")
=============================================================================
