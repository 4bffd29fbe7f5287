------------------------------ MODULE Chunker ------------------------------
(***************************************************************************)
(* MapReduceWorker.Chunk (internal/domain/ai/mapreduce.go): a text is cut  *)
(* at paragraphs, and an oversized paragraph at sentences.                 *)
(*                                                                         *)
(* A sentence is represented by its length and its place <<p, s>> in the   *)
(* text.  The length of a chunk is the one before TrimSpace, which only    *)
(* shortens the last chunk.                                                *)
(***************************************************************************)
EXTENDS Integers, Sequences, SequencesExt

CONSTANT MaxChunkSize     \* characters

ASSUME ChunkerAssumption == MaxChunkSize \in Nat \ {0}

Separator == 2            \* the length of "\n\n" and of ". "

\* Op applied to base and to 1, 2, ..., n in turn: a loop over n parts.  A
\* function of the parts done so far is easier to reason about than a fold.
Loop(Op(_, _), base, n) ==
    LET after[i \in 0 .. n] == IF i = 0 THEN base ELSE Op(after[i - 1], i)
    IN  after[n]

Total(lengths) == Loop(LAMBDA sum, i : sum + lengths[i], 0, Len(lengths))

\* The length of parts joined by separators.
Joined(lengths) == Total(lengths) + Separator * (Len(lengths) - 1)

TextLen(text) == Joined([p \in DOMAIN text |-> Joined(text[p])])

Places(text, p) == [s \in DOMAIN text[p] |-> <<p, s>>]
AllPlaces(text) == FlattenSeq([p \in DOMAIN text |-> Places(text, p)])

\* The chunks so far and the strings.Builder of the current one.
Start == [chunks |-> <<>>, pieces |-> <<>>, len |-> 0]

Current(b) == [pieces |-> b.pieces, len |-> b.len]

\* Mutant: the builder is reset without its chunk being kept.
FlushForgetting(b, n) == IF b.len + n > MaxChunkSize /\ b.len > 0
                         THEN [b EXCEPT !.pieces = <<>>, !.len = 0]
                         ELSE b

\* Mutant: the size of what comes next is not taken into account.
FlushLate(b, n) == IF b.len > MaxChunkSize
                   THEN [Start EXCEPT !.chunks = Append(b.chunks, Current(b))]
                   ELSE b

\* Before n characters are added.
Flush(b, n) == IF b.len + n > MaxChunkSize /\ b.len > 0
               THEN [Start EXCEPT !.chunks = Append(b.chunks, Current(b))]
               ELSE b

Write(b, places, n) == [b EXCEPT !.pieces = @ \o places, !.len = @ + n + Separator]

\* Each part of a text goes to the current chunk or to a new one.
Add(b, places, n) == Write(Flush(b, n), places, n)

AddParagraph(text, b, p) ==
    LET size == Joined(text[p]) IN
    IF size > MaxChunkSize
    THEN Loop(LAMBDA c, s : Add(c, <<<<p, s>>>>, text[p][s]),
              Flush(b, size), Len(text[p]))
    ELSE Add(b, Places(text, p), size)

Chunk(text) ==
    IF TextLen(text) <= MaxChunkSize
    THEN <<[pieces |-> AllPlaces(text), len |-> TextLen(text)]>>
    ELSE LET b == Loop(LAMBDA c, p : AddParagraph(text, c, p), Start, Len(text))
         IN  IF b.len > 0 THEN Append(b.chunks, Current(b)) ELSE b.chunks
=============================================================================
