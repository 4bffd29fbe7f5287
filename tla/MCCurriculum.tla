---------------------------- MODULE MCCurriculum ----------------------------
(***************************************************************************)
(* Topics of up to two paragraphs of up to two sentences that are empty,   *)
(* short, or longer than a chunk: all that make at most two chunks, and of *)
(* those that make three the ones without empty sentences.                 *)
(***************************************************************************)
EXTENDS Curriculum

Texts(lengths) == SeqOf(SeqOf(lengths, 2) \ {<<>>}, 2)

\* The handler refuses the empty topic.
SmallTopics == {t \in Texts({0, 1, 5}) \ {<<>>, <<<<0>>>>} : Len(Chunk(t)) <= 2}
               \cup {t \in Texts({1, 5}) : Len(Chunk(t)) = 3}
=============================================================================
