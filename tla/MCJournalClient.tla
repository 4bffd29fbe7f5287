--------------------------- MODULE MCJournalClient --------------------------
(* Users are interchangeable, and so are passphrases; no property of the     *)
(* run is temporal.                                                          *)
EXTENDS JournalClient, TLC

Symmetry == Permutations(Users) \cup Permutations(Passphrases)
=============================================================================
