---------------------------- MODULE MCLoginGuard ----------------------------
(* LoginGuard for TLC: no property tells the requests apart.               *)
EXTENDS LoginGuard, TLC

Symmetry == Permutations(Requests)
=============================================================================
