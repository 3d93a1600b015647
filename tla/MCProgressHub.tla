---------------------------- MODULE MCProgressHub ----------------------------
(***************************************************************************)
(* ProgressHub for invariants: the clients are interchangeable, and so are *)
(* the broadcasts.                                                         *)
(***************************************************************************)
EXTENDS ProgressHub, TLC

Symmetry == Permutations(Client) \cup Permutations(Broadcast)
=============================================================================
