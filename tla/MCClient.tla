------------------------------ MODULE MCClient ------------------------------
(***************************************************************************)
(* Small instances of Client.                                              *)
(***************************************************************************)
EXTENDS Client, TLC

Symmetry == Permutations(Activities) \cup Permutations(Tabs)
=============================================================================
