--------------------------- MODULE MCSecurityPage ---------------------------
(***************************************************************************)
(* A small instance of SecurityPage.                                       *)
(***************************************************************************)
EXTENDS SecurityPage, TLC

Symmetry == Permutations(Requests)
=============================================================================
