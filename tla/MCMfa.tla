------------------------------- MODULE MCMfa -------------------------------
(***************************************************************************)
(* Small instances of Mfa.                                                 *)
(***************************************************************************)
EXTENDS Mfa, TLC

Symmetry == Permutations(Requests)
=============================================================================
