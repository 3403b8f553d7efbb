----------------------------- MODULE MCSessions -----------------------------
(***************************************************************************)
(* Small instances of Sessions: each configuration chooses the operations  *)
(* that its few requests may ask for, so that those that disturb each      *)
(* other meet in every order.                                              *)
(***************************************************************************)
EXTENDS Sessions, TLC

Symmetry == Permutations(Requests)
=============================================================================
