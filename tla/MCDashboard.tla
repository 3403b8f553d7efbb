---------------------------- MODULE MCDashboard ----------------------------
(***************************************************************************)
(* A small instance of Dashboard.                                          *)
(***************************************************************************)
EXTENDS Dashboard, TLC

Symmetry == Permutations(Activities)
=============================================================================
