--------------------------- MODULE MCAnalystPages ---------------------------
(***************************************************************************)
(* Small instances of AnalystPages.                                        *)
(***************************************************************************)
EXTENDS AnalystPages, TLC

\* FALSE_POSITIVE is final like RESOLVED.
MCCalls == {c \in Operations : c.to # "FALSE_POSITIVE"}

MCElsewhere == {c \in MCCalls : c.op = "createCase" \/ c.to = "RESOLVED"}

Symmetry == Permutations(Requests)
=============================================================================
