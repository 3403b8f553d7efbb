----------------------------- MODULE MCBankData -----------------------------
(***************************************************************************)
(* A small instance of BankData: two administrators and a customer, one    *)
(* request of the tab's, and one of somebody in another browser.           *)
(***************************************************************************)
EXTENDS BankData, TLC

CONSTANTS a1, a2, c1, r1, r2

Locks(u, v) == [by |-> u, op |-> "status", target |-> v, to |-> "LOCKED"]
Demotes(u, v) == [by |-> u, op |-> "role", target |-> v, to |-> "CUSTOMER"]
Adds(u) == [NoCall EXCEPT !.by = u, !.op = "add"]
Removes(u, r) == [NoCall EXCEPT !.by = u, !.op = "remove", !.target = r]

MCOrders == {Locks(None, a2), Adds(None)}
MCElsewhere == {Demotes(a1, a1), Demotes(a2, a1), Adds(c1), Removes(c1, r1)}

Symmetry == Permutations(Loads)
=============================================================================
