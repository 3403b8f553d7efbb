---------------------------- MODULE MCTransfers ----------------------------
(***************************************************************************)
(* Transfers on a small bank, for TLC: two customers, an account of each   *)
(* in dollars and one more of the first in euros.                          *)
(***************************************************************************)
EXTENDS Transfers, TLC

CONSTANTS u1, u2, a1, a2, a3, k1

MCUsers == {u1, u2}
MCAccounts == {a1, a2, a3}
MCOwner == a1 :> u1 @@ a2 :> u2 @@ a3 :> u1
MCCurrency == a1 :> "USD" @@ a2 :> "USD" @@ a3 :> "EUR"
MCFunding == a1 :> 3 @@ a2 :> 1 @@ a3 :> 0
MCRichFunding == a1 :> 4 @@ a2 :> 1 @@ a3 :> 0

Pay(u, from, to, amount, key) ==
    [user |-> u, from |-> from, to |-> to, amount |-> amount, key |-> key]

(***************************************************************************)
(* Enough calls to meet every branch: the same transfer with and without a *)
(* key, another amount and another user under that key, a transfer back, an*)
(* amount over the limit, an account of somebody else, another currency.   *)
(***************************************************************************)
MCCalls == {Pay(u1, a1, a2, 2, k1), Pay(u1, a1, a2, 2, NoKey), Pay(u1, a1, a2, 1, k1),
            Pay(u2, a2, a1, 2, k1), Pay(u2, a2, a1, 1, NoKey), Pay(u1, a1, a2, 3, NoKey),
            Pay(u2, a1, a2, 1, NoKey), Pay(u1, a1, a3, 1, NoKey)}

Symmetry == Permutations(Requests) \cup Permutations(Reversals)
=============================================================================
