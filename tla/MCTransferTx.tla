---------------------------- MODULE MCTransferTx ----------------------------
(***************************************************************************)
(* TransferTx on the small bank of MCTransfers: two dollar accounts of two *)
(* customers, for TLC.                                                     *)
(***************************************************************************)
EXTENDS TransferTx, TLC

CONSTANTS u1, u2, a1, a2, k1

MCUsers == {u1, u2}
MCAccounts == {a1, a2}
MCOwner == a1 :> u1 @@ a2 :> u2
MCCurrency == [a \in MCAccounts |-> "USD"]
MCFunding == a1 :> 3 @@ a2 :> 1

Pay(u, from, to, amount, key) ==
    [user |-> u, from |-> from, to |-> to, amount |-> amount, key |-> key]

\* A payment with a key and one without a key that crosses it; whoever asks
\* twice repeats one of them.
MCCalls == {Pay(u1, a1, a2, 2, k1), Pay(u2, a2, a1, 1, NoKey)}
=============================================================================
