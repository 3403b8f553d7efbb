--------------------------- MODULE MCFraudService ---------------------------
(***************************************************************************)
(* Small instances of FraudService.                                        *)
(***************************************************************************)
EXTENDS FraudService, TLC

Input(amount, device, beneficiary, transfers, failures, hour) ==
    [amount |-> amount, average_amount |-> 1, new_device |-> device,
     new_beneficiary |-> beneficiary, transactions_last_hour |-> transfers,
     failed_logins_last_hour |-> failures, transaction_hour |-> hour]

\* The highest score, the least that is HIGH, and one reason only.
FewInputs ==
    {Input(6, TRUE, TRUE, 5, 3, 4),    \* 130, capped
     Input(6, FALSE, FALSE, 5, 2, 5),  \* 60
     Input(5, FALSE, TRUE, 4, 2, 5)}   \* 20

Symmetry == Permutations(Requests)
=============================================================================
