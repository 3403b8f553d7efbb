------------------------------- MODULE Ledger -------------------------------
(***************************************************************************)
(* What the transfer service promises about money, with every request,     *)
(* read, retry and failure left out: a payment is posted at most once and  *)
(* undone at most once, each in one indivisible step that never overdraws  *)
(* an account, and no two posted payments carry the same idempotency key.  *)
(* The module Transfers is shown to implement this one.                    *)
(***************************************************************************)
EXTENDS Integers, FiniteSetsExt

CONSTANTS
    Accounts,  \* rows of BankAccount
    Payments,  \* identities of payments (one per transfer request)
    Calls,     \* what a payment may ask for: [from, to, amount, key, ...]
    Funding,   \* balance of each account before the first payment
    NoKey      \* the client sent no idempotency key

VARIABLES
    balance,   \* BankAccount.balance
    call,      \* what each payment asks for; never changes
    posted,    \* payments whose money has moved
    undone     \* posted payments whose money has moved back

vars == <<balance, call, posted, undone>>

Init ==
    /\ balance = Funding
    /\ call \in [Payments -> Calls]
    /\ posted = {}
    /\ undone = {}

(***************************************************************************)
(* Money moves only between two different accounts.                        *)
(***************************************************************************)
Move(from, to, amount) ==
    /\ from # to
    /\ balance[from] >= amount
    /\ balance' = [balance EXCEPT ![from] = @ - amount, ![to] = @ + amount]

SameKey(p, q) == call[p].key # NoKey /\ call[p].key = call[q].key

Post(p) ==
    /\ p \notin posted
    /\ \A q \in posted : ~SameKey(p, q)
    /\ Move(call[p].from, call[p].to, call[p].amount)
    /\ posted' = posted \cup {p}
    /\ UNCHANGED <<call, undone>>

Undo(p) ==
    /\ p \in posted \ undone
    /\ Move(call[p].to, call[p].from, call[p].amount)
    /\ undone' = undone \cup {p}
    /\ UNCHANGED <<call, posted>>

Next == \E p \in Payments : Post(p) \/ Undo(p)

Spec == Init /\ [][Next]_vars

-----------------------------------------------------------------------------
Amounts(c, ps) == MapThenSumSet(LAMBDA p : c[p].amount, ps)

Total(ps) == Amounts(call, ps)

InForce == posted \ undone

(***************************************************************************)
(* Every balance is explained by the payments in force: the funding, plus  *)
(* what came in, minus what went out.  Money is neither made nor lost.     *)
(***************************************************************************)
BalancesExplained ==
    \A a \in Accounts :
        balance[a] = Funding[a]
                     + Total({p \in InForce : call[p].to = a})
                     - Total({p \in InForce : call[p].from = a})
=============================================================================
