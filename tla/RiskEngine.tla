----------------------------- MODULE RiskEngine -----------------------------
(***************************************************************************)
(* analyze_transaction of the fraud service: six rules, each worth some    *)
(* points, a capped score, and what is decided by it.                      *)
(***************************************************************************)
EXTENDS Integers

Transaction ==
    [amount : Nat \ {0}, average_amount : Nat \ {0},
     new_device : BOOLEAN, new_beneficiary : BOOLEAN,
     transactions_last_hour : Nat, failed_logins_last_hour : Nat,
     transaction_hour : 0..23]

\* The rules.  (Here and in the modules that use this one, a name with an
\* underscore is a slip one could make in the definition after it.)
Unusual(t)  == t.amount > 5 * t.average_amount
Frequent(t) == t.transactions_last_hour >= 5

Guessed(t)  == t.failed_logins_last_hour >= 3
Night(t)    == t.transaction_hour < 5

Worth(rule, points) == IF rule THEN points ELSE 0

Points(t) ==
    Worth(Unusual(t), 40)
    + Worth(t.new_device, 20) + Worth(t.new_beneficiary, 20)
    + Worth(Frequent(t), 20) + Worth(Guessed(t), 20)
    + Worth(Night(t), 10)

RiskScore_Wraps(t) == IF Points(t) > 100 THEN Points(t) - 100 ELSE Points(t)

RiskScore(t) == IF Points(t) > 100 THEN 100 ELSE Points(t)

BlockAt == 80

Severity(t) ==
    IF RiskScore(t) >= BlockAt THEN "CRITICAL"
    ELSE IF RiskScore(t) >= 60 THEN "HIGH"
    ELSE IF RiskScore(t) >= 30 THEN "MEDIUM" ELSE "LOW"

Decision(t) ==
    IF Severity(t) = "LOW" THEN "APPROVE"
    ELSE IF Severity(t) = "CRITICAL" THEN "BLOCK" ELSE "REVIEW"

-----------------------------------------------------------------------------
\* What the decision means for a customer.

Rank(decision) == IF decision = "APPROVE" THEN 0 ELSE IF decision = "REVIEW" THEN 1 ELSE 2

\* Nothing about t speaks for it that does not speak for u.
AsRisky(t, u) ==
    /\ t.amount >= u.amount /\ t.average_amount <= u.average_amount
    /\ u.new_device => t.new_device
    /\ u.new_beneficiary => t.new_beneficiary
    /\ t.transactions_last_hour >= u.transactions_last_hour
    /\ t.failed_logins_last_hour >= u.failed_logins_last_hour
    /\ Night(u) => Night(t)

\* How many rules a transaction breaks.
Broken(t) ==
    Worth(Unusual(t), 1) + Worth(t.new_device, 1) + Worth(t.new_beneficiary, 1)
    + Worth(Frequent(t), 1) + Worth(Guessed(t), 1) + Worth(Night(t), 1)

\* No transaction is let through more easily for looking worse, whatever else
\* about it counts and however the score is capped.
Monotone(S) ==
    \A t, u \in S : AsRisky(t, u) => /\ RiskScore(t) >= RiskScore(u)
                                     /\ Rank(Decision(t)) >= Rank(Decision(u))

\* Nothing is blocked for fewer than three reasons, nor approved in spite of two
\* that are worth 20 points.
Measured(S) ==
    \A t \in S : /\ Decision(t) = "BLOCK" => Broken(t) >= 3
                 /\ Decision(t) = "APPROVE" => Broken(t) - Worth(Night(t), 1) <= 1
=============================================================================
