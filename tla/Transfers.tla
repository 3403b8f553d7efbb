----------------------------- MODULE Transfers -----------------------------
(***************************************************************************)
(* TransactionsService: customers' transfer requests and reversals, served *)
(* concurrently over one PostgreSQL database.                              *)
(*                                                                         *)
(* A request is a sequence of awaits; between two of them any other        *)
(* request may run, so each await is a step of its own and what it read    *)
(* may be stale when it is used.  An interactive database transaction      *)
(* either commits all of its writes or none: here it is one step.  The     *)
(* module TransferTx opens that step up into its SQL statements.           *)
(*                                                                         *)
(* A transfer request inserts at most one Transaction row, so the row is   *)
(* identified with the request that inserts it: status[r] is the row's     *)
(* status ("NONE": no such row) and its other columns are those of call[r]. *)
(***************************************************************************)
EXTENDS Integers, FiniteSets, FiniteSetsExt

CONSTANTS
    Users, Accounts,
    Owner,            \* BankAccount.userId
    Currency,         \* BankAccount.currency
    Funding,          \* balances before the first request
    Keys, NoKey,      \* idempotency keys; NoKey: header absent or blank
    Calls,            \* the transfers that clients may ask for
    Requests,         \* transfer requests, each made once; a retry is another
    Reversals,        \* reversal requests, each made once
    NoRow,            \* an answer that carries no Transaction row
    PerTransferLimit, DailyLimit,
    LastDay           \* bound on the number of midnights

VARIABLES
    balance,   \* BankAccount.balance
    status,    \* status of the Transaction row of each request, or "NONE"
    day,       \* the day of the row's createdAt
    audit,     \* AuditLog rows written by transfers and reversals
    events,    \* SecurityEvent rows written by transfers and reversals
    alerts,    \* requests whose row has a FraudAlert row
    today,     \* the wall clock, in days
    pc, call, reply,      \* transfer requests: next await, input, answer
    rpc, order, rreply    \* reversal requests: next await, input, answer

database == <<balance, status, day, audit, events, alerts>>
server   == <<pc, reply>>
rserver  == <<rpc, rreply>>
vars     == <<database, today, pc, call, reply, rpc, order, rreply>>

Call == [user : Users, from : Accounts, to : Accounts,
         amount : Nat, key : Keys \cup {NoKey}]

ASSUME OwnerAssumption == Owner \in [Accounts -> Users]
ASSUME FundingAssumption == Funding \in [Accounts -> Nat]
ASSUME CallsAssumption ==
    \* CreateTransferDto: @IsPositive amount
    Calls \subseteq {c \in Call : c.amount > 0}
ASSUME KeysAssumption == NoKey \notin Keys
ASSUME IdsAssumption == NoRow \notin Requests /\ Requests \cap Reversals = {}
ASSUME LimitsAssumption ==
    PerTransferLimit \in Nat /\ DailyLimit \in Nat /\ LastDay \in Nat

Status == {"NONE", "COMPLETED", "FLAGGED", "REJECTED", "REVERSED"}

\* Where a request's handler waits, named for what it does next.
Committing == {"clear", "flagged", "unavailable"}
Awaits == {"idle", "validate", "limits", "analyse", "done"} \cup Committing

\* AuditLog and SecurityEvent rows, with the request that wrote them.
AuditLog ==
    [action : {"TRANSFER_COMPLETED", "TRANSFER_FLAGGED", "TRANSFER_REVERSED",
               "TRANSFER_REJECTED_FRAUD_SERVICE_UNAVAILABLE"},
     row : Requests, by : Requests \cup Reversals]

SecurityEvent ==
    [type : {"FRAUD_SERVICE_UNAVAILABLE", "TRANSFER_REVERSED"},
     by : Requests \cup Reversals]

(***************************************************************************)
(* An answer: how the request ended, the row in its body, and the outcome  *)
(* its message states.                                                     *)
(***************************************************************************)
Reply == [how  : {"none", "executed", "replayed", "refused", "failed"},
          row  : Requests \cup {NoRow},
          says : {"nothing", "completed", "flagged", "rejected"}]

NoReply == [how |-> "none",    row |-> NoRow, says |-> "nothing"]
Refused == [how |-> "refused", row |-> NoRow, says |-> "nothing"]  \* 400, 404, 409
Failed  == [how |-> "failed",  row |-> NoRow, says |-> "nothing"]  \* 500, or silence

\* Every order is for a row by a user; the row need not exist yet.
Orders == [user : Users, row : Requests]

Init ==
    /\ balance = Funding
    /\ status = [r \in Requests |-> "NONE"]
    /\ day = [r \in Requests |-> 0]
    /\ audit = {} /\ events = {} /\ alerts = {}
    /\ today = 0
    /\ pc = [r \in Requests |-> "idle"]
    /\ call \in [Requests -> Calls]
    /\ reply = [r \in Requests |-> NoReply]
    /\ rpc = [v \in Reversals |-> "idle"]
    /\ order \in [Reversals -> Orders]
    /\ rreply = [v \in Reversals |-> "none"]

-----------------------------------------------------------------------------
\* The database, as the service's queries see it.  Here and below, a name with
\* an underscore is a slip one could make in the definition that follows it:
\* the checks put it in that definition's place to see a property fail.

HasRow(t) == status[t] # "NONE"

RowsWithKeyOf_NoIndex(r) == {}

\* Rows a unique index on idempotencyKey would make r's row collide with.
RowsWithKeyOf(r) ==
    {t \in Requests : HasRow(t) /\ call[t].key # NoKey /\ call[t].key = call[r].key}

Fingerprint_NoAmount(c) == <<c.user, c.from, c.to>>

\* getTransferFingerprint: all that the hash covers.
Fingerprint(c) == <<c.user, c.from, c.to, c.amount>>

\* enforceTransferLimits' aggregate: today's transfers out of an account.
UsedOn(a, d) ==
    MapThenSumSet(LAMBDA t : call[t].amount,
                  {t \in Requests : /\ call[t].from = a
                                    /\ status[t] \in {"COMPLETED", "FLAGGED"}
                                    /\ day[t] = d})

Moved_DebitOnly(from, to, amount) == [balance EXCEPT ![from] = @ - amount]

Moved(from, to, amount) ==
    [balance EXCEPT ![from] = @ - amount, ![to] = @ + amount]

\* The message findIdempotentTransfer derives from the row's status.
Says(st) == IF st = "REJECTED" THEN "rejected"
            ELSE IF st = "FLAGGED" THEN "flagged" ELSE "completed"

-----------------------------------------------------------------------------
\* Transfer requests.

Goto(r, from, to) == pc[r] = from /\ pc' = [pc EXCEPT ![r] = to]

Answer(r, from, answer) ==
    /\ Goto(r, from, "done")
    /\ reply' = [reply EXCEPT ![r] = answer]

(***************************************************************************)
(* The request arrives.  With an idempotency key, findIdempotentTransfer   *)
(* looks its row up first: the row of another user's or of a different     *)
(* transfer is refused, the row of the same transfer is replayed.          *)
(***************************************************************************)
Receive(r) ==
    /\ \/ RowsWithKeyOf(r) = {} /\ Goto(r, "idle", "validate") /\ UNCHANGED reply
       \/ \E t \in RowsWithKeyOf(r) :
            \/ /\ Fingerprint(call[t]) = Fingerprint(call[r])
               /\ Answer(r, "idle", [how |-> "replayed", row |-> t,
                                     says |-> Says(status[t])])
            \/ /\ Fingerprint(call[t]) # Fingerprint(call[r])
               /\ Answer(r, "idle", Refused)
    /\ UNCHANGED <<database, today, call, rserver, order>>

(***************************************************************************)
(* The reads of the sender account, the beneficiary and the receiver       *)
(* account, and the checks on what they returned.  Accounts are never      *)
(* deleted or given to another user, and a beneficiary row may be missing  *)
(* or removed at any time, so of the three reads only that of the sender's *)
(* balance depends on when it happens: they are one step, at that read.    *)
(***************************************************************************)
Permitted(c) ==
    /\ Owner[c.from] = c.user
    /\ c.from # c.to
    /\ Currency[c.from] = Currency[c.to]

Validate_AnyAccount(r) ==
    /\ Goto(r, "validate", "limits")
    /\ UNCHANGED <<database, today, call, reply, rserver, order>>

Validate(r) ==
    /\ \E hasBeneficiary \in BOOLEAN :
          IF hasBeneficiary /\ Permitted(call[r]) /\ balance[call[r].from] >= call[r].amount
          THEN Goto(r, "validate", "limits") /\ UNCHANGED reply
          ELSE Answer(r, "validate", Refused)
    /\ UNCHANGED <<database, today, call, rserver, order>>

\* enforceTransferLimits, on the rows committed when the aggregate runs.
WithinLimits(r) ==
    /\ call[r].amount <= PerTransferLimit
    /\ UsedOn(call[r].from, today) + call[r].amount <= DailyLimit

CheckLimits(r) ==
    /\ IF WithinLimits(r)
       THEN Goto(r, "limits", "analyse") /\ UNCHANGED reply
       ELSE Answer(r, "limits", Refused)
    /\ UNCHANGED <<database, today, call, rserver, order>>

(***************************************************************************)
(* The risk signals are read and sent to the fraud service, which answers  *)
(* within five seconds or counts as unavailable.  Any verdict may come:    *)
(* the rule is in RiskEngine.                                            *)
(***************************************************************************)
Analyse(r) ==
    /\ \E verdict \in Committing : Goto(r, "analyse", verdict)
    /\ UNCHANGED <<database, today, call, reply, rserver, order>>

-----------------------------------------------------------------------------
\* The database transactions that end a transfer request.

InsertRow(r, st) ==
    /\ status' = [status EXCEPT ![r] = st]
    /\ day' = [day EXCEPT ![r] = today]

Log_MayFail(action, row, by) ==
    audit' \in {audit, audit \cup {[action |-> action, row |-> row, by |-> by]}}

Log(action, row, by) == audit' = audit \cup {[action |-> action, row |-> row, by |-> by]}

\* The transaction commits; its answer may still be lost on the way back.
AnswerOrLose(r, from, answer) ==
    /\ \E a \in {answer, Failed} : Answer(r, from, a)
    /\ UNCHANGED <<today, call, rserver, order>>

Covered_Unconditional(r) == TRUE

\* The WHERE of the debit: { id, userId, balance: { gte: amount } }.
Covered(r) == balance[call[r].from] >= call[r].amount

Complete(r) ==
    LET c == call[r] IN
    /\ Covered(r)
    /\ RowsWithKeyOf(r) = {}
    /\ balance' = Moved(c.from, c.to, c.amount)
    /\ InsertRow(r, "COMPLETED")
    /\ Log("TRANSFER_COMPLETED", r, r)
    /\ UNCHANGED <<events, alerts>>
    /\ AnswerOrLose(r, "clear", [how |-> "executed", row |-> r, says |-> "completed"])

Flag(r) ==
    /\ RowsWithKeyOf(r) = {}
    /\ InsertRow(r, "FLAGGED")
    /\ alerts' = alerts \cup {r}
    /\ Log("TRANSFER_FLAGGED", r, r)
    /\ UNCHANGED <<balance, events>>
    /\ AnswerOrLose(r, "flagged", [how |-> "executed", row |-> r, says |-> "flagged"])

\* recordFraudServiceFailure, and the 503 that is thrown again after it.
Reject(r) ==
    /\ RowsWithKeyOf(r) = {}
    /\ InsertRow(r, "REJECTED")
    /\ events' = events \cup {[type |-> "FRAUD_SERVICE_UNAVAILABLE", by |-> r]}
    /\ Log("TRANSFER_REJECTED_FRAUD_SERVICE_UNAVAILABLE", r, r)
    /\ UNCHANGED <<balance, alerts>>
    /\ AnswerOrLose(r, "unavailable",
                    [how |-> "refused", row |-> NoRow, says |-> "rejected"])

\* The conditional debit matches no row: 400, and the transaction rolls back.
Overdrawn(r) ==
    /\ ~Covered(r)
    /\ Answer(r, "clear", Refused)
    /\ UNCHANGED <<database, today, call, rserver, order>>

\* The insert meets the unique index on idempotencyKey: rollback, and a 500.
DuplicateKey(r) ==
    /\ RowsWithKeyOf(r) # {}
    /\ pc[r] = "clear" => Covered(r)
    /\ \E p \in Committing : Answer(r, p, Failed)
    /\ UNCHANGED <<database, today, call, rserver, order>>

\* A query fails or the server stops: nothing of the request remains.
Fail(r) ==
    /\ \E p \in {"validate", "limits", "analyse"} \cup Committing :
          Answer(r, p, Failed)
    /\ UNCHANGED <<database, today, call, rserver, order>>

-----------------------------------------------------------------------------
\* Reversals: reverse(userId, transactionId, reason).

GotoR(v, from, to) == rpc[v] = from /\ rpc' = [rpc EXCEPT ![v] = to]

AnswerR(v, from, answer) ==
    /\ GotoR(v, from, "done")
    /\ rreply' = [rreply EXCEPT ![v] = answer]

(***************************************************************************)
(* The row and its two accounts are read in one query.  Only the user who  *)
(* sent a COMPLETED transfer goes on, and only if the receiver still has   *)
(* the money.                                                              *)
(***************************************************************************)
Reversible(v) ==
    LET o == order[v]  c == call[o.row] IN
    /\ status[o.row] = "COMPLETED"
    /\ Owner[c.from] = o.user
    /\ balance[c.to] >= c.amount

ReadOriginal(v) ==
    /\ IF Reversible(v)
       THEN GotoR(v, "idle", "commit") /\ UNCHANGED rreply
       ELSE AnswerR(v, "idle", "refused")
    /\ UNCHANGED <<database, today, server, call, order>>

(***************************************************************************)
(* The reversal's transaction: debit the receiver if it still has the      *)
(* money, credit the sender, and mark the row if it is still COMPLETED.    *)
(***************************************************************************)
ReversalHolds_StaleStatus(v) == balance[call[order[v].row].to] >= call[order[v].row].amount

ReversalHolds(v) ==
    LET t == order[v].row IN
    balance[call[t].to] >= call[t].amount /\ status[t] = "COMPLETED"

Reverse(v) ==
    LET t == order[v].row IN
    /\ ReversalHolds(v)
    /\ balance' = Moved(call[t].to, call[t].from, call[t].amount)
    /\ status' = [status EXCEPT ![t] = "REVERSED"]
    /\ Log("TRANSFER_REVERSED", t, v)
    /\ events' = events \cup {[type |-> "TRANSFER_REVERSED", by |-> v]}
    /\ \E answer \in {"executed", "failed"} : AnswerR(v, "commit", answer)
    /\ UNCHANGED <<day, alerts, today, server, call, order>>

\* One of the two conditional updates matches no row: the rest rolls back.
ReverseRefused(v) ==
    /\ ~ReversalHolds(v)
    /\ AnswerR(v, "commit", "refused")
    /\ UNCHANGED <<database, today, server, call, order>>

ReverseFail(v) ==
    /\ AnswerR(v, "commit", "failed")
    /\ UNCHANGED <<database, today, server, call, order>>

-----------------------------------------------------------------------------
Midnight ==
    /\ today < LastDay
    /\ today' = today + 1
    /\ UNCHANGED <<database, server, call, rserver, order>>

\* What the server does next for a request it has received.
Serve(r) ==
    \/ Validate(r) \/ CheckLimits(r) \/ Analyse(r)
    \/ Complete(r) \/ Flag(r) \/ Reject(r) \/ Overdrawn(r) \/ DuplicateKey(r)

ServeReversal(v) == Reverse(v) \/ ReverseRefused(v)

Next ==
    \/ \E r \in Requests : Receive(r) \/ Serve(r) \/ Fail(r)
    \/ \E v \in Reversals : ReadOriginal(v) \/ ServeReversal(v) \/ ReverseFail(v)
    \/ Midnight

Spec == Init /\ [][Next]_vars

-----------------------------------------------------------------------------
\* Properties.

\* Every variable keeps its type; nothing else is claimed.
TypeOK ==
    /\ balance \in [Accounts -> Int]
    /\ status \in [Requests -> Status]
    /\ day \in [Requests -> Nat]
    /\ audit \subseteq AuditLog
    /\ events \subseteq SecurityEvent
    /\ alerts \subseteq Requests
    /\ today \in Nat
    /\ pc \in [Requests -> Awaits]
    /\ call \in [Requests -> Calls]
    /\ reply \in [Requests -> Reply]
    /\ rpc \in [Reversals -> {"idle", "commit", "done"}]
    /\ order \in [Reversals -> Orders]
    /\ rreply \in [Reversals -> {"none", "executed", "refused", "failed"}]

(***************************************************************************)
(* No interleaving of transfers and reversals, each of which checked the   *)
(* balance some awaits ago, takes an account below zero: the database has  *)
(* no constraint that would (schema.prisma: balance Decimal).              *)
(***************************************************************************)
NoOverdraft == \A a \in Accounts : balance[a] >= 0

(***************************************************************************)
(* The unique index decides between concurrent duplicates: of all requests *)
(* that carry one idempotency key, at most one ever has a row.             *)
(***************************************************************************)
OneRowPerKey ==
    \A s, t \in Requests :
        /\ HasRow(s) /\ HasRow(t)
        /\ call[s].key # NoKey /\ call[s].key = call[t].key
        => s = t

(***************************************************************************)
(* An answer is true when given and stays true: the row it carries is that *)
(* of this very transfer (the same user, accounts, amount and key), and it *)
(* states the row's outcome, a completed transfer possibly reversed since; *)
(* a refused request left no row but the record of its rejection.          *)
(***************************************************************************)
AnswerTrue(r) ==
    LET a == reply[r] IN
    /\ a.row # NoRow =>
          /\ call[a.row] = call[r]
          /\ a.how = "executed" => a.row = r
          /\ HasRow(a.row)
          /\ a.says = Says(status[a.row])
    /\ a.how = "refused" =>
          status[r] = IF a.says = "rejected" THEN "REJECTED" ELSE "NONE"

AnswersAreTrue == \A r \in Requests : AnswerTrue(r)

(***************************************************************************)
(* Each row has exactly the records its outcome calls for, and no record   *)
(* is without its row: the creation's AuditLog, a FraudAlert if and only   *)
(* if it is FLAGGED, the unavailability event if and only if REJECTED.     *)
(***************************************************************************)
CreationAudit(st) ==
    CASE st \in {"COMPLETED", "REVERSED"} -> {"TRANSFER_COMPLETED"}
      [] st = "FLAGGED"  -> {"TRANSFER_FLAGGED"}
      [] st = "REJECTED" -> {"TRANSFER_REJECTED_FRAUD_SERVICE_UNAVAILABLE"}
      [] OTHER -> {}

TrailMatchesRows ==
    \A t \in Requests :
        /\ {e.action : e \in {x \in audit : x.row = t /\ x.by = t}} = CreationAudit(status[t])
        /\ t \in alerts <=> status[t] = "FLAGGED"
        /\ [type |-> "FRAUD_SERVICE_UNAVAILABLE", by |-> t] \in events
              <=> status[t] = "REJECTED"

(***************************************************************************)
(* A row, once written, changes only from COMPLETED to REVERSED, and only  *)
(* with the money going back; without its row a request moves no money.    *)
(***************************************************************************)
RowStep(t) ==
    \/ status'[t] = status[t]
    \/ status[t] = "NONE" /\ pc[t] \in Committing
    \/ /\ status[t] = "COMPLETED" /\ status'[t] = "REVERSED"
       /\ balance'[call[t].from] = balance[call[t].from] + call[t].amount
       /\ balance'[call[t].to] = balance[call[t].to] - call[t].amount

RowsOnlyReverse == [][\A t \in Requests : RowStep(t)]_vars

(***************************************************************************)
(* Transfers implements Ledger: a payment is posted when its row is        *)
(* COMPLETED and undone when it is REVERSED; every other step of the       *)
(* service stutters.  BalancesExplained is then the ledger's own promise,  *)
(* that FLAGGED and REJECTED transfers move nothing among it.              *)
(***************************************************************************)
Posted == {t \in Requests : status[t] \in {"COMPLETED", "REVERSED"}}
Undone == {t \in Requests : status[t] = "REVERSED"}

L == INSTANCE Ledger WITH Payments <- Requests, posted <- Posted, undone <- Undone

ImplementsLedger == L!Spec
BalancesExplained == L!BalancesExplained

(***************************************************************************)
(* The inductive invariant the proofs rest on.  A request has its row only *)
(* once it is over, has an answer only then, and is past the checks, or    *)
(* has a row, only for a call that the checks let through.                 *)
(***************************************************************************)
RowsAreOver == \A r \in Requests : HasRow(r) => pc[r] = "done"

SilentUntilDone == \A r \in Requests : pc[r] # "done" => reply[r] = NoReply

ChecksMade ==
    \A r \in Requests :
        pc[r] \in {"limits", "analyse"} \cup Committing \/ HasRow(r) => Permitted(call[r])

IInv ==
    /\ TypeOK /\ NoOverdraft /\ OneRowPerKey /\ AnswersAreTrue
    /\ RowsAreOver /\ SilentUntilDone /\ ChecksMade

(***************************************************************************)
(* The daily limit as the service's tests state it ("rejects transfers     *)
(* that would exceed the daily transfer limit").  The aggregate runs       *)
(* before the fraud call and outside the transaction, so this can fail.    *)
(***************************************************************************)
DailyLimitHeld ==
    \A a \in Accounts : \A d \in 0..LastDay : UsedOn(a, d) <= DailyLimit
=============================================================================
