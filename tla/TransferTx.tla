----------------------------- MODULE TransferTx -----------------------------
(***************************************************************************)
(* The database transactions of TransactionsService, statement by          *)
(* statement: PostgreSQL at READ COMMITTED, the isolation level Prisma's   *)
(* interactive transactions run at here.  An update locks the row until    *)
(* its transaction ends, waits for a row another transaction has locked,   *)
(* and evaluates its WHERE on the version committed when it gets the lock; *)
(* other requests read committed versions only.  The module shows that the *)
(* statements, with their locks, amount to the single steps of Transfers.  *)
(*                                                                         *)
(* Only the statements that can wait, or match no row, are steps here: the *)
(* AuditLog, SecurityEvent and FraudAlert inserts follow without waiting   *)
(* and are seen by nobody before the commit.                               *)
(***************************************************************************)
EXTENDS Transfers

CONSTANT Free     \* no transaction holds the lock

VARIABLES
    stage,    \* how far the open transaction of each request has come
    accLock,  \* who has updated the BankAccount row and not yet ended
    draft     \* the version of the row that its lock holder has written

txVars == <<stage, accLock, draft>>
allVars == <<vars, txVars>>

Procs == Requests \cup Reversals

ASSUME FreeAssumption == Free \notin Procs

TxInit ==
    /\ Init
    /\ stage = [p \in Procs |-> "none"]
    /\ accLock = [a \in Accounts |-> Free]
    /\ draft = [a \in Accounts |-> 0]

-----------------------------------------------------------------------------
\* The statements.

\* The call whose accounts p's transaction updates.
CallOf(p) == IF p \in Requests THEN call[p] ELSE call[order[p].row]

\* A reversal takes from the receiver what a transfer takes from the sender.
Payer(p) == IF p \in Requests THEN CallOf(p).from ELSE CallOf(p).to
Payee(p) == IF p \in Requests THEN CallOf(p).to ELSE CallOf(p).from

\* The transaction that is about to debit: a cleared transfer, a reversal.
Debits(p) == IF p \in Requests THEN pc[p] = "clear" ELSE rpc[p] = "commit"

Update(p, a, delta) ==
    /\ accLock[a] = Free
    /\ accLock' = [accLock EXCEPT ![a] = p]
    /\ draft' = [draft EXCEPT ![a] = balance[a] + delta]

Advance(p, from, to) == stage[p] = from /\ stage' = [stage EXCEPT ![p] = to]

Debit(p) ==
    /\ Debits(p)
    /\ balance[Payer(p)] >= CallOf(p).amount
    /\ Update(p, Payer(p), -CallOf(p).amount)
    /\ Advance(p, "none", "debited")
    /\ UNCHANGED vars

Credit(p) ==
    /\ Update(p, Payee(p), CallOf(p).amount)
    /\ Advance(p, "debited", "credited")
    /\ UNCHANGED vars

InsertersOfKeyOf_NoIndex(r) == {}

\* Transactions whose uncommitted row carries the key of r's row.
InsertersOfKeyOf(r) ==
    {q \in Requests \ {r} : /\ stage[q] = "written"
                            /\ call[q].key # NoKey /\ call[q].key = call[r].key}

\* The insert waits for such a transaction to end, then succeeds or aborts.
Insert(r) ==
    /\ InsertersOfKeyOf(r) = {}
    /\ RowsWithKeyOf(r) = {}
    /\ \/ pc[r] = "clear" /\ Advance(r, "credited", "written")
       \/ pc[r] \in {"flagged", "unavailable"} /\ Advance(r, "none", "written")
    /\ UNCHANGED <<vars, accLock, draft>>

\* The row's status is tested under the receiver's lock: whoever else would
\* reverse the row waits for that lock first.
MarkReversed(v) ==
    /\ status[order[v].row] = "COMPLETED"
    /\ Advance(v, "credited", "written")
    /\ UNCHANGED <<vars, accLock, draft>>

-----------------------------------------------------------------------------
\* The ends of a transaction.

Release(p) ==
    /\ stage' = [stage EXCEPT ![p] = "none"]
    /\ accLock' = [a \in Accounts |-> IF accLock[a] = p THEN Free ELSE accLock[a]]
    /\ draft' = [a \in Accounts |-> IF accLock[a] = p THEN 0 ELSE draft[a]]

Publish(p) ==
    balance' = [a \in Accounts |-> IF accLock[a] = p THEN draft[a] ELSE balance[a]]

CommitTransfer(r) ==
    /\ stage[r] = "written"
    /\ Publish(r) /\ Release(r)
    /\ \/ /\ InsertRow(r, "COMPLETED")
          /\ Log("TRANSFER_COMPLETED", r, r)
          /\ UNCHANGED <<events, alerts>>
          /\ AnswerOrLose(r, "clear", [how |-> "executed", row |-> r, says |-> "completed"])
       \/ /\ InsertRow(r, "FLAGGED")
          /\ alerts' = alerts \cup {r}
          /\ Log("TRANSFER_FLAGGED", r, r)
          /\ UNCHANGED events
          /\ AnswerOrLose(r, "flagged", [how |-> "executed", row |-> r, says |-> "flagged"])
       \/ /\ InsertRow(r, "REJECTED")
          /\ events' = events \cup {[type |-> "FRAUD_SERVICE_UNAVAILABLE", by |-> r]}
          /\ Log("TRANSFER_REJECTED_FRAUD_SERVICE_UNAVAILABLE", r, r)
          /\ UNCHANGED alerts
          /\ AnswerOrLose(r, "unavailable",
                          [how |-> "refused", row |-> NoRow, says |-> "rejected"])

CommitReversal(v) ==
    /\ stage[v] = "written"
    /\ Publish(v) /\ Release(v)
    /\ status' = [status EXCEPT ![order[v].row] = "REVERSED"]
    /\ Log("TRANSFER_REVERSED", order[v].row, v)
    /\ events' = events \cup {[type |-> "TRANSFER_REVERSED", by |-> v]}
    /\ \E answer \in {"executed", "failed"} : AnswerR(v, "commit", answer)
    /\ UNCHANGED <<day, alerts, today, server, call, order>>

(***************************************************************************)
(* Rollbacks.  A conditional update matches no row (a committed version    *)
(* that does not qualify is not even waited for), a unique index refuses   *)
(* the row, or the transaction fails: a query error, Prisma's five seconds,*)
(* the server's end, the choice as deadlock victim.                        *)
(***************************************************************************)
NothingToDebit(p) ==
    /\ Debits(p) /\ stage[p] = "none"
    /\ balance[Payer(p)] < CallOf(p).amount
    /\ IF p \in Requests
       THEN Answer(p, "clear", Refused) /\ UNCHANGED rserver
       ELSE AnswerR(p, "commit", "refused") /\ UNCHANGED server
    /\ UNCHANGED <<database, today, call, order, txVars>>

KeyTaken(r) ==
    /\ stage[r] = IF pc[r] = "clear" THEN "credited" ELSE "none"
    /\ InsertersOfKeyOf(r) = {} /\ RowsWithKeyOf(r) # {}
    /\ \E p \in Committing : Answer(r, p, Failed)
    /\ Release(r)
    /\ UNCHANGED <<database, today, call, rserver, order>>

AlreadyReversed(v) ==
    /\ stage[v] = "credited" /\ status[order[v].row] # "COMPLETED"
    /\ AnswerR(v, "commit", "refused")
    /\ Release(v)
    /\ UNCHANGED <<database, today, server, call, order>>

Rollback(p) ==
    /\ IF p \in Requests THEN Fail(p) ELSE ReverseFail(p)
    /\ Release(p)

-----------------------------------------------------------------------------
\* PostgreSQL's deadlock detector ends one transaction of every waiting cycle.

\* Only a transaction that holds one account and wants the other can be part
\* of a cycle; the one it waits for holds that other account.
WaitsFor(p, q) == p # q /\ stage[p] = "debited" /\ accLock[Payee(p)] = q

InCycle_Undetected(p) == FALSE

InCycle(p) ==
    \E S \in SUBSET {q \in Procs : stage[q] = "debited"} :
        /\ p \in S
        /\ \A q \in S : (\E s \in S : WaitsFor(q, s)) /\ (\E s \in S : WaitsFor(s, q))

EndDeadlock(p) == InCycle(p) /\ Rollback(p)

-----------------------------------------------------------------------------
Transact(p) ==
    \/ Debit(p) \/ Credit(p) \/ NothingToDebit(p) \/ EndDeadlock(p)
    \/ p \in Requests /\ (Insert(p) \/ CommitTransfer(p) \/ KeyTaken(p))
    \/ p \in Reversals /\ (MarkReversed(p) \/ CommitReversal(p) \/ AlreadyReversed(p))

\* The steps of Transfers outside its transactions stay as they are.
Outside(r) == (Validate(r) \/ CheckLimits(r) \/ Analyse(r)) /\ UNCHANGED txVars

\* A day's end is left to Transfers: no transaction looks at a date.
TxNext ==
    \/ \E p \in Procs : Transact(p) \/ Rollback(p)
    \/ \E r \in Requests : Outside(r) \/ (Receive(r) /\ UNCHANGED txVars)
    \/ \E v \in Reversals : ReadOriginal(v) /\ UNCHANGED txVars

TxSpec == TxInit /\ [][TxNext]_allVars

(***************************************************************************)
(* Node's event loop runs every continuation whose await has settled, and  *)
(* every await settles: database calls fail or return, the call to the     *)
(* fraud service has a timeout, and a transaction that can take its next   *)
(* statement does.  Clients owe nothing.                                   *)
(***************************************************************************)
TxFairSpec ==
    /\ TxSpec
    /\ \A r \in Requests : WF_allVars(Outside(r))
    /\ \A p \in Procs : WF_allVars(Transact(p))

-----------------------------------------------------------------------------
\* Properties.

(***************************************************************************)
(* The transactions, statement by statement, implement the single steps of *)
(* Transfers: whatever holds there holds of them.                          *)
(***************************************************************************)
ImplementsTransfers == Spec

(***************************************************************************)
(* Every request the server has begun to serve is answered, whatever the   *)
(* others do: no conditional update or unique index leaves one without a   *)
(* branch, and of transfers that cross each other, or a transfer and the   *)
(* reversal of another, which lock each other's accounts in opposite       *)
(* orders, the database ends one.                                          *)
(***************************************************************************)
RequestsAnswered ==
    /\ \A r \in Requests : pc[r] # "idle" ~> pc[r] = "done"
    /\ \A v \in Reversals : rpc[v] # "idle" ~> rpc[v] = "done"

(***************************************************************************)
(* The inductive invariant the refinement proof rests on.  An open         *)
(* transaction holds the locks of the accounts it has updated and no       *)
(* others, so what it read of them is still committed and its drafts are   *)
(* the balances it will publish; a row not yet committed has its key to    *)
(* itself, and a row about to be REVERSED is still COMPLETED.              *)
(***************************************************************************)
TxTypeOK ==
    /\ stage \in [Procs -> {"none", "debited", "credited", "written"}]
    /\ accLock \in [Accounts -> Procs \cup {Free}]
    /\ draft \in [Accounts -> Int]

Touched(p) ==
    CASE stage[p] = "none" -> {}
      [] stage[p] = "debited" -> {Payer(p)}
      [] OTHER -> IF Debits(p) THEN {Payer(p), Payee(p)} ELSE {}

InTransaction(p) ==
    /\ stage[p] # "none" =>
          IF p \in Requests THEN pc[p] \in Committing ELSE rpc[p] = "commit"
    /\ stage[p] \in {"debited", "credited"} => Debits(p)
    /\ {a \in Accounts : accLock[a] = p} = Touched(p)
    /\ stage[p] # "none" /\ Debits(p) =>
          /\ balance[Payer(p)] >= CallOf(p).amount
          /\ draft[Payer(p)] = balance[Payer(p)] - CallOf(p).amount
          /\ stage[p] # "debited" => draft[Payee(p)] = balance[Payee(p)] + CallOf(p).amount

KeysApart ==
    \A r \in Requests :
        stage[r] = "written" => RowsWithKeyOf(r) = {} /\ InsertersOfKeyOf(r) = {}

StillCompleted ==
    \A v \in Reversals :
        /\ rpc[v] = "commit" => HasRow(order[v].row)
        /\ stage[v] = "written" => status[order[v].row] = "COMPLETED"

TxInv ==
    /\ IInv /\ TxTypeOK /\ KeysApart /\ StillCompleted
    /\ \A p \in Procs : InTransaction(p)
=============================================================================
