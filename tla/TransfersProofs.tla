-------------------------- MODULE TransfersProofs --------------------------
(***************************************************************************)
(* Theorems about Transfers and TransferTx, for every bank, every set of   *)
(* requests and every value of the limits.                                 *)
(***************************************************************************)
EXTENDS TransferTx, FiniteSetTheorems, WellFoundedInduction, TLAPS

(***************************************************************************)
(* What the helpers of a request's steps do to the variables they own.     *)
(***************************************************************************)
LEMMA GotoType ==
  ASSUME TypeOK, NEW r \in Requests, NEW from, NEW to \in Awaits, Goto(r, from, to)
  PROVE  pc' \in [Requests -> Awaits]
  BY DEF TypeOK, Goto

LEMMA AnswerType ==
  ASSUME TypeOK, NEW r \in Requests, NEW from, NEW a \in Reply, Answer(r, from, a)
  PROVE  /\ pc' \in [Requests -> Awaits]
         /\ reply' \in [Requests -> Reply]
  BY DEF TypeOK, Goto, Answer, Awaits, Committing

LEMMA RepliesTyped ==
  /\ NoReply \in Reply /\ Refused \in Reply /\ Failed \in Reply
  /\ \A r \in Requests :
       /\ [how |-> "executed", row |-> r, says |-> "completed"] \in Reply
       /\ [how |-> "executed", row |-> r, says |-> "flagged"] \in Reply
       /\ \A st : [how |-> "replayed", row |-> r, says |-> Says(st)] \in Reply
  /\ [how |-> "refused", row |-> NoRow, says |-> "rejected"] \in Reply
  BY DEF NoReply, Refused, Failed, Reply, Says

(***************************************************************************)
(* The fingerprint and the key together determine the call.                *)
(***************************************************************************)
LEMMA CallsEqual ==
  ASSUME NEW c \in Call, NEW d \in Call, Fingerprint(c) = Fingerprint(d), c.key = d.key
  PROVE  c = d
  <1>1. c.user = d.user /\ c.from = d.from /\ c.to = d.to /\ c.amount = d.amount
    BY DEF Fingerprint
  <1> QED
    BY <1>1 DEF Call

LEMMA MovedType ==
  ASSUME TypeOK, NEW c \in Calls
  PROVE  /\ Moved(c.from, c.to, c.amount) \in [Accounts -> Int]
         /\ Moved(c.to, c.from, c.amount) \in [Accounts -> Int]
  <1>1. c.from \in Accounts /\ c.to \in Accounts /\ c.amount \in Nat
    BY CallsAssumption DEF Call
  <1> QED
    BY <1>1 DEF Moved, TypeOK

(***************************************************************************)
(* Type correctness of the transfer service.                               *)
(***************************************************************************)
LEMMA InitTypeOK == Init => TypeOK
  BY FundingAssumption, IdsAssumption, LimitsAssumption
  DEF Init, TypeOK, NoReply, Reply, Status, Orders, Awaits, Committing

LEMMA NextTypeOK == TypeOK /\ [Next]_vars => TypeOK'
  <1> SUFFICES ASSUME TypeOK, [Next]_vars PROVE TypeOK'
    OBVIOUS
  <1>1. ASSUME NEW r \in Requests, Receive(r) PROVE TypeOK'
    <2>1. UNCHANGED <<database, today, call, rserver, order>>
      BY <1>1 DEF Receive
    <2>2. pc' \in [Requests -> Awaits] /\ reply' \in [Requests -> Reply]
      <3>1. CASE Goto(r, "idle", "validate") /\ UNCHANGED reply
        BY <3>1, GotoType DEF TypeOK, Awaits, Committing
      <3>2. ASSUME NEW t \in Requests,
                   Answer(r, "idle", [how |-> "replayed", row |-> t, says |-> Says(status[t])])
            PROVE  pc' \in [Requests -> Awaits] /\ reply' \in [Requests -> Reply]
        BY <3>2, AnswerType, RepliesTyped
      <3>3. CASE Answer(r, "idle", Refused)
        BY <3>3, AnswerType, RepliesTyped
      <3> QED
        BY <1>1, <3>1, <3>2, <3>3 DEF Receive, RowsWithKeyOf
    <2> QED
      BY <2>1, <2>2 DEF TypeOK, database, rserver
  <1>2. ASSUME NEW r \in Requests, Validate(r) PROVE TypeOK'
    <2>1. \/ Goto(r, "validate", "limits") /\ UNCHANGED reply
          \/ Answer(r, "validate", Refused)
      BY <1>2 DEF Validate
    <2>2. pc' \in [Requests -> Awaits] /\ reply' \in [Requests -> Reply]
      BY <2>1, GotoType, AnswerType, RepliesTyped DEF TypeOK, Awaits, Committing
    <2> QED
      BY <1>2, <2>2 DEF Validate, TypeOK, database, rserver
  <1>3. ASSUME NEW r \in Requests, CheckLimits(r) PROVE TypeOK'
    <2>1. \/ Goto(r, "limits", "analyse") /\ UNCHANGED reply
          \/ Answer(r, "limits", Refused)
      BY <1>3 DEF CheckLimits
    <2>2. pc' \in [Requests -> Awaits] /\ reply' \in [Requests -> Reply]
      BY <2>1, GotoType, AnswerType, RepliesTyped DEF TypeOK, Awaits, Committing
    <2> QED
      BY <1>3, <2>2 DEF CheckLimits, TypeOK, database, rserver
  <1>4. ASSUME NEW r \in Requests, Analyse(r) PROVE TypeOK'
    <2>1. PICK verdict \in Committing : Goto(r, "analyse", verdict)
      BY <1>4 DEF Analyse
    <2>2. pc' \in [Requests -> Awaits]
      BY <2>1, GotoType DEF Awaits, Committing
    <2> QED
      BY <1>4, <2>2 DEF Analyse, TypeOK, database, rserver
  <1>5. ASSUME NEW r \in Requests, Complete(r) PROVE TypeOK'
    <2>1. pc' \in [Requests -> Awaits] /\ reply' \in [Requests -> Reply]
      BY <1>5, AnswerType, RepliesTyped DEF Complete, AnswerOrLose
    <2>2. balance' \in [Accounts -> Int]
      BY <1>5, MovedType DEF Complete, TypeOK
    <2>3. status' \in [Requests -> Status] /\ day' \in [Requests -> Nat]
      BY <1>5 DEF Complete, InsertRow, TypeOK, Status
    <2>4. audit' \subseteq AuditLog
      BY <1>5 DEF Complete, Log, TypeOK, AuditLog
    <2> QED
      BY <1>5, <2>1, <2>2, <2>3, <2>4 DEF Complete, AnswerOrLose, TypeOK, rserver
  <1>6. ASSUME NEW r \in Requests, Flag(r) PROVE TypeOK'
    <2>1. pc' \in [Requests -> Awaits] /\ reply' \in [Requests -> Reply]
      BY <1>6, AnswerType, RepliesTyped DEF Flag, AnswerOrLose
    <2>2. status' \in [Requests -> Status] /\ day' \in [Requests -> Nat]
      BY <1>6 DEF Flag, InsertRow, TypeOK, Status
    <2>3. audit' \subseteq AuditLog
      BY <1>6 DEF Flag, Log, TypeOK, AuditLog
    <2>4. alerts' \subseteq Requests
      BY <1>6 DEF Flag, TypeOK
    <2> QED
      BY <1>6, <2>1, <2>2, <2>3, <2>4 DEF Flag, AnswerOrLose, TypeOK, rserver
  <1>7. ASSUME NEW r \in Requests, Reject(r) PROVE TypeOK'
    <2>1. pc' \in [Requests -> Awaits] /\ reply' \in [Requests -> Reply]
      BY <1>7, AnswerType, RepliesTyped DEF Reject, AnswerOrLose
    <2>2. status' \in [Requests -> Status] /\ day' \in [Requests -> Nat]
      BY <1>7 DEF Reject, InsertRow, TypeOK, Status
    <2>3. audit' \subseteq AuditLog
      BY <1>7 DEF Reject, Log, TypeOK, AuditLog
    <2>4. events' \subseteq SecurityEvent
      BY <1>7 DEF Reject, TypeOK, SecurityEvent
    <2> QED
      BY <1>7, <2>1, <2>2, <2>3, <2>4 DEF Reject, AnswerOrLose, TypeOK, rserver
  <1>8. ASSUME NEW r \in Requests, Overdrawn(r) \/ DuplicateKey(r) \/ Fail(r) PROVE TypeOK'
    <2>1. \E p, a : a \in {Refused, Failed} /\ Answer(r, p, a)
      BY <1>8 DEF Overdrawn, DuplicateKey, Fail
    <2>2. pc' \in [Requests -> Awaits] /\ reply' \in [Requests -> Reply]
      BY <2>1, AnswerType, RepliesTyped
    <2>3. UNCHANGED <<database, today, call, rserver, order>>
      BY <1>8 DEF Overdrawn, DuplicateKey, Fail
    <2> QED
      BY <2>2, <2>3 DEF TypeOK, database, rserver
  <1>9. ASSUME NEW v \in Reversals, ReadOriginal(v) PROVE TypeOK'
    BY <1>9 DEF ReadOriginal, GotoR, AnswerR, TypeOK, database, server
  <1>10. ASSUME NEW v \in Reversals, Reverse(v) PROVE TypeOK'
    <2> DEFINE t == order[v].row
    <2>1. t \in Requests
      BY DEF TypeOK, Orders
    <2>2. balance' \in [Accounts -> Int]
      BY <1>10, <2>1, MovedType DEF Reverse, TypeOK
    <2>3. status' \in [Requests -> Status]
      BY <1>10, <2>1 DEF Reverse, TypeOK, Status
    <2>4. audit' \subseteq AuditLog
      BY <1>10, <2>1 DEF Reverse, Log, TypeOK, AuditLog
    <2>5. events' \subseteq SecurityEvent
      BY <1>10 DEF Reverse, TypeOK, SecurityEvent
    <2>6. /\ rpc' \in [Reversals -> {"idle", "commit", "done"}]
          /\ rreply' \in [Reversals -> {"none", "executed", "refused", "failed"}]
      BY <1>10 DEF Reverse, AnswerR, GotoR, TypeOK
    <2> QED
      BY <1>10, <2>2, <2>3, <2>4, <2>5, <2>6 DEF Reverse, TypeOK, server
  <1>11. ASSUME NEW v \in Reversals, ReverseRefused(v) \/ ReverseFail(v) PROVE TypeOK'
    BY <1>11 DEF ReverseRefused, ReverseFail, GotoR, AnswerR, TypeOK, database, server
  <1>12. CASE Midnight
    BY <1>12 DEF Midnight, TypeOK, database, server, rserver
  <1>13. CASE UNCHANGED vars
    BY <1>13 DEF vars, TypeOK, database
  <1> QED
    BY <1>1, <1>2, <1>3, <1>4, <1>5, <1>6, <1>7, <1>8, <1>9, <1>10, <1>11, <1>12, <1>13
    DEF Next, Serve, ServeReversal

THEOREM TypeCorrect == Spec => []TypeOK
  BY InitTypeOK, NextTypeOK, PTL DEF Spec

-----------------------------------------------------------------------------
(***************************************************************************)
(* What the steps of a request do to the parts of the state that the       *)
(* inductive invariant relates.  A quiet step touches no row and no        *)
(* balance; a commit writes the request's own row; a reversal marks one.   *)
(***************************************************************************)
Quiet(r) ==
    \/ Receive(r) \/ Validate(r) \/ CheckLimits(r) \/ Analyse(r)
    \/ Overdrawn(r) \/ DuplicateKey(r) \/ Fail(r)

Replay(r, t) == [how |-> "replayed", row |-> t, says |-> Says(status[t])]

LEMMA QuietStep ==
  ASSUME TypeOK, ChecksMade, NEW r \in Requests, Quiet(r)
  PROVE  /\ UNCHANGED <<balance, status, call>>
         /\ pc[r] # "done"
         /\ \A q \in Requests \ {r} : pc'[q] = pc[q] /\ reply'[q] = reply[q]
         /\ \/ /\ pc'[r] # "done" /\ reply'[r] = reply[r]
               /\ pc'[r] \in {"limits", "analyse"} \cup Committing => Permitted(call[r])
            \/ /\ pc'[r] = "done"
               /\ \/ reply'[r] \in {Refused, Failed}
                  \/ \E t \in RowsWithKeyOf(r) : /\ Fingerprint(call[t]) = Fingerprint(call[r])
                                                 /\ reply'[r] = Replay(r, t)
  <1> USE DEF Goto, Answer, TypeOK, database, Committing
  <1>1. CASE Receive(r)
    BY <1>1 DEF Receive, Replay
  <1>2. CASE Validate(r)
    BY <1>2 DEF Validate
  <1>3. CASE CheckLimits(r)
    BY <1>3 DEF CheckLimits, ChecksMade
  <1>4. CASE Analyse(r)
    BY <1>4 DEF Analyse, ChecksMade
  <1>5. CASE Overdrawn(r) \/ DuplicateKey(r) \/ Fail(r)
    BY <1>5 DEF Overdrawn, DuplicateKey, Fail
  <1> QED
    BY <1>1, <1>2, <1>3, <1>4, <1>5 DEF Quiet

CommitReply(r, st) ==
    IF st = "REJECTED"
    THEN [how |-> "refused", row |-> NoRow, says |-> "rejected"]
    ELSE [how |-> "executed", row |-> r, says |-> Says(st)]

LEMMA CommitStep ==
  ASSUME TypeOK, NEW r \in Requests, Complete(r) \/ Flag(r) \/ Reject(r)
  PROVE  /\ UNCHANGED call
         /\ pc[r] \in Committing /\ RowsWithKeyOf(r) = {}
         /\ \A q \in Requests \ {r} :
               pc'[q] = pc[q] /\ reply'[q] = reply[q] /\ status'[q] = status[q]
         /\ pc'[r] = "done"
         /\ status'[r] \in {"COMPLETED", "FLAGGED", "REJECTED"}
         /\ reply'[r] \in {Failed, CommitReply(r, status'[r])}
         /\ \/ status'[r] # "COMPLETED" /\ UNCHANGED balance
            \/ /\ status'[r] = "COMPLETED"
               /\ balance[call[r].from] >= call[r].amount
               /\ balance' = Moved(call[r].from, call[r].to, call[r].amount)
  <1> USE DEF Goto, Answer, AnswerOrLose, InsertRow, TypeOK, Committing, CommitReply, Says
  <1>1. CASE Complete(r)
    BY <1>1 DEF Complete, Covered
  <1>2. CASE Flag(r)
    BY <1>2 DEF Flag
  <1>3. CASE Reject(r)
    BY <1>3 DEF Reject
  <1> QED
    BY <1>1, <1>2, <1>3

LEMMA ReverseStep ==
  ASSUME TypeOK, NEW v \in Reversals, Reverse(v)
  PROVE  \E t \in Requests :
           /\ status[t] = "COMPLETED" /\ status' = [status EXCEPT ![t] = "REVERSED"]
           /\ balance[call[t].to] >= call[t].amount
           /\ balance' = Moved(call[t].to, call[t].from, call[t].amount)
           /\ UNCHANGED <<call, pc, reply>>
  BY DEF Reverse, ReversalHolds, TypeOK, Orders, server

(***************************************************************************)
(* The steps that concern none of these variables.                         *)
(***************************************************************************)
LEMMA OtherStep ==
  ASSUME \/ \E v \in Reversals : ReadOriginal(v) \/ ReverseRefused(v) \/ ReverseFail(v)
         \/ Midnight \/ UNCHANGED vars
  PROVE  UNCHANGED <<balance, status, call, pc, reply>>
  BY DEF ReadOriginal, ReverseRefused, ReverseFail, Midnight, vars, database, server

-----------------------------------------------------------------------------
(***************************************************************************)
(* An answer already given stays true when rows keep what their message    *)
(* would say, and no row of a refused request appears.                     *)
(***************************************************************************)
LEMMA AnswerStays ==
  ASSUME NEW q \in Requests, AnswerTrue(q), TypeOK,
         UNCHANGED call, reply'[q] = reply[q],
         \A t \in Requests : HasRow(t) => HasRow(t)' /\ Says(status'[t]) = Says(status[t]),
         reply[q].how = "refused" => status'[q] = status[q]
  PROVE  AnswerTrue(q)'
  <1> USE DEF TypeOK
  <1>1. reply[q].row # NoRow => reply[q].row \in Requests
    BY DEF Reply
  <1> QED
    BY <1>1 DEF AnswerTrue

(***************************************************************************)
(* The inductive invariant holds initially and is kept by every step.      *)
(***************************************************************************)
LEMMA InitIInv == Init => IInv
  <1> SUFFICES ASSUME Init PROVE IInv
    OBVIOUS
  <1>1. TypeOK
    BY InitTypeOK
  <1>2. NoOverdraft
    BY FundingAssumption DEF Init, NoOverdraft
  <1>3. OneRowPerKey /\ RowsAreOver
    BY DEF Init, OneRowPerKey, RowsAreOver, HasRow
  <1>4. AnswersAreTrue /\ SilentUntilDone
    BY DEF Init, AnswersAreTrue, AnswerTrue, SilentUntilDone, NoReply
  <1>5. ChecksMade
    BY DEF Init, ChecksMade, HasRow, Committing
  <1> QED
    BY <1>1, <1>2, <1>3, <1>4, <1>5 DEF IInv

LEMMA QuietKeepsIInv ==
  ASSUME IInv, NEW r \in Requests, Quiet(r), TypeOK'
  PROVE  IInv'
  <1> USE DEF IInv
  <1>1. /\ UNCHANGED <<balance, status, call>>
        /\ pc[r] # "done"
        /\ \A q \in Requests \ {r} : pc'[q] = pc[q] /\ reply'[q] = reply[q]
    BY QuietStep
  <1>2. NoOverdraft' /\ OneRowPerKey'
    BY <1>1 DEF NoOverdraft, OneRowPerKey, HasRow
  <1>3. RowsAreOver'
    BY <1>1 DEF RowsAreOver, HasRow
  <1>4. ChecksMade'
    BY <1>1, QuietStep DEF ChecksMade, HasRow, RowsAreOver, Committing
  <1>5. SilentUntilDone'
    BY <1>1, QuietStep DEF SilentUntilDone
  <1>6. ASSUME NEW q \in Requests PROVE AnswerTrue(q)'
    <2>1. CASE reply'[q] = reply[q]
      BY <1>1, <2>1, AnswerStays DEF AnswersAreTrue, HasRow
    <2>2. CASE q = r /\ reply'[r] \in {Refused, Failed}
      BY <1>1, <2>2 DEF AnswerTrue, Refused, Failed, RowsAreOver, HasRow
    <2>3. ASSUME q = r, NEW t \in RowsWithKeyOf(r),
                 Fingerprint(call[t]) = Fingerprint(call[r]), reply'[r] = Replay(r, t)
          PROVE  AnswerTrue(q)'
      <3>1. call[t] = call[r]
        <4>1. call[t] \in Call /\ call[r] \in Call
          BY <2>3, CallsAssumption DEF RowsWithKeyOf, TypeOK
        <4>2. call[t].key = call[r].key
          BY <2>3 DEF RowsWithKeyOf
        <4> QED
          BY <2>3, <4>1, <4>2, CallsEqual
      <3> QED
        BY <1>1, <2>3, <3>1 DEF AnswerTrue, Replay, RowsWithKeyOf, HasRow
    <2> QED
      BY <1>1, <2>1, <2>2, <2>3, QuietStep
  <1> QED
    BY <1>2, <1>3, <1>4, <1>5, <1>6 DEF AnswersAreTrue

LEMMA CommitKeepsIInv ==
  ASSUME IInv, NEW r \in Requests, Complete(r) \/ Flag(r) \/ Reject(r), TypeOK'
  PROVE  IInv'
  <1> USE DEF IInv
  <1>1. /\ UNCHANGED call
        /\ pc[r] \in Committing /\ RowsWithKeyOf(r) = {}
        /\ \A q \in Requests \ {r} :
              pc'[q] = pc[q] /\ reply'[q] = reply[q] /\ status'[q] = status[q]
        /\ pc'[r] = "done"
        /\ status'[r] \in {"COMPLETED", "FLAGGED", "REJECTED"}
        /\ reply'[r] \in {Failed, CommitReply(r, status'[r])}
    BY CommitStep
  <1>2. status[r] = "NONE" /\ Permitted(call[r])
    BY <1>1 DEF RowsAreOver, ChecksMade, HasRow, Committing
  <1>3. NoOverdraft'
    <2>1. CASE UNCHANGED balance
      BY <2>1 DEF NoOverdraft
    <2>2. CASE /\ balance[call[r].from] >= call[r].amount
               /\ balance' = Moved(call[r].from, call[r].to, call[r].amount)
      BY <1>2, <2>2, CallsAssumption DEF NoOverdraft, Moved, TypeOK, Permitted, Call
    <2> QED
      BY <2>1, <2>2, CommitStep
  <1>4. OneRowPerKey'
    BY <1>1, <1>2 DEF OneRowPerKey, HasRow, RowsWithKeyOf
  <1>5. RowsAreOver' /\ SilentUntilDone'
    BY <1>1 DEF RowsAreOver, SilentUntilDone, HasRow
  <1>6. ChecksMade'
    BY <1>1, <1>2 DEF ChecksMade, HasRow
  <1>7. ASSUME NEW q \in Requests PROVE AnswerTrue(q)'
    <2>1. CASE q # r
      BY <1>1, <1>2, <2>1, AnswerStays DEF AnswersAreTrue, HasRow
    <2>2. CASE q = r
      BY <1>1, <2>2, IdsAssumption DEF AnswerTrue, Failed, CommitReply, Says, HasRow
    <2> QED
      BY <2>1, <2>2
  <1> QED
    BY <1>3, <1>4, <1>5, <1>6, <1>7 DEF AnswersAreTrue

LEMMA ReverseKeepsIInv ==
  ASSUME IInv, NEW v \in Reversals, Reverse(v), TypeOK'
  PROVE  IInv'
  <1> USE DEF IInv
  <1>1. PICK t \in Requests :
           /\ status[t] = "COMPLETED" /\ status' = [status EXCEPT ![t] = "REVERSED"]
           /\ balance[call[t].to] >= call[t].amount
           /\ balance' = Moved(call[t].to, call[t].from, call[t].amount)
           /\ UNCHANGED <<call, pc, reply>>
    BY ReverseStep
  <1>2. \A q \in Requests : /\ HasRow(q) <=> HasRow(q)'
                            /\ Says(status'[q]) = Says(status[q])
                            /\ status[q] # "COMPLETED" => status'[q] = status[q]
    BY <1>1 DEF TypeOK, HasRow, Says
  <1>3. Permitted(call[t])
    BY <1>1 DEF ChecksMade, HasRow
  <1>4. NoOverdraft'
    BY <1>1, <1>3, CallsAssumption DEF NoOverdraft, Moved, TypeOK, Permitted, Call
  <1>5. OneRowPerKey' /\ RowsAreOver' /\ SilentUntilDone' /\ ChecksMade'
    BY <1>1, <1>2 DEF OneRowPerKey, RowsAreOver, SilentUntilDone, ChecksMade
  <1>6. ASSUME NEW q \in Requests PROVE AnswerTrue(q)'
    <2>1. reply[q].how = "refused" => status[q] # "COMPLETED"
      BY DEF AnswersAreTrue, AnswerTrue
    <2> QED
      BY <1>1, <1>2, <2>1, AnswerStays DEF AnswersAreTrue
  <1> QED
    BY <1>4, <1>5, <1>6 DEF AnswersAreTrue

LEMMA OtherKeepsIInv ==
  ASSUME IInv, TypeOK', UNCHANGED <<balance, status, call, pc, reply>>
  PROVE  IInv'
  BY DEF IInv, NoOverdraft, OneRowPerKey, AnswersAreTrue, AnswerTrue, RowsAreOver,
         SilentUntilDone, ChecksMade, HasRow, Says

LEMMA NextIInv == IInv /\ [Next]_vars => IInv'
  <1> SUFFICES ASSUME IInv, [Next]_vars PROVE IInv'
    OBVIOUS
  <1>1. TypeOK'
    BY NextTypeOK DEF IInv
  <1>2. ASSUME NEW r \in Requests, Quiet(r) PROVE IInv'
    BY <1>1, <1>2, QuietKeepsIInv
  <1>3. ASSUME NEW r \in Requests, Complete(r) \/ Flag(r) \/ Reject(r) PROVE IInv'
    BY <1>1, <1>3, CommitKeepsIInv
  <1>4. ASSUME NEW v \in Reversals, Reverse(v) PROVE IInv'
    BY <1>1, <1>4, ReverseKeepsIInv
  <1>5. CASE \/ \E v \in Reversals : ReadOriginal(v) \/ ReverseRefused(v) \/ ReverseFail(v)
             \/ Midnight \/ UNCHANGED vars
    BY <1>1, <1>5, OtherStep, OtherKeepsIInv
  <1> QED
    BY <1>2, <1>3, <1>4, <1>5 DEF Next, Serve, ServeReversal, Quiet

(***************************************************************************)
(* The inductive invariant is an invariant, and with it each of its parts. *)
(***************************************************************************)
THEOREM Invariance == Spec => []IInv
  BY InitIInv, NextIInv, PTL DEF Spec

(***************************************************************************)
(* No account is ever overdrawn.                                           *)
(***************************************************************************)
THEOREM NeverOverdrawn == Spec => []NoOverdraft
  <1>1. IInv => NoOverdraft
    BY DEF IInv
  <1> QED
    BY <1>1, Invariance, PTL

(***************************************************************************)
(* No idempotency key ever has two rows, so it pays at most once.          *)
(***************************************************************************)
THEOREM KeysPayOnce == Spec => []OneRowPerKey
  <1>1. IInv => OneRowPerKey
    BY DEF IInv
  <1> QED
    BY <1>1, Invariance, PTL

(***************************************************************************)
(* Every answer given, replays included, is true and stays true.           *)
(***************************************************************************)
THEOREM AnswersStayTrue == Spec => []AnswersAreTrue
  <1>1. IInv => AnswersAreTrue
    BY DEF IInv
  <1> QED
    BY <1>1, Invariance, PTL

-----------------------------------------------------------------------------
(***************************************************************************)
(* A row, once written, only ever changes from COMPLETED to REVERSED, in a *)
(* step that gives the sender the money back.                              *)
(***************************************************************************)
THEOREM RowsAreFinal == Spec => RowsOnlyReverse
  <1>1. ASSUME IInv, [Next]_vars PROVE [\A t \in Requests : RowStep(t)]_vars
    <2> USE <1>1 DEF IInv
    <2>1. ASSUME NEW r \in Requests, Quiet(r) PROVE \A t \in Requests : RowStep(t)
      BY <2>1, QuietStep DEF RowStep
    <2>2. ASSUME NEW r \in Requests, Complete(r) \/ Flag(r) \/ Reject(r)
          PROVE  \A t \in Requests : RowStep(t)
      BY <2>2, CommitStep DEF RowStep, RowsAreOver, HasRow, Committing
    <2>3. ASSUME NEW v \in Reversals, Reverse(v) PROVE \A t \in Requests : RowStep(t)
      <3>1. PICK t \in Requests :
               /\ status[t] = "COMPLETED" /\ status' = [status EXCEPT ![t] = "REVERSED"]
               /\ balance' = Moved(call[t].to, call[t].from, call[t].amount)
        BY <2>3, ReverseStep
      <3>2. Permitted(call[t]) /\ call[t] \in Call
        BY <3>1, CallsAssumption DEF ChecksMade, HasRow, TypeOK
      <3> QED
        BY <3>1, <3>2 DEF RowStep, TypeOK, Moved, Permitted, Call
    <2>4. CASE \/ \E v \in Reversals : ReadOriginal(v) \/ ReverseRefused(v) \/ ReverseFail(v)
               \/ Midnight
      BY <2>4, OtherStep DEF RowStep
    <2> QED
      BY <2>1, <2>2, <2>3, <2>4 DEF Next, Serve, ServeReversal, Quiet
  <1> QED
    BY <1>1, Invariance, PTL DEF Spec, RowsOnlyReverse

(***************************************************************************)
(* Transfers implements Ledger: every step posts a payment, undoes one, or *)
(* leaves the ledger as it is.                                             *)
(***************************************************************************)
THEOREM TransfersImplementsLedger == Spec => ImplementsLedger
  <1>1. Init => L!Init
    BY DEF Init, L!Init, Posted, Undone
  <1>2. ASSUME IInv, [Next]_vars PROVE [L!Next]_(L!vars)
    <2> USE <1>2 DEF IInv
    <2>1. ASSUME NEW r \in Requests, Quiet(r) PROVE UNCHANGED L!vars
      BY <2>1, QuietStep DEF L!vars, Posted, Undone
    <2>2. ASSUME NEW r \in Requests, Complete(r) \/ Flag(r) \/ Reject(r)
          PROVE  L!Post(r) \/ UNCHANGED L!vars
      <3>1. status[r] = "NONE" /\ Permitted(call[r])
        BY <2>2, CommitStep DEF RowsAreOver, ChecksMade, HasRow, Committing
      <3>2. CASE UNCHANGED balance /\ status'[r] # "COMPLETED"
        BY <2>2, <3>1, <3>2, CommitStep DEF L!vars, Posted, Undone
      <3>3. CASE /\ status'[r] = "COMPLETED"
                 /\ balance[call[r].from] >= call[r].amount
                 /\ balance' = Moved(call[r].from, call[r].to, call[r].amount)
        <4>1. r \notin Posted /\ Posted' = Posted \cup {r} /\ Undone' = Undone
          BY <2>2, <3>1, <3>3, CommitStep DEF Posted, Undone
        <4>2. \A q \in Posted : ~L!SameKey(r, q)
          BY <2>2, CommitStep DEF Posted, L!SameKey, RowsWithKeyOf, HasRow
        <4>3. L!Move(call[r].from, call[r].to, call[r].amount)
          BY <3>1, <3>3 DEF L!Move, Moved, Permitted
        <4> QED
          BY <2>2, <4>1, <4>2, <4>3, CommitStep DEF L!Post
      <3> QED
        BY <2>2, <3>2, <3>3, CommitStep
    <2>3. ASSUME NEW v \in Reversals, Reverse(v) PROVE \E t \in Requests : L!Undo(t)
      <3>1. PICK t \in Requests :
               /\ status[t] = "COMPLETED" /\ status' = [status EXCEPT ![t] = "REVERSED"]
               /\ balance[call[t].to] >= call[t].amount
               /\ balance' = Moved(call[t].to, call[t].from, call[t].amount)
               /\ UNCHANGED <<call, pc, reply>>
        BY <2>3, ReverseStep
      <3>2. /\ t \in Posted \ Undone
            /\ Undone' = Undone \cup {t} /\ Posted' = Posted
        BY <3>1 DEF Posted, Undone, TypeOK
      <3>3. L!Move(call[t].to, call[t].from, call[t].amount)
        BY <3>1 DEF L!Move, Moved, Permitted, ChecksMade, HasRow
      <3> QED
        BY <3>1, <3>2, <3>3 DEF L!Undo
    <2>4. CASE \/ \E v \in Reversals : ReadOriginal(v) \/ ReverseRefused(v) \/ ReverseFail(v)
               \/ Midnight \/ UNCHANGED vars
      BY <2>4, OtherStep DEF L!vars, Posted, Undone
    <2> QED
      BY <2>1, <2>2, <2>3, <2>4 DEF Next, Serve, ServeReversal, Quiet, L!Next
  <1> QED
    BY <1>1, <1>2, Invariance, PTL DEF Spec, L!Spec, ImplementsLedger

-----------------------------------------------------------------------------
(***************************************************************************)
(* The records of a row: those its own request wrote.                      *)
(***************************************************************************)
RecordsOf(t) == {x \in audit : x.row = t /\ x.by = t}

RowTrail(t) ==
    /\ {e.action : e \in RecordsOf(t)} = CreationAudit(status[t])
    /\ t \in alerts <=> status[t] = "FLAGGED"
    /\ [type |-> "FRAUD_SERVICE_UNAVAILABLE", by |-> t] \in events <=> status[t] = "REJECTED"

\* A row none of whose records or columns a step touches keeps its trail.
LEMMA TrailStays ==
  ASSUME NEW t, RowTrail(t), status'[t] = status[t], RecordsOf(t)' = RecordsOf(t),
         t \in alerts' <=> t \in alerts,
         [type |-> "FRAUD_SERVICE_UNAVAILABLE", by |-> t] \in events'
            <=> [type |-> "FRAUD_SERVICE_UNAVAILABLE", by |-> t] \in events
  PROVE  RowTrail(t)'
  BY DEF RowTrail

\* The records a commit adds are those of the request that commits.
LEMMA CommitTrail ==
  ASSUME TypeOK, NEW r \in Requests, Complete(r) \/ Flag(r) \/ Reject(r),
         status[r] = "NONE", RowTrail(r)
  PROVE  RowTrail(r)'
  <1>1. RecordsOf(r) = {} /\ r \notin alerts
        /\ [type |-> "FRAUD_SERVICE_UNAVAILABLE", by |-> r] \notin events
    BY DEF RowTrail, CreationAudit
  <1>2. ASSUME NEW action, Log(action, r, r)
        PROVE  {e.action : e \in RecordsOf(r)'} = {action}
    <2>1. RecordsOf(r)' = {[action |-> action, row |-> r, by |-> r]}
      BY <1>1, <1>2 DEF Log, RecordsOf
    <2> QED
      BY <2>1
  <1> USE DEF InsertRow, TypeOK
  <1>3. CASE Complete(r)
    <2>1. status'[r] = "COMPLETED" /\ UNCHANGED <<alerts, events>>
          /\ Log("TRANSFER_COMPLETED", r, r)
      BY <1>3 DEF Complete
    <2> QED
      BY <1>1, <1>2, <2>1 DEF RowTrail, CreationAudit
  <1>4. CASE Flag(r)
    <2>1. status'[r] = "FLAGGED" /\ alerts' = alerts \cup {r} /\ UNCHANGED events
          /\ Log("TRANSFER_FLAGGED", r, r)
      BY <1>4 DEF Flag
    <2> QED
      BY <1>1, <1>2, <2>1 DEF RowTrail, CreationAudit
  <1>5. CASE Reject(r)
    <2>1. /\ status'[r] = "REJECTED" /\ UNCHANGED alerts
          /\ events' = events \cup {[type |-> "FRAUD_SERVICE_UNAVAILABLE", by |-> r]}
          /\ Log("TRANSFER_REJECTED_FRAUD_SERVICE_UNAVAILABLE", r, r)
      BY <1>5 DEF Reject
    <2> QED
      BY <1>1, <1>2, <2>1 DEF RowTrail, CreationAudit
  <1> QED
    BY <1>3, <1>4, <1>5

LEMMA CommitTrailOfOthers ==
  ASSUME TypeOK, NEW r \in Requests, Complete(r) \/ Flag(r) \/ Reject(r),
         NEW t \in Requests \ {r}, RowTrail(t)
  PROVE  RowTrail(t)'
  <1>1. \E action : Log(action, r, r)
    BY DEF Complete, Flag, Reject
  <1>2. RecordsOf(t)' = RecordsOf(t)
    BY <1>1 DEF Log, RecordsOf
  <1>3. status'[t] = status[t]
    BY CommitStep
  <1>4. /\ t \in alerts' <=> t \in alerts
        /\ [type |-> "FRAUD_SERVICE_UNAVAILABLE", by |-> t] \in events'
              <=> [type |-> "FRAUD_SERVICE_UNAVAILABLE", by |-> t] \in events
    BY DEF Complete, Flag, Reject
  <1> QED
    BY <1>2, <1>3, <1>4, TrailStays

\* A reversal's records name the reversal, so they are no row's own.
LEMMA ReverseTrail ==
  ASSUME TypeOK, NEW v \in Reversals, Reverse(v), NEW t \in Requests, RowTrail(t)
  PROVE  RowTrail(t)'
  <1>1. t # v
    BY IdsAssumption
  <1>2. RecordsOf(t)' = RecordsOf(t)
    BY <1>1 DEF Reverse, Log, RecordsOf
  <1>3. /\ t \in alerts' <=> t \in alerts
        /\ [type |-> "FRAUD_SERVICE_UNAVAILABLE", by |-> t] \in events'
              <=> [type |-> "FRAUD_SERVICE_UNAVAILABLE", by |-> t] \in events
    BY DEF Reverse
  <1>4. \/ status'[t] = status[t]
        \/ status[t] = "COMPLETED" /\ status'[t] = "REVERSED"
    BY ReverseStep DEF TypeOK
  <1>5. CASE status'[t] = status[t]
    BY <1>2, <1>3, <1>5, TrailStays
  <1>6. CASE status[t] = "COMPLETED" /\ status'[t] = "REVERSED"
    BY <1>2, <1>3, <1>6 DEF RowTrail, CreationAudit
  <1> QED
    BY <1>4, <1>5, <1>6

(***************************************************************************)
(* Every row has exactly the audit record, the alert and the event that    *)
(* its outcome calls for, and nothing has them without its row.            *)
(***************************************************************************)
THEOREM TrailIsExact == Spec => []TrailMatchesRows
  <1> DEFINE Trail == \A t \in Requests : RowTrail(t)
  <1>1. Init => Trail
    BY DEF Init, RowTrail, RecordsOf, CreationAudit
  <1>2. ASSUME IInv, Trail, [Next]_vars PROVE Trail'
    <2> USE <1>2 DEF IInv
    <2>1. CASE UNCHANGED <<status, audit, events, alerts>>
      BY <2>1, TrailStays DEF RecordsOf
    <2>2. ASSUME NEW r \in Requests, Complete(r) \/ Flag(r) \/ Reject(r) PROVE Trail'
      <3>1. status[r] = "NONE"
        BY <2>2, CommitStep DEF RowsAreOver, HasRow, Committing
      <3> QED
        BY <2>2, <3>1, CommitTrail, CommitTrailOfOthers
    <2>3. ASSUME NEW v \in Reversals, Reverse(v) PROVE Trail'
      BY <2>3, ReverseTrail
    <2>4. ASSUME NEW r \in Requests, Quiet(r) PROVE UNCHANGED <<status, audit, events, alerts>>
      BY <2>4 DEF Quiet, Receive, Validate, CheckLimits, Analyse, Overdrawn, DuplicateKey, Fail,
                  database
    <2>5. ASSUME \/ \E v \in Reversals : ReadOriginal(v) \/ ReverseRefused(v) \/ ReverseFail(v)
                 \/ Midnight \/ UNCHANGED vars
          PROVE  UNCHANGED <<status, audit, events, alerts>>
      BY <2>5 DEF ReadOriginal, ReverseRefused, ReverseFail, Midnight, vars, database
    <2> HIDE DEF Trail
    <2> QED
      BY <2>1, <2>2, <2>3, <2>4, <2>5 DEF Next, Serve, ServeReversal, Quiet
  <1>3. Trail => TrailMatchesRows
    BY DEF RowTrail, RecordsOf, TrailMatchesRows
  <1> HIDE DEF Trail
  <1> QED
    BY <1>1, <1>2, <1>3, Invariance, PTL DEF Spec

-----------------------------------------------------------------------------
(***************************************************************************)
(* Conservation of money.  A sum over a set is defined by recursion on the *)
(* set; what it amounts to is proved from the least set on which a claim   *)
(* fails.                                                                  *)
(***************************************************************************)
\* The equation that defines a sum: take an element away, whichever is chosen.
Recursion(c, S, h) ==
    h = [s \in SUBSET S |->
            IF s = {} THEN 0
            ELSE c[CHOOSE x \in s : TRUE].amount + h[s \ {CHOOSE x \in s : TRUE}]]

\* ... and that it is, whichever element one takes away.
IsSum(c, S, g) ==
    /\ g \in [SUBSET S -> Int] /\ g[{}] = 0
    /\ \A T \in SUBSET S : \A p \in T : g[T] = c[p].amount + g[T \ {p}]

LEMMA AmountsRecursion ==
    ASSUME NEW c, NEW S
    PROVE  L!Amounts(c, S) = (CHOOSE h : Recursion(c, S, h))[S]
BY DEF L!Amounts, L!MapThenSumSet, L!MapThenFoldSet, Recursion

LEMMA Chosen ==
    ASSUME NEW c, NEW S, NEW g, Recursion(c, S, g)
    PROVE  Recursion(c, S, CHOOSE h : Recursion(c, S, h))
OBVIOUS

\* What holds of no smallest set holds of no set at all.
LEMMA SmallestSubset ==
    ASSUME NEW S, IsFiniteSet(S), NEW Bad, Bad \subseteq SUBSET S, Bad # {}
    PROVE  \E T \in Bad : \A p \in T : T \ {p} \notin Bad
<1>1. IsWellFoundedOn(StrictSubsetOrdering(S), FiniteSubsetsOf(S))
  BY FS_StrictSubsetOrderingWellFounded
<1>2. FiniteSubsetsOf(S) = SUBSET S
  BY FS_FiniteSubsetsOfFinite
<1>3. PICK T \in Bad : \A U \in Bad : <<U, T>> \notin StrictSubsetOrdering(S)
  <2> DEFINE R == StrictSubsetOrdering(S)
  <2>1. IsWellFoundedOn(R, SUBSET S)
    BY <1>1, <1>2
  <2> HIDE DEF R
  <2>2. \E T \in Bad : \A U \in Bad : ~(<<U, T>> \in R)
    BY <2>1, WFMin
  <2> QED
    BY <2>2 DEF R
<1>4. ASSUME NEW p \in T, T \ {p} \in Bad PROVE FALSE
  <2> DEFINE U == T \ {p}
  <2>1. U \in SUBSET S /\ T \in SUBSET S /\ U \subseteq T /\ U # T
    OBVIOUS
  <2>2. <<U, T>> \in StrictSubsetOrdering(S)
    BY <2>1 DEF StrictSubsetOrdering
  <2> QED
    BY <1>3, <1>4, <2>2
<1> QED
  BY <1>3, <1>4

Longer(c, S, p, g) ==
    [T \in SUBSET (S \cup {p}) |-> IF p \in T THEN c[p].amount + g[T \ {p}] ELSE g[T]]

LEMMA SumExtends ==
    ASSUME NEW c, NEW S, NEW p, NEW g, IsSum(c, S, g), p \notin S,
           \A q \in S \cup {p} : c[q].amount \in Int
    PROVE  IsSum(c, S \cup {p}, Longer(c, S, p, g)) /\ Longer(c, S, p, g)[S] = g[S]
<1> DEFINE h == Longer(c, S, p, g)
<1> USE DEF Longer
<1>1. g \in [SUBSET S -> Int] /\ g[{}] = 0
  BY DEF IsSum
<1>2. \A T \in SUBSET (S \cup {p}) : T \ {p} \in SUBSET S /\ (p \notin T => T \in SUBSET S)
  OBVIOUS
<1>3. h \in [SUBSET (S \cup {p}) -> Int] /\ h[{}] = 0
  BY <1>1, <1>2
<1>4. ASSUME NEW T \in SUBSET (S \cup {p}), NEW q \in T
      PROVE  h[T] = c[q].amount + h[T \ {q}]
  <2>0. T \ {q} \in SUBSET (S \cup {p})
    OBVIOUS
  <2>1. CASE q = p
    <3>1. h[T] = c[p].amount + g[T \ {p}] /\ h[T \ {p}] = g[T \ {p}]
      BY <2>0, <2>1
    <3> QED
      BY <2>1, <3>1
  <2>2. CASE q # p /\ p \notin T
    <3>1. T \in SUBSET S /\ h[T] = g[T] /\ h[T \ {q}] = g[T \ {q}]
      BY <2>0, <2>2
    <3> QED
      BY <3>1 DEF IsSum
  <2>3. CASE q # p /\ p \in T
    <3> DEFINE U == T \ {p}
    <3>1. U \in SUBSET S /\ q \in U /\ (T \ {q}) \ {p} = U \ {q} /\ U \ {q} \in SUBSET S
      BY <2>3
    <3>2. h[T] = c[p].amount + g[U] /\ h[T \ {q}] = c[p].amount + g[U \ {q}]
      BY <2>0, <2>3, <3>1
    <3>3. g[U] = c[q].amount + g[U \ {q}]
      BY <3>1 DEF IsSum
    <3>4. g[U \ {q}] \in Int /\ c[q].amount \in Int
      BY <1>1, <3>1
    <3> HIDE DEF U, h
    <3> QED
      BY <3>2, <3>3, <3>4
  <2> QED
    BY <2>1, <2>2, <2>3
<1>5. h[S] = g[S]
  OBVIOUS
<1>6. IsSum(c, S \cup {p}, h)
  BY <1>3, <1>4 DEF IsSum
<1> QED
  BY <1>5, <1>6

LEMMA SumExists ==
    ASSUME NEW c, NEW S, IsFiniteSet(S), \A q \in S : c[q].amount \in Int
    PROVE  \E g : IsSum(c, S, g)
<1> DEFINE Bad == {T \in SUBSET S : ~\E g : IsSum(c, T, g)}
<1> SUFFICES ASSUME Bad # {} PROVE FALSE
  OBVIOUS
<1>1. PICK T \in Bad : \A p \in T : T \ {p} \notin Bad
  <2>1. Bad \subseteq SUBSET S
    OBVIOUS
  <2> HIDE DEF Bad
  <2> QED
    BY <2>1, SmallestSubset
<1>2. T \in SUBSET S /\ ~\E g : IsSum(c, T, g)
  BY <1>1
<1>3. CASE T = {}
  <2> DEFINE g == [s \in SUBSET {} |-> 0]
  <2>1. IsSum(c, {}, g)
    BY DEF IsSum
  <2> QED
    BY <1>2, <1>3, <2>1
<1>4. CASE T # {}
  <2>1. PICK p \in T : TRUE
    BY <1>4
  <2>2. PICK g : IsSum(c, T \ {p}, g)
    BY <1>1, <1>2
  <2>3. (T \ {p}) \cup {p} = T
    OBVIOUS
  <2>4. \A q \in (T \ {p}) \cup {p} : c[q].amount \in Int
    BY <1>2
  <2>5. IsSum(c, (T \ {p}) \cup {p}, Longer(c, T \ {p}, p, g))
    BY <2>2, <2>4, SumExtends
  <2> QED
    BY <1>2, <2>3, <2>5
<1> QED
  BY <1>3, <1>4

\* Sums do not depend on the order in which elements are chosen.
LEMMA AmountsAreSums ==
    ASSUME NEW c, NEW S, IsFiniteSet(S), NEW g, IsSum(c, S, g)
    PROVE  L!Amounts(c, S) = g[S]
<1> DEFINE Taken(T) == CHOOSE x \in T : TRUE
<1> DEFINE h == CHOOSE f : Recursion(c, S, f)
<1>1. \A T \in SUBSET S : T # {} => Taken(T) \in T
  OBVIOUS
<1>2. Recursion(c, S, g)
  <2>1. g = [T \in SUBSET S |-> g[T]]
    BY DEF IsSum
  <2>2. \A T \in SUBSET S : g[T] = IF T = {} THEN 0 ELSE c[Taken(T)].amount + g[T \ {Taken(T)}]
    BY <1>1 DEF IsSum
  <2> QED
    BY <2>1, <2>2 DEF Recursion
<1>3. Recursion(c, S, h)
  BY <1>2, Chosen
<1>4. \A T \in SUBSET S : h[T] = IF T = {} THEN 0 ELSE c[Taken(T)].amount + h[T \ {Taken(T)}]
  <2> HIDE DEF h
  <2> QED
    BY <1>3 DEF Recursion
<1> DEFINE Bad == {T \in SUBSET S : h[T] # g[T]}
<1>5. Bad = {}
  <2> SUFFICES ASSUME Bad # {} PROVE FALSE
    OBVIOUS
  <2> HIDE DEF h
  <2>1. PICK T \in Bad : \A p \in T : T \ {p} \notin Bad
    <3>1. Bad \subseteq SUBSET S
      OBVIOUS
    <3> HIDE DEF Bad
    <3> QED
      BY <3>1, SmallestSubset
  <2>2. CASE T = {}
    BY <1>4, <2>2 DEF IsSum
  <2>3. CASE T # {}
    <3> DEFINE p == Taken(T)
    <3>1. p \in T
      BY <1>1, <2>3
    <3>2. h[T] = c[p].amount + h[T \ {p}]
      BY <1>4, <2>3
    <3>3. g[T] = c[p].amount + g[T \ {p}]
      BY <3>1 DEF IsSum
    <3>4. h[T \ {p}] = g[T \ {p}]
      BY <2>1, <3>1
    <3> QED
      BY <2>1, <3>2, <3>3, <3>4
  <2> QED
    BY <2>2, <2>3
<1>6. h[S] = g[S]
  <2> HIDE DEF h
  <2> QED
    BY <1>5
<1> QED
  BY <1>6, AmountsRecursion

LEMMA AmountsOfNone == ASSUME NEW c PROVE L!Amounts(c, {}) = 0
<1>1. IsFiniteSet({})
  BY FS_EmptySet
<1>2. PICK g : IsSum(c, {}, g)
  BY <1>1, SumExists
<1> QED
  BY <1>1, <1>2, AmountsAreSums DEF IsSum

LEMMA AmountsAdd ==
    ASSUME NEW c, NEW S, IsFiniteSet(S), NEW p, p \notin S,
           \A q \in S \cup {p} : c[q].amount \in Int
    PROVE  L!Amounts(c, S \cup {p}) = c[p].amount + L!Amounts(c, S) /\ L!Amounts(c, S) \in Int
<1>0. c[p].amount \in Int /\ \A q \in S : c[q].amount \in Int
  OBVIOUS
<1>1. PICK g : IsSum(c, S, g)
  BY <1>0, SumExists
<1> DEFINE h == Longer(c, S, p, g)
<1>2. IsSum(c, S \cup {p}, h) /\ h[S] = g[S]
  BY <1>1, SumExtends
<1>3. IsFiniteSet(S \cup {p})
  BY FS_AddElement
<1>4. L!Amounts(c, S) = g[S] /\ L!Amounts(c, S \cup {p}) = h[S \cup {p}]
  BY <1>1, <1>2, <1>3, AmountsAreSums
<1>5. g[S] \in Int
  BY <1>1 DEF IsSum
<1>6. h[S \cup {p}] = c[p].amount + h[S]
  <2>1. S \cup {p} \in SUBSET (S \cup {p}) /\ p \in S \cup {p} /\ (S \cup {p}) \ {p} = S
    OBVIOUS
  <2> QED
    BY <1>2, <2>1 DEF IsSum
<1> QED
  BY <1>2, <1>4, <1>5, <1>6

(***************************************************************************)
(* Posted payments are finitely many, one more with each step.             *)
(***************************************************************************)
Explained == IsFiniteSet(Posted) /\ BalancesExplained

To(c, F, a) == {p \in F : c[p].to = a}
From(c, F, a) == {p \in F : c[p].from = a}

\* The balance of a when the payments in F are in force.
Due(c, F, a) == Funding[a] + L!Amounts(c, To(c, F, a)) - L!Amounts(c, From(c, F, a))

LEMMA ExplainedBy ==
  BalancesExplained <=> \A a \in Accounts : balance[a] = Due(call, L!InForce, a)
  BY DEF BalancesExplained, L!BalancesExplained, L!Total, Due, To, From

\* What a payment that is not in force would make due.
LEMMA DueChanges ==
  ASSUME NEW c \in [Requests -> Calls], NEW F \in SUBSET Requests, IsFiniteSet(F),
         NEW p \in Requests \ F, NEW a \in Accounts
  PROVE  /\ Due(c, F, a) \in Int
         /\ Due(c, F \cup {p}, a) = Due(c, F, a) + (IF c[p].to = a THEN c[p].amount ELSE 0)
                                                 - (IF c[p].from = a THEN c[p].amount ELSE 0)
  <1>1. \A q \in Requests : c[q].amount \in Int
    BY CallsAssumption DEF Call
  <1>2. ASSUME NEW S \in SUBSET F
        PROVE  /\ L!Amounts(c, S \cup {p}) = L!Amounts(c, S) + c[p].amount
               /\ L!Amounts(c, S) \in Int
    <2>1. IsFiniteSet(S) /\ p \notin S /\ \A q \in S \cup {p} : c[q].amount \in Int
      BY <1>1, FS_Subset
    <2>2. L!Amounts(c, S \cup {p}) = c[p].amount + L!Amounts(c, S) /\ L!Amounts(c, S) \in Int
      BY <2>1, AmountsAdd
    <2> QED
      BY <1>1, <2>2
  <1>3. /\ To(c, F \cup {p}, a) = IF c[p].to = a THEN To(c, F, a) \cup {p} ELSE To(c, F, a)
        /\ From(c, F \cup {p}, a) = IF c[p].from = a THEN From(c, F, a) \cup {p} ELSE From(c, F, a)
        /\ To(c, F, a) \in SUBSET F /\ From(c, F, a) \in SUBSET F
    BY DEF To, From
  <1>4. Funding[a] \in Int /\ c[p].amount \in Int
    BY <1>1, FundingAssumption
  <1>5. /\ L!Amounts(c, To(c, F \cup {p}, a))
             = L!Amounts(c, To(c, F, a)) + (IF c[p].to = a THEN c[p].amount ELSE 0)
        /\ L!Amounts(c, From(c, F \cup {p}, a))
             = L!Amounts(c, From(c, F, a)) + (IF c[p].from = a THEN c[p].amount ELSE 0)
        /\ L!Amounts(c, To(c, F, a)) \in Int /\ L!Amounts(c, From(c, F, a)) \in Int
    <2> DEFINE A(S) == L!Amounts(c, S)
               T == To(c, F, a)
               U == From(c, F, a)
    <2>1. /\ A(T \cup {p}) = A(T) + c[p].amount /\ A(T) \in Int
          /\ A(U \cup {p}) = A(U) + c[p].amount /\ A(U) \in Int
      BY <1>2, <1>3
    <2>2. /\ c[p].to = a => A(To(c, F \cup {p}, a)) = A(T \cup {p})
          /\ c[p].to # a => A(To(c, F \cup {p}, a)) = A(T)
          /\ c[p].from = a => A(From(c, F \cup {p}, a)) = A(U \cup {p})
          /\ c[p].from # a => A(From(c, F \cup {p}, a)) = A(U)
      BY <1>3, Zenon
    <2> HIDE DEF A, T, U
    <2>3. /\ A(To(c, F \cup {p}, a)) = A(T) + (IF c[p].to = a THEN c[p].amount ELSE 0)
          /\ A(From(c, F \cup {p}, a)) = A(U) + (IF c[p].from = a THEN c[p].amount ELSE 0)
      BY <1>4, <2>1, <2>2
    <2> QED
      BY <2>1, <2>3 DEF A, T, U
  <1> QED
    BY <1>4, <1>5 DEF Due

LEMMA LedgerStepExplained ==
  ASSUME TypeOK, Explained, NEW p \in Requests, L!Post(p) \/ L!Undo(p)
  PROVE  Explained'
  <1> DEFINE F == L!InForce
             G == L!InForce'
  <1>1. /\ F \in SUBSET Requests /\ IsFiniteSet(F)
        /\ \A a \in Accounts : balance[a] = Due(call, F, a)
    BY FS_Subset, ExplainedBy DEF L!InForce, Posted, Explained
  <1>2. /\ call \in [Requests -> Calls] /\ call' = call /\ balance \in [Accounts -> Int]
        /\ call[p].from \in Accounts /\ call[p].to \in Accounts /\ call[p].amount \in Int
    BY CallsAssumption DEF TypeOK, L!Post, L!Undo, Call
  <1>3. IsFiniteSet(Posted')
    BY FS_AddElement DEF L!Post, L!Undo, Explained
  <1>4. ASSUME NEW a \in Accounts PROVE balance'[a] = Due(call, G, a)
    <2>1. CASE L!Post(p)
      <3>1. p \in Requests \ F /\ G = F \cup {p}
        BY <2>1 DEF L!Post, L!InForce, Posted, Undone
      <3>2. balance'[a] = balance[a] + (IF call[p].to = a THEN call[p].amount ELSE 0)
                                     - (IF call[p].from = a THEN call[p].amount ELSE 0)
        BY <1>2, <2>1 DEF L!Post, L!Move
      <3> HIDE DEF F, G
      <3> QED
        BY <1>1, <1>2, <3>1, <3>2, DueChanges
    <2>2. CASE L!Undo(p)
      <3>1. p \in Requests \ G /\ F = G \cup {p} /\ G \in SUBSET F
        BY <2>2 DEF L!Undo, L!InForce, Posted, Undone
      <3>2. balance'[a] = balance[a] - (IF call[p].to = a THEN call[p].amount ELSE 0)
                                     + (IF call[p].from = a THEN call[p].amount ELSE 0)
        BY <1>2, <2>2 DEF L!Undo, L!Move
      <3> HIDE DEF F, G
      <3>3. G \in SUBSET Requests /\ IsFiniteSet(G)
        BY <1>1, <3>1, FS_Subset
      <3>4. /\ Due(call, G, a) \in Int
            /\ Due(call, F, a) = Due(call, G, a) + (IF call[p].to = a THEN call[p].amount ELSE 0)
                                                 - (IF call[p].from = a THEN call[p].amount ELSE 0)
        BY <1>2, <3>1, <3>3, DueChanges
      <3> QED
        BY <1>1, <1>2, <3>2, <3>4
    <2> QED
      BY <2>1, <2>2
  <1>5. BalancesExplained'
    BY <1>2, <1>4 DEF BalancesExplained, L!BalancesExplained, L!Total, Due, To, From
  <1> QED
    BY <1>3, <1>5 DEF Explained

(***************************************************************************)
(* Every balance is the funding, plus what completed transfers brought,    *)
(* minus what they took, less those that were reversed: money is neither   *)
(* made nor lost by any interleaving, failure or retry.                    *)
(***************************************************************************)
THEOREM MoneyConserved == Spec => []BalancesExplained
  <1>1. Init => Explained
    <2> SUFFICES ASSUME Init PROVE Explained
      OBVIOUS
    <2>1. Posted = {} /\ L!InForce = {}
      BY DEF Init, Posted, L!InForce
    <2>2. IsFiniteSet(Posted) /\ L!Amounts(call, {}) = 0
      BY <2>1, FS_EmptySet, AmountsOfNone
    <2>3. \A a : To(call, {}, a) = {} /\ From(call, {}, a) = {}
      BY DEF To, From
    <2>4. \A a : L!Amounts(call, To(call, {}, a)) = 0 /\ L!Amounts(call, From(call, {}, a)) = 0
      BY <2>2, <2>3, Zenon
    <2>5. \A a \in Accounts : Due(call, {}, a) = Funding[a] /\ balance[a] = Funding[a]
      BY <2>4, FundingAssumption DEF Init, Due
    <2> QED
      BY <2>1, <2>2, <2>5, ExplainedBy DEF Explained
  <1>2. TypeOK /\ Explained /\ [L!Next]_(L!vars) => Explained'
    <2>1. ASSUME Explained, UNCHANGED L!vars PROVE Explained'
      BY <2>1 DEF L!vars, Explained, BalancesExplained, L!BalancesExplained, L!InForce, L!Total
    <2> QED
      BY <2>1, LedgerStepExplained DEF L!Next
  <1> QED
    BY <1>1, <1>2, TypeCorrect, TransfersImplementsLedger, PTL
    DEF Spec, Explained, ImplementsLedger, L!Spec

-----------------------------------------------------------------------------
(***************************************************************************)
(* The statements of TransferTx implement the steps of Transfers.          *)
(***************************************************************************)
LEMMA Parties ==
  ASSUME TxInv, NEW p \in Procs
  PROVE  /\ CallOf(p) \in Call /\ Payer(p) \in Accounts /\ Payee(p) \in Accounts
         /\ CallOf(p).amount \in Nat
         /\ Debits(p) => Payer(p) # Payee(p)
         /\ p \notin Requests => p \in Reversals
         /\ p \in Reversals => p \notin Requests
  <1>1. TypeOK /\ ChecksMade /\ StillCompleted
    BY DEF TxInv, IInv
  <1>2. CallOf(p) \in Calls
    BY <1>1 DEF CallOf, Procs, TypeOK, Orders
  <1>3. CallOf(p) \in Call
    BY <1>2, CallsAssumption
  <1>4. Payer(p) \in Accounts /\ Payee(p) \in Accounts /\ CallOf(p).amount \in Nat
    BY <1>3 DEF Payer, Payee, Call
  <1>5. Debits(p) => Permitted(CallOf(p))
    <2>1. CASE p \in Requests
      BY <1>1, <2>1 DEF Debits, CallOf, ChecksMade, Committing
    <2>2. CASE p \in Reversals /\ p \notin Requests
      BY <1>1, <2>2 DEF Debits, CallOf, ChecksMade, StillCompleted, TypeOK, Orders
    <2> QED
      BY <2>1, <2>2 DEF Procs
  <1>6. Debits(p) => Payer(p) # Payee(p)
    BY <1>5 DEF Permitted, Payer, Payee
  <1> QED
    BY <1>3, <1>4, <1>6, IdsAssumption DEF Procs

\* What a step of p leaves alone: where the others are, and what they have locked.
Others(p) ==
    \A q \in Procs \ {p} :
        /\ stage'[q] = stage[q]
        /\ IF q \in Requests THEN pc'[q] = pc[q] ELSE rpc'[q] = rpc[q]
        /\ \A a \in Accounts : /\ accLock'[a] = q <=> accLock[a] = q
                               /\ accLock[a] = q => draft'[a] = draft[a] /\ balance'[a] = balance[a]

LEMMA OthersKept ==
  ASSUME TxInv, NEW p \in Procs, Others(p), UNCHANGED <<call, order>>, NEW q \in Procs \ {p}
  PROVE  InTransaction(q)'
  <1>1. /\ stage'[q] = stage[q]
        /\ \A a \in Accounts : accLock'[a] = q <=> accLock[a] = q
        /\ IF q \in Requests THEN pc'[q] = pc[q] ELSE rpc'[q] = rpc[q]
    BY DEF Others
  <1>2. /\ CallOf(q)' = CallOf(q) /\ Payer(q)' = Payer(q) /\ Payee(q)' = Payee(q)
        /\ Debits(q)' <=> Debits(q)
    BY <1>1 DEF CallOf, Payer, Payee, Debits
  <1>3. Touched(q)' = Touched(q)
    BY <1>1, <1>2 DEF Touched
  <1>4. InTransaction(q) /\ Payer(q) \in Accounts /\ Payee(q) \in Accounts
    BY Parties DEF TxInv
  <1>5. \A a \in Touched(q) : draft'[a] = draft[a] /\ balance'[a] = balance[a]
    BY <1>4 DEF InTransaction, Others
  <1>6. stage[q] # "none" /\ Debits(q) =>
           /\ Payer(q) \in Touched(q)
           /\ stage[q] # "debited" => Payee(q) \in Touched(q)
    BY DEF Touched
  <1>7. {a \in Accounts : accLock'[a] = q} = Touched(q)'
    BY <1>1, <1>3, <1>4 DEF InTransaction
  <1>8. stage'[q] # "none" =>
          IF q \in Requests THEN pc'[q] \in Committing ELSE rpc'[q] = "commit"
    BY <1>1, <1>4 DEF InTransaction
  <1>9. stage'[q] \in {"debited", "credited"} => Debits(q)'
    BY <1>1, <1>2, <1>4 DEF InTransaction
  <1>10. (stage[q] # "none" /\ Debits(q))' =>
          /\ balance'[Payer(q)'] >= CallOf(q)'.amount
          /\ draft'[Payer(q)'] = balance'[Payer(q)'] - CallOf(q)'.amount
          /\ stage'[q] # "debited" => draft'[Payee(q)'] = balance'[Payee(q)'] + CallOf(q)'.amount
    BY <1>1, <1>2, <1>4, <1>5, <1>6 DEF InTransaction
  <1> QED
    BY <1>7, <1>8, <1>9, <1>10 DEF InTransaction

\* A transaction's lock is its own.
LEMMA LocksOf ==
  ASSUME TxInv, NEW p \in Procs, NEW a \in Accounts
  PROVE  accLock[a] = p <=> a \in Touched(p)
  BY DEF TxInv, InTransaction

\* A statement gives its transaction one lock more, and the draft of a version.
LEMMA UpdateStep ==
  ASSUME TxInv, NEW p \in Procs, NEW b \in Accounts, NEW d \in Int, Update(p, b, d),
         NEW from, NEW to, Advance(p, from, to), UNCHANGED vars
  PROVE  /\ Others(p)
         /\ stage[p] = from /\ stage'[p] = to
         /\ \A a \in Accounts : /\ accLock'[a] = p <=> accLock[a] = p \/ a = b
                                /\ draft'[a] = IF a = b THEN balance[b] + d ELSE draft[a]
  <1> USE DEF TxInv, TxTypeOK, Procs
  <1>1. Free \notin Procs
    BY FreeAssumption
  <1>2. stage[p] = from /\ stage' = [stage EXCEPT ![p] = to]
    BY DEF Advance
  <1>3. /\ accLock[b] = Free /\ accLock' = [accLock EXCEPT ![b] = p]
        /\ draft' = [draft EXCEPT ![b] = balance[b] + d]
    BY DEF Update
  <1>4. UNCHANGED <<pc, rpc, balance>>
    BY DEF vars, database
  <1> QED
    BY <1>1, <1>2, <1>3, <1>4 DEF Others

LEMMA DebitKeeps ==
  ASSUME TxInv, NEW p \in Procs, Debit(p)
  PROVE  InTransaction(p)' /\ Others(p)
  <1> DEFINE amount == CallOf(p).amount
  <1>1. UNCHANGED vars /\ Debits(p) /\ balance[Payer(p)] >= amount
    BY DEF Debit
  <1>2. Payer(p) \in Accounts /\ Payee(p) \in Accounts /\ amount \in Nat
    BY Parties
  <1>3. /\ Others(p) /\ stage[p] = "none" /\ stage'[p] = "debited"
        /\ \A a \in Accounts :
              /\ accLock'[a] = p <=> accLock[a] = p \/ a = Payer(p)
              /\ draft'[a] = IF a = Payer(p) THEN balance[a] + (-amount) ELSE draft[a]
    BY <1>1, <1>2, UpdateStep DEF Debit
  <1>4. CallOf(p)' = CallOf(p) /\ Payer(p)' = Payer(p) /\ Payee(p)' = Payee(p)
        /\ (Debits(p)' <=> Debits(p)) /\ UNCHANGED <<pc, rpc, balance>>
    BY <1>1 DEF vars, database, CallOf, Payer, Payee, Debits
  <1>5. {a \in Accounts : accLock'[a] = p} = Touched(p)'
    BY <1>2, <1>3, <1>4, LocksOf DEF Touched
  <1>6. balance[Payer(p)] \in Int
    BY <1>2 DEF TxInv, IInv, TypeOK
  <1>7. draft'[Payer(p)] = balance[Payer(p)] - amount
    BY <1>2, <1>3, <1>6
  <1> QED
    BY <1>1, <1>3, <1>4, <1>5, <1>7 DEF InTransaction, Debits, Committing

LEMMA CreditKeeps ==
  ASSUME TxInv, NEW p \in Procs, Credit(p)
  PROVE  InTransaction(p)' /\ Others(p)
  <1> DEFINE amount == CallOf(p).amount
  <1>1. UNCHANGED vars /\ stage[p] = "debited"
    BY DEF Credit, Advance
  <1>2. /\ InTransaction(p) /\ Debits(p)
        /\ Payer(p) \in Accounts /\ Payee(p) \in Accounts /\ Payer(p) # Payee(p) /\ amount \in Nat
    BY <1>1, Parties DEF TxInv, InTransaction
  <1>3. /\ Others(p) /\ stage'[p] = "credited"
        /\ \A a \in Accounts :
              /\ accLock'[a] = p <=> accLock[a] = p \/ a = Payee(p)
              /\ draft'[a] = IF a = Payee(p) THEN balance[a] + amount ELSE draft[a]
    BY <1>1, <1>2, UpdateStep DEF Credit
  <1>4. CallOf(p)' = CallOf(p) /\ Payer(p)' = Payer(p) /\ Payee(p)' = Payee(p)
        /\ (Debits(p)' <=> Debits(p)) /\ UNCHANGED <<pc, rpc, balance>>
    BY <1>1 DEF vars, database, CallOf, Payer, Payee, Debits
  <1>5. {a \in Accounts : accLock'[a] = p} = Touched(p)'
    BY <1>1, <1>2, <1>3, <1>4, LocksOf DEF Touched
  <1>6. draft'[Payer(p)] = draft[Payer(p)] /\ draft'[Payee(p)] = balance[Payee(p)] + amount
    BY <1>2, <1>3
  <1> QED
    BY <1>1, <1>2, <1>3, <1>4, <1>5, <1>6 DEF InTransaction

\* The row follows the updates: no lock is taken, none released.
LEMMA WriteKeeps ==
  ASSUME TxInv, NEW p \in Procs, NEW from, Advance(p, from, "written"),
         UNCHANGED <<vars, accLock, draft>>,
         IF p \in Requests THEN pc[p] \in Committing ELSE rpc[p] = "commit",
         IF Debits(p) THEN from = "credited" ELSE from = "none"
  PROVE  InTransaction(p)' /\ Others(p)
  <1>1. /\ stage[p] = from /\ stage'[p] = "written"
        /\ \A q \in Procs \ {p} : stage'[q] = stage[q]
    BY DEF Advance, TxInv, TxTypeOK
  <1>2. CallOf(p)' = CallOf(p) /\ Payer(p)' = Payer(p) /\ Payee(p)' = Payee(p)
        /\ (Debits(p)' <=> Debits(p)) /\ UNCHANGED <<pc, rpc, balance, accLock, draft>>
    BY DEF vars, database, CallOf, Payer, Payee, Debits
  <1>3. Others(p)
    BY <1>1, <1>2 DEF Others
  <1>4. Touched(p)' = Touched(p) /\ InTransaction(p)
    BY <1>1, <1>2 DEF Touched, TxInv
  <1> QED
    BY <1>1, <1>2, <1>3, <1>4 DEF InTransaction

\* The end of a transaction frees its locks, and changes no balance but theirs.
LEMMA EndKeeps ==
  ASSUME TxInv, NEW p \in Procs, Release(p), Publish(p) \/ UNCHANGED balance,
         \A q \in Requests \ {p} : pc'[q] = pc[q],
         \A q \in Reversals \ {p} : rpc'[q] = rpc[q]
  PROVE  InTransaction(p)' /\ Others(p)
  <1> USE DEF TxInv, TxTypeOK, Procs
  <1>1. Free \notin Procs
    BY FreeAssumption
  <1>2. /\ stage'[p] = "none" /\ \A q \in Procs \ {p} : stage'[q] = stage[q]
        /\ \A a \in Accounts : /\ accLock'[a] = IF accLock[a] = p THEN Free ELSE accLock[a]
                               /\ accLock[a] # p => draft'[a] = draft[a]
    BY DEF Release
  <1>3. \A a \in Accounts : accLock[a] # p => balance'[a] = balance[a]
    BY DEF Publish
  <1>4. Others(p)
    BY <1>1, <1>2, <1>3 DEF Others
  <1>5. {a \in Accounts : accLock'[a] = p} = Touched(p)'
    BY <1>1, <1>2 DEF Touched
  <1> QED
    BY <1>2, <1>4, <1>5 DEF InTransaction

\* A process with no transaction open, that opens none, and changes no balance.
LEMMA IdleKeeps ==
  ASSUME TxInv, NEW p \in Procs, stage[p] = "none", UNCHANGED <<txVars, balance>>,
         \A q \in Requests \ {p} : pc'[q] = pc[q],
         \A q \in Reversals \ {p} : rpc'[q] = rpc[q]
  PROVE  InTransaction(p)' /\ Others(p)
  <1> USE DEF TxInv, Procs, txVars
  <1>1. Others(p)
    BY DEF Others
  <1>2. Touched(p)' = Touched(p) /\ InTransaction(p)
    BY DEF Touched
  <1> QED
    BY <1>1, <1>2 DEF InTransaction

(***************************************************************************)
(* What a commit publishes is what the single step of Transfers moves.     *)
(***************************************************************************)
LEMMA Published ==
  ASSUME TxInv, NEW p \in Procs, stage[p] = "written", Publish(p)
  PROVE  IF Debits(p)
         THEN /\ balance[Payer(p)] >= CallOf(p).amount
              /\ balance' = Moved(Payer(p), Payee(p), CallOf(p).amount)
         ELSE UNCHANGED balance
  <1>1. /\ InTransaction(p) /\ balance \in [Accounts -> Int]
        /\ balance' = [a \in Accounts |-> IF a \in Touched(p) THEN draft[a] ELSE balance[a]]
    BY LocksOf DEF TxInv, IInv, TypeOK, Publish
  <1>2. CASE Debits(p)
    <2>1. /\ Touched(p) = {Payer(p), Payee(p)} /\ Payer(p) # Payee(p)
          /\ Payer(p) \in Accounts /\ Payee(p) \in Accounts
      BY <1>2, Parties DEF Touched
    <2>2. /\ balance[Payer(p)] >= CallOf(p).amount
          /\ draft[Payer(p)] = balance[Payer(p)] - CallOf(p).amount
          /\ draft[Payee(p)] = balance[Payee(p)] + CallOf(p).amount
      BY <1>1, <1>2 DEF InTransaction
    <2> QED
      BY <1>1, <1>2, <2>1, <2>2 DEF Moved
  <1>3. CASE ~Debits(p)
    <2>1. Touched(p) = {}
      BY <1>3 DEF Touched
    <2> QED
      BY <1>1, <1>3, <2>1
  <1> QED
    BY <1>2, <1>3

(***************************************************************************)
(* Uncommitted rows keep their keys to themselves, and rows about to be    *)
(* REVERSED stay COMPLETED.                                                *)
(***************************************************************************)
LEMMA ApartWithoutCommit ==
  ASSUME TxInv, UNCHANGED <<status, call, order>>,
         \A q \in Procs : stage'[q] = "written" => stage[q] = "written",
         \A v \in Reversals : rpc'[v] = "commit" => rpc[v] = "commit" \/ HasRow(order[v].row)
  PROVE  KeysApart' /\ StillCompleted'
  BY DEF TxInv, KeysApart, StillCompleted, RowsWithKeyOf, InsertersOfKeyOf, HasRow, Procs

LEMMA ApartAfterInsert ==
  ASSUME TxInv, NEW r \in Requests, Insert(r)
  PROVE  KeysApart' /\ StillCompleted'
  <1>1. /\ UNCHANGED <<status, call, order, rpc>>
        /\ \A q \in Procs \ {r} : stage'[q] = stage[q]
        /\ InsertersOfKeyOf(r) = {} /\ RowsWithKeyOf(r) = {}
    BY DEF Insert, Advance, vars, database, TxInv, TxTypeOK
  <1>2. r \notin Reversals
    BY IdsAssumption
  <1>3. StillCompleted'
    BY <1>1, <1>2 DEF StillCompleted, TxInv, HasRow, Procs
  <1>4. ASSUME NEW q \in Requests, stage'[q] = "written"
        PROVE  RowsWithKeyOf(q)' = {} /\ InsertersOfKeyOf(q)' = {}
    <2>1. CASE q = r
      BY <1>1, <2>1 DEF RowsWithKeyOf, InsertersOfKeyOf, HasRow, Procs
    <2>2. CASE q # r
      <3>1. stage[q] = "written" /\ RowsWithKeyOf(q) = {} /\ InsertersOfKeyOf(q) = {}
        BY <1>1, <1>4, <2>2 DEF TxInv, KeysApart, Procs
      <3>2. ~(call[q].key # NoKey /\ call[q].key = call[r].key)
        BY <1>1, <2>2, <3>1 DEF InsertersOfKeyOf
      <3> QED
        BY <1>1, <3>1, <3>2 DEF RowsWithKeyOf, InsertersOfKeyOf, HasRow, Procs
    <2> QED
      BY <2>1, <2>2
  <1> QED
    BY <1>3, <1>4 DEF KeysApart

LEMMA ApartAfterMark ==
  ASSUME TxInv, NEW v \in Reversals, MarkReversed(v)
  PROVE  KeysApart' /\ StillCompleted'
  <1>1. /\ UNCHANGED <<status, call, order, rpc>>
        /\ \A q \in Procs \ {v} : stage'[q] = stage[q]
        /\ status[order[v].row] = "COMPLETED"
    BY DEF MarkReversed, Advance, vars, database, TxInv, TxTypeOK
  <1>2. v \notin Requests
    BY IdsAssumption
  <1> QED
    BY <1>1, <1>2
    DEF KeysApart, StillCompleted, TxInv, RowsWithKeyOf, InsertersOfKeyOf, HasRow, Procs

LEMMA ApartAfterTransfer ==
  ASSUME TxInv, NEW r \in Requests, stage[r] = "written", stage' = [stage EXCEPT ![r] = "none"],
         NEW st, status' = [status EXCEPT ![r] = st], HasRow(r)',
         UNCHANGED <<call, order, rpc>>
  PROVE  KeysApart' /\ StillCompleted'
  <1>1. /\ \A t \in Requests \ {r} : status'[t] = status[t]
        /\ \A q \in Procs \ {r} : stage'[q] = stage[q]
        /\ stage'[r] = "none"
    BY DEF TxInv, IInv, TypeOK, TxTypeOK, Procs
  <1>2. r \notin Reversals /\ status[r] = "NONE"
    <2>1. pc[r] \in Committing
      BY DEF TxInv, InTransaction, Procs
    <2> QED
      BY <2>1, IdsAssumption DEF TxInv, IInv, RowsAreOver, HasRow, Committing
  <1>3. \A v \in Reversals : order[v].row \in Requests
    BY DEF TxInv, IInv, TypeOK, Orders
  <1>4. StillCompleted'
    BY <1>1, <1>2, <1>3 DEF StillCompleted, TxInv, HasRow, Procs
  <1>5. ASSUME NEW q \in Requests, stage'[q] = "written"
        PROVE  RowsWithKeyOf(q)' = {} /\ InsertersOfKeyOf(q)' = {}
    <2>1. q # r /\ stage[q] = "written" /\ RowsWithKeyOf(q) = {} /\ InsertersOfKeyOf(q) = {}
      BY <1>1, <1>5 DEF TxInv, KeysApart, Procs
    <2>2. ~(call[r].key # NoKey /\ call[r].key = call[q].key)
      BY <2>1 DEF InsertersOfKeyOf
    <2> QED
      BY <1>1, <2>1, <2>2 DEF RowsWithKeyOf, InsertersOfKeyOf, HasRow, Procs
  <1> QED
    BY <1>4, <1>5 DEF KeysApart

LEMMA ApartAfterReversal ==
  ASSUME TxInv, NEW v \in Reversals, stage[v] = "written", stage' = [stage EXCEPT ![v] = "none"],
         status' = [status EXCEPT ![order[v].row] = "REVERSED"],
         UNCHANGED <<call, order>>, \A w \in Reversals \ {v} : rpc'[w] = rpc[w],
         rpc'[v] = "done"
  PROVE  KeysApart' /\ StillCompleted'
  <1>1. /\ order[v].row \in Requests
        /\ \A t \in Requests \ {order[v].row} : status'[t] = status[t]
        /\ status'[order[v].row] = "REVERSED" /\ status[order[v].row] = "COMPLETED"
        /\ \A q \in Procs \ {v} : stage'[q] = stage[q]
        /\ stage'[v] = "none"
        /\ v \in Procs /\ v \notin Requests
    BY IdsAssumption DEF TxInv, IInv, TypeOK, TxTypeOK, Procs, Orders, StillCompleted
  <1>2. KeysApart'
    BY <1>1 DEF KeysApart, TxInv, RowsWithKeyOf, InsertersOfKeyOf, HasRow, Procs
  <1>3. ASSUME NEW w \in Reversals \ {v}, stage[w] = "written" PROVE order[w].row # order[v].row
    <2>1. w \in Procs /\ w \notin Requests
      BY IdsAssumption DEF Procs
    <2>2. Debits(v) /\ Debits(w)
      BY <1>1, <1>3, <2>1 DEF TxInv, InTransaction, Debits
    <2>3. Payer(v) \in Touched(v) /\ Payer(w) \in Touched(w)
      BY <1>3, <2>2 DEF Touched
    <2>4. accLock[Payer(v)] = v /\ accLock[Payer(w)] = w
      BY <1>1, <2>1, <2>3, LocksOf, Parties
    <2> QED
      BY <1>1, <2>1, <2>4 DEF Payer, CallOf
  <1>4. ASSUME NEW w \in Reversals
        PROVE  /\ (rpc[w] = "commit" => HasRow(order[w].row))'
               /\ (stage[w] = "written" => status[order[w].row] = "COMPLETED")'
    <2>1. order[w].row \in Requests /\ w \in Procs
      BY DEF TxInv, IInv, TypeOK, Orders, Procs
    <2>2. CASE w = v
      BY <1>1, <2>1, <2>2
    <2>3. CASE w # v
      BY <1>1, <1>3, <2>1, <2>3 DEF TxInv, StillCompleted, HasRow
    <2> QED
      BY <2>2, <2>3
  <1> QED
    BY <1>2, <1>4 DEF StillCompleted

-----------------------------------------------------------------------------
(***************************************************************************)
(* Every action of TransferTx keeps the invariant of the transactions, and *)
(* is a step of Transfers or leaves its variables alone.                   *)
(***************************************************************************)
Kept(p) ==
    /\ TxTypeOK' /\ KeysApart' /\ StillCompleted'
    /\ InTransaction(p)' /\ Others(p)
    /\ UNCHANGED <<call, order>>

LEMMA UpdateType ==
  ASSUME TxInv, NEW p \in Procs, NEW b \in Accounts, NEW d \in Int, Update(p, b, d),
         NEW from, NEW to \in {"debited", "credited"}, Advance(p, from, to)
  PROVE  TxTypeOK'
  BY DEF TxInv, IInv, TypeOK, TxTypeOK, Update, Advance

LEMMA ReleaseType ==
  ASSUME TxInv, NEW p \in Procs, Release(p)
  PROVE  TxTypeOK' /\ stage' = [stage EXCEPT ![p] = "none"]
  BY DEF TxInv, TxTypeOK, Release

LEMMA StatementStep ==
  ASSUME TxInv, NEW p \in Procs,
         \/ Debit(p) \/ Credit(p)
         \/ p \in Requests /\ Insert(p)
         \/ p \in Reversals /\ MarkReversed(p)
  PROVE  Kept(p) /\ UNCHANGED vars
  <1>1. CASE Debit(p) \/ Credit(p)
    <2>1. UNCHANGED vars /\ UNCHANGED <<status, call, order, rpc>>
      BY <1>1 DEF Debit, Credit, vars, database
    <2>2. CallOf(p).amount \in Int /\ -CallOf(p).amount \in Int
          /\ Payer(p) \in Accounts /\ Payee(p) \in Accounts
      BY Parties
    <2>3. TxTypeOK'
      BY <1>1, <2>2, UpdateType DEF Debit, Credit
    <2>4. \A q \in Procs : stage'[q] = "written" => stage[q] = "written"
      BY <1>1 DEF Debit, Credit, Advance, TxInv, TxTypeOK
    <2>5. KeysApart' /\ StillCompleted'
      BY <2>1, <2>4, ApartWithoutCommit
    <2> QED
      BY <1>1, <2>1, <2>3, <2>5, DebitKeeps, CreditKeeps DEF Kept
  <1>2. CASE p \in Requests /\ Insert(p)
    <2>1. UNCHANGED <<vars, accLock, draft>> /\ UNCHANGED <<call, order>>
      BY <1>2 DEF Insert, vars
    <2>2. TxTypeOK'
      BY <1>2, <2>1 DEF Insert, Advance, TxInv, TxTypeOK
    <2>3. InTransaction(p)' /\ Others(p)
      <3>1. CASE pc[p] = "clear" /\ Advance(p, "credited", "written")
        BY <1>2, <2>1, <3>1, WriteKeeps DEF Debits, Committing
      <3>2. CASE pc[p] \in {"flagged", "unavailable"} /\ Advance(p, "none", "written")
        BY <1>2, <2>1, <3>2, WriteKeeps DEF Debits, Committing
      <3> QED
        BY <1>2, <3>1, <3>2 DEF Insert
    <2> QED
      BY <1>2, <2>1, <2>2, <2>3, ApartAfterInsert DEF Kept
  <1>3. CASE p \in Reversals /\ MarkReversed(p)
    <2>1. UNCHANGED <<vars, accLock, draft>> /\ UNCHANGED <<call, order>>
      BY <1>3 DEF MarkReversed, vars
    <2>2. TxTypeOK'
      BY <1>3, <2>1 DEF MarkReversed, Advance, TxInv, TxTypeOK
    <2>3. p \notin Requests /\ Debits(p) /\ rpc[p] = "commit"
      BY <1>3, IdsAssumption DEF MarkReversed, Advance, TxInv, InTransaction, Debits
    <2>4. InTransaction(p)' /\ Others(p)
      BY <1>3, <2>1, <2>3, WriteKeeps DEF MarkReversed
    <2> QED
      BY <1>3, <2>1, <2>2, <2>4, ApartAfterMark DEF Kept
  <1> QED
    BY <1>1, <1>2, <1>3

LEMMA CommitTransferStep ==
  ASSUME TxInv, NEW r \in Requests, CommitTransfer(r)
  PROVE  Kept(r) /\ (Complete(r) \/ Flag(r) \/ Reject(r))
  <1>1. /\ r \in Procs /\ stage[r] = "written" /\ Publish(r) /\ Release(r)
        /\ RowsWithKeyOf(r) = {}
    BY DEF CommitTransfer, Procs, TxInv, KeysApart
  <1>2. PICK st, from, answer :
           /\ st \in {"COMPLETED", "FLAGGED", "REJECTED"}
           /\ InsertRow(r, st) /\ AnswerOrLose(r, from, answer)
           /\ st = "COMPLETED" => /\ from = "clear"
                                  /\ answer = [how |-> "executed", row |-> r, says |-> "completed"]
                                  /\ Log("TRANSFER_COMPLETED", r, r)
                                  /\ UNCHANGED <<events, alerts>>
           /\ st = "FLAGGED" => /\ from = "flagged"
                                /\ answer = [how |-> "executed", row |-> r, says |-> "flagged"]
                                /\ alerts' = alerts \cup {r}
                                /\ Log("TRANSFER_FLAGGED", r, r)
                                /\ UNCHANGED events
           /\ st = "REJECTED" => /\ from = "unavailable"
                                 /\ answer = [how |-> "refused", row |-> NoRow, says |-> "rejected"]
                                 /\ events' = events \cup {[type |-> "FRAUD_SERVICE_UNAVAILABLE", by |-> r]}
                                 /\ Log("TRANSFER_REJECTED_FRAUD_SERVICE_UNAVAILABLE", r, r)
                                 /\ UNCHANGED alerts
    BY DEF CommitTransfer
  <1>3. /\ UNCHANGED <<call, order, rpc>>
        /\ pc[r] = from /\ \A q \in Requests \ {r} : pc'[q] = pc[q]
        /\ status' = [status EXCEPT ![r] = st] /\ HasRow(r)'
    BY <1>2 DEF AnswerOrLose, Answer, Goto, InsertRow, HasRow, rserver, TxInv, IInv, TypeOK
  <1>4. TxTypeOK' /\ stage' = [stage EXCEPT ![r] = "none"]
    BY <1>1, ReleaseType
  <1>5. KeysApart' /\ StillCompleted'
    BY <1>1, <1>3, <1>4, ApartAfterTransfer
  <1>6. InTransaction(r)' /\ Others(r)
    BY <1>1, <1>3, EndKeeps
  <1>7. Complete(r) \/ Flag(r) \/ Reject(r)
    <2>1. IF from = "clear"
          THEN Covered(r) /\ balance' = Moved(call[r].from, call[r].to, call[r].amount)
          ELSE UNCHANGED balance
      BY <1>1, <1>3, Published DEF Debits, Payer, Payee, CallOf, Covered
    <2>2. CASE st = "COMPLETED"
      BY <1>1, <1>2, <2>1, <2>2 DEF Complete
    <2>3. CASE st = "FLAGGED"
      BY <1>1, <1>2, <2>1, <2>3 DEF Flag
    <2>4. CASE st = "REJECTED"
      BY <1>1, <1>2, <2>1, <2>4 DEF Reject
    <2> QED
      BY <1>2, <2>2, <2>3, <2>4
  <1> QED
    BY <1>3, <1>4, <1>5, <1>6, <1>7 DEF Kept

LEMMA CommitReversalStep ==
  ASSUME TxInv, NEW v \in Reversals, CommitReversal(v)
  PROVE  Kept(v) /\ Reverse(v)
  <1>1. /\ v \in Procs /\ v \notin Requests
        /\ stage[v] = "written" /\ Publish(v) /\ Release(v)
        /\ rpc[v] = "commit" /\ rpc'[v] = "done" /\ \A w \in Reversals \ {v} : rpc'[w] = rpc[w]
        /\ UNCHANGED <<call, order, pc>>
        /\ status' = [status EXCEPT ![order[v].row] = "REVERSED"]
    BY IdsAssumption DEF CommitReversal, Procs, AnswerR, GotoR, server, TxInv, IInv, TypeOK
  <1>2. TxTypeOK' /\ stage' = [stage EXCEPT ![v] = "none"]
    BY <1>1, ReleaseType
  <1>3. KeysApart' /\ StillCompleted'
    BY <1>1, <1>2, ApartAfterReversal
  <1>4. InTransaction(v)' /\ Others(v)
    BY <1>1, EndKeeps
  <1>5. /\ Payer(v) = call[order[v].row].to /\ Payee(v) = call[order[v].row].from
        /\ CallOf(v) = call[order[v].row]
    BY <1>1 DEF Payer, Payee, CallOf
  <1>6. /\ balance[Payer(v)] >= CallOf(v).amount
        /\ balance' = Moved(Payer(v), Payee(v), CallOf(v).amount)
    BY <1>1, Published DEF Debits
  <1>7. status[order[v].row] = "COMPLETED"
    BY <1>1 DEF TxInv, StillCompleted
  <1>8. Reverse(v)
    BY <1>1, <1>5, <1>6, <1>7 DEF Reverse, ReversalHolds, CommitReversal
  <1> QED
    BY <1>1, <1>2, <1>3, <1>4, <1>8 DEF Kept

\* What ends without a commit.
LEMMA RollbackStep ==
  ASSUME TxInv, NEW p \in Procs, Release(p), UNCHANGED <<database, call, order>>,
         \A q \in Requests \ {p} : pc'[q] = pc[q],
         \A q \in Reversals : rpc'[q] = rpc[q] \/ (q = p /\ rpc'[q] = "done")
  PROVE  Kept(p)
  <1>1. TxTypeOK' /\ stage' = [stage EXCEPT ![p] = "none"]
    BY ReleaseType
  <1>2. UNCHANGED <<status, balance>>
    BY DEF database
  <1>3. InTransaction(p)' /\ Others(p)
    BY <1>2, EndKeeps
  <1>4. KeysApart' /\ StillCompleted'
    BY <1>1, <1>2, ApartWithoutCommit DEF TxInv, TxTypeOK
  <1> QED
    BY <1>1, <1>3, <1>4 DEF Kept

\* What happens outside transactions.
LEMMA IdleStep ==
  ASSUME TxInv, NEW p \in Procs, stage[p] = "none", UNCHANGED <<txVars, database, call, order>>,
         \A q \in Requests \ {p} : pc'[q] = pc[q],
         \A q \in Reversals : \/ rpc'[q] = rpc[q]
                              \/ q = p /\ (rpc'[q] = "done" \/ HasRow(order[q].row))
  PROVE  Kept(p)
  <1>1. UNCHANGED <<status, balance>>
    BY DEF database
  <1>2. TxTypeOK'
    BY DEF TxInv, TxTypeOK, txVars
  <1>3. InTransaction(p)' /\ Others(p)
    BY <1>1, IdleKeeps
  <1>4. KeysApart' /\ StillCompleted'
    BY <1>1, ApartWithoutCommit DEF txVars
  <1> QED
    BY <1>2, <1>3, <1>4 DEF Kept

LEMMA NothingToDebitStep ==
  ASSUME TxInv, NEW p \in Procs, NothingToDebit(p)
  PROVE  Kept(p) /\ [Next]_vars
  <1>1. /\ stage[p] = "none" /\ UNCHANGED <<txVars, database, today, call, order>>
        /\ balance[Payer(p)] < CallOf(p).amount
        /\ balance[Payer(p)] \in Int /\ CallOf(p).amount \in Nat
    BY Parties DEF NothingToDebit, TxInv, IInv, TypeOK
  <1>2. ~(balance[Payer(p)] >= CallOf(p).amount)
    BY <1>1
  <1>3. CASE p \in Requests
    <2>1. Answer(p, "clear", Refused) /\ UNCHANGED rserver
      BY <1>3 DEF NothingToDebit
    <2>2. Overdrawn(p)
      BY <1>1, <1>2, <1>3, <2>1 DEF Overdrawn, Covered, Payer, CallOf
    <2>3. (\A q \in Requests \ {p} : pc'[q] = pc[q]) /\ rpc' = rpc
      BY <2>1 DEF Answer, Goto, rserver, TxInv, IInv, TypeOK
    <2> QED
      BY <1>1, <1>3, <2>2, <2>3, IdleStep DEF Next, Serve
  <1>4. CASE p \in Reversals /\ p \notin Requests
    <2>1. AnswerR(p, "commit", "refused") /\ UNCHANGED server
      BY <1>4 DEF NothingToDebit
    <2>2. ReverseRefused(p)
      BY <1>1, <1>2, <1>4, <2>1 DEF ReverseRefused, ReversalHolds, Payer, CallOf
    <2>3. /\ pc' = pc /\ rpc'[p] = "done" /\ \A q \in Reversals \ {p} : rpc'[q] = rpc[q]
      BY <1>4, <2>1 DEF AnswerR, GotoR, server, TxInv, IInv, TypeOK
    <2> QED
      BY <1>1, <1>4, <2>2, <2>3, IdleStep DEF Next, ServeReversal
  <1> QED
    BY <1>3, <1>4, Parties

LEMMA KeyTakenStep ==
  ASSUME TxInv, NEW r \in Requests, KeyTaken(r)
  PROVE  Kept(r) /\ [Next]_vars
  <1>1. r \in Procs
    BY DEF Procs
  <1>2. PICK p \in Committing : Answer(r, p, Failed)
    BY DEF KeyTaken
  <1>3. pc[r] = "clear" => Covered(r)
    BY <1>1 DEF KeyTaken, TxInv, InTransaction, Debits, Payer, CallOf, Covered
  <1>4. DuplicateKey(r)
    BY <1>2, <1>3 DEF DuplicateKey, KeyTaken
  <1>5. (\A q \in Requests \ {r} : pc'[q] = pc[q]) /\ rpc' = rpc
    BY <1>2 DEF KeyTaken, Answer, Goto, rserver, TxInv, IInv, TypeOK
  <1>6. Kept(r)
    BY <1>1, <1>5, RollbackStep DEF KeyTaken
  <1> QED
    BY <1>4, <1>6 DEF Next, Serve

LEMMA AlreadyReversedStep ==
  ASSUME TxInv, NEW v \in Reversals, AlreadyReversed(v)
  PROVE  Kept(v) /\ [Next]_vars
  <1>1. v \in Procs
    BY DEF Procs
  <1>2. ReverseRefused(v)
    BY DEF AlreadyReversed, ReverseRefused, ReversalHolds
  <1>3. /\ pc' = pc /\ rpc'[v] = "done" /\ \A q \in Reversals \ {v} : rpc'[q] = rpc[q]
    BY DEF AlreadyReversed, AnswerR, GotoR, server, TxInv, IInv, TypeOK
  <1>4. Kept(v)
    BY <1>1, <1>3, RollbackStep DEF AlreadyReversed
  <1> QED
    BY <1>2, <1>4 DEF Next, ServeReversal

LEMMA RolledBackStep ==
  ASSUME TxInv, NEW p \in Procs, Rollback(p)
  PROVE  Kept(p) /\ [Next]_vars
  <1>1. CASE p \in Requests
    <2>1. Fail(p) /\ Release(p)
      BY <1>1 DEF Rollback
    <2>2. (\A q \in Requests \ {p} : pc'[q] = pc[q]) /\ rpc' = rpc
      BY <2>1 DEF Fail, Answer, Goto, rserver, TxInv, IInv, TypeOK
    <2>3. Kept(p)
      BY <2>1, <2>2, RollbackStep DEF Fail
    <2> QED
      BY <1>1, <2>1, <2>3 DEF Next
  <1>2. CASE p \in Reversals /\ p \notin Requests
    <2>1. ReverseFail(p) /\ Release(p)
      BY <1>2 DEF Rollback
    <2>2. /\ pc' = pc /\ rpc'[p] = "done" /\ \A q \in Reversals \ {p} : rpc'[q] = rpc[q]
      BY <1>2, <2>1 DEF ReverseFail, AnswerR, GotoR, server, TxInv, IInv, TypeOK
    <2>3. Kept(p)
      BY <2>1, <2>2, RollbackStep DEF ReverseFail
    <2> QED
      BY <1>2, <2>1, <2>3 DEF Next
  <1> QED
    BY <1>1, <1>2, Parties

LEMMA OutsideStep ==
  ASSUME TxInv, NEW r \in Requests, Outside(r) \/ (Receive(r) /\ UNCHANGED txVars)
  PROVE  Kept(r) /\ [Next]_vars
  <1>1. r \in Procs
    BY DEF Procs
  <1>2. /\ UNCHANGED <<txVars, database, call, order>> /\ rpc' = rpc
        /\ pc[r] \notin Committing /\ \A q \in Requests \ {r} : pc'[q] = pc[q]
    BY DEF Outside, Receive, Validate, CheckLimits, Analyse, Goto, Answer, rserver, Committing,
           TxInv, IInv, TypeOK
  <1>3. stage[r] = "none"
    BY <1>1, <1>2 DEF TxInv, InTransaction
  <1>4. Kept(r)
    BY <1>1, <1>2, <1>3, IdleStep
  <1> QED
    BY <1>4 DEF Outside, Next, Serve

LEMMA ReadOriginalStep ==
  ASSUME TxInv, NEW v \in Reversals, ReadOriginal(v), UNCHANGED txVars
  PROVE  Kept(v) /\ [Next]_vars
  <1>1. v \in Procs /\ v \notin Requests
    BY IdsAssumption DEF Procs
  <1>2. /\ UNCHANGED <<txVars, database, call, order>> /\ pc' = pc
        /\ rpc[v] = "idle" /\ \A q \in Reversals \ {v} : rpc'[q] = rpc[q]
        /\ rpc'[v] = "done" \/ HasRow(order[v].row)
    BY DEF ReadOriginal, Reversible, GotoR, AnswerR, server, HasRow, TxInv, IInv, TypeOK
  <1>3. stage[v] = "none"
    BY <1>1, <1>2 DEF TxInv, InTransaction
  <1>4. Kept(v)
    BY <1>1, <1>2, <1>3, IdleStep
  <1> QED
    BY <1>4 DEF Next

LEMMA TxStep ==
  ASSUME TxInv, TxNext
  PROVE  [Next]_vars /\ \E p \in Procs : Kept(p)
  <1>1. ASSUME NEW p \in Procs, Transact(p) \/ Rollback(p) PROVE Kept(p) /\ [Next]_vars
    <2>1. CASE \/ Debit(p) \/ Credit(p)
               \/ p \in Requests /\ Insert(p)
               \/ p \in Reversals /\ MarkReversed(p)
      BY <2>1, StatementStep
    <2>2. CASE p \in Requests /\ CommitTransfer(p)
      BY <2>2, CommitTransferStep DEF Next, Serve
    <2>3. CASE p \in Reversals /\ CommitReversal(p)
      BY <2>3, CommitReversalStep DEF Next, ServeReversal
    <2>4. CASE NothingToDebit(p)
      BY <2>4, NothingToDebitStep
    <2>5. CASE p \in Requests /\ KeyTaken(p)
      BY <2>5, KeyTakenStep
    <2>6. CASE p \in Reversals /\ AlreadyReversed(p)
      BY <2>6, AlreadyReversedStep
    <2>7. CASE Rollback(p)
      BY <2>7, RolledBackStep
    <2> QED
      BY <1>1, <2>1, <2>2, <2>3, <2>4, <2>5, <2>6, <2>7 DEF Transact, EndDeadlock
  <1>2. CASE \E r \in Requests : Outside(r) \/ (Receive(r) /\ UNCHANGED txVars)
    BY <1>2, OutsideStep DEF Procs
  <1>3. CASE \E v \in Reversals : ReadOriginal(v) /\ UNCHANGED txVars
    BY <1>3, ReadOriginalStep DEF Procs
  <1> QED
    BY <1>1, <1>2, <1>3 DEF TxNext

LEMMA InitTxInv == TxInit => TxInv
  <1> SUFFICES ASSUME TxInit PROVE TxInv
    OBVIOUS
  <1>1. IInv
    BY InitIInv DEF TxInit
  <1>2. TxTypeOK
    BY DEF TxInit, TxTypeOK
  <1>3. KeysApart /\ StillCompleted
    BY DEF TxInit, Init, KeysApart, StillCompleted, Procs
  <1>4. ASSUME NEW p \in Procs PROVE InTransaction(p)
    BY FreeAssumption DEF TxInit, InTransaction, Touched
  <1> QED
    BY <1>1, <1>2, <1>3, <1>4 DEF TxInv

LEMMA NextTxInv == TxInv /\ [TxNext]_allVars => TxInv'
  <1> SUFFICES ASSUME TxInv, [TxNext]_allVars PROVE TxInv'
    OBVIOUS
  <1>1. CASE TxNext
    <2>1. PICK p \in Procs : Kept(p)
      BY <1>1, TxStep
    <2>2. IInv'
      BY <1>1, TxStep, NextIInv DEF TxInv
    <2>3. \A q \in Procs : InTransaction(q)'
      BY <2>1, OthersKept DEF Kept
    <2> QED
      BY <2>1, <2>2, <2>3 DEF TxInv, Kept
  <1>2. CASE UNCHANGED allVars
    <2>1. UNCHANGED vars /\ UNCHANGED <<stage, accLock, draft>>
          /\ UNCHANGED <<balance, status, call, order, pc, rpc>>
      BY <1>2 DEF allVars, vars, txVars, database
    <2>2. IInv'
      BY <2>1, NextIInv DEF TxInv
    <2>3. TxTypeOK' /\ KeysApart' /\ StillCompleted'
      BY <2>1, ApartWithoutCommit DEF TxInv, TxTypeOK
    <2>4. ASSUME NEW q \in Procs PROVE InTransaction(q)'
      BY <2>1 DEF TxInv, InTransaction, Touched, Debits, Payer, Payee, CallOf
    <2> QED
      BY <2>2, <2>3, <2>4 DEF TxInv
  <1> QED
    BY <1>1, <1>2

(***************************************************************************)
(* Open transactions hold exactly the locks and drafts that their place in *)
(* the code says, and keys and rows they will commit stay theirs.          *)
(***************************************************************************)
THEOREM LocksProtect == TxSpec => []TxInv
  BY InitTxInv, NextTxInv, PTL DEF TxSpec

(***************************************************************************)
(* The transactions, statement by statement, with their locks, waits,      *)
(* rollbacks and deadlock victims, implement the single steps of Transfers.*)
(***************************************************************************)
THEOREM StatementsImplementTransfers == TxSpec => ImplementsTransfers
  <1>1. TxInit => Init
    BY DEF TxInit
  <1>2. TxInv /\ [TxNext]_allVars => [Next]_vars
    BY TxStep DEF allVars
  <1> QED
    BY <1>1, <1>2, LocksProtect, PTL DEF TxSpec, Spec, ImplementsTransfers

(***************************************************************************)
(* What is proved of Transfers holds of the statements.                    *)
(***************************************************************************)
THEOREM StatementsSafe ==
  TxSpec => [](NoOverdraft /\ OneRowPerKey /\ AnswersAreTrue /\ TrailMatchesRows /\ BalancesExplained)
  BY StatementsImplementTransfers, NeverOverdrawn, KeysPayOnce, AnswersStayTrue, TrailIsExact,
     MoneyConserved, PTL DEF ImplementsTransfers
=============================================================================
