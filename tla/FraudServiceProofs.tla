------------------------- MODULE FraudServiceProofs -------------------------
(***************************************************************************)
(* The decisions of RiskEngine, for every transaction there can be, and    *)
(* what holds of the fraud service's records for any number of requests.   *)
(*                                                                         *)
(* OneCasePerAlert rests, as in CasesProofs, on the unique index, and on a *)
(* case never going away: that the row is there is so for good.            *)
(***************************************************************************)
EXTENDS FraudService, TLAPS

\* A transaction that looks worse breaks at least the same rules.
LEMMA WorseBreaksMore ==
    ASSUME NEW t \in Transaction, NEW u \in Transaction, AsRisky(t, u)
    PROVE  /\ Unusual(u) => Unusual(t)
           /\ u.new_device => t.new_device
           /\ u.new_beneficiary => t.new_beneficiary
           /\ Frequent(u) => Frequent(t)
           /\ Guessed(u) => Guessed(t)
           /\ Night(u) => Night(t)
BY DEF Transaction, AsRisky, Unusual, Frequent, Guessed, Night

\* The sum behind a score, as a number.
LEMMA PointsType ==
    ASSUME NEW t \in Transaction
    PROVE  /\ Points(t) \in 0..130 /\ RiskScore(t) \in 0..100
           /\ Unusual(t) \in BOOLEAN /\ t.new_device \in BOOLEAN
           /\ t.new_beneficiary \in BOOLEAN /\ Frequent(t) \in BOOLEAN
           /\ Guessed(t) \in BOOLEAN /\ Night(t) \in BOOLEAN
<1>1. /\ Unusual(t) \in BOOLEAN /\ t.new_device \in BOOLEAN
      /\ t.new_beneficiary \in BOOLEAN /\ Frequent(t) \in BOOLEAN
      /\ Guessed(t) \in BOOLEAN /\ Night(t) \in BOOLEAN
    BY DEF Transaction, Unusual, Frequent, Guessed, Night
<1>2. Points(t) \in 0..130
    BY DEF Points, Worth
<1> QED
    BY <1>1, <1>2 DEF RiskScore

\* A higher score never gets a milder decision.
LEMMA HigherIsStricter ==
    ASSUME NEW t \in Transaction, NEW u \in Transaction, RiskScore(t) >= RiskScore(u)
    PROVE  Rank(Decision(t)) >= Rank(Decision(u))
<1>1. RiskScore(t) \in 0..100 /\ RiskScore(u) \in 0..100
    BY PointsType
<1> QED
    BY <1>1 DEF Decision, Severity, Rank, BlockAt

\* Of any two transactions, the one that looks worse in every respect is scored
\* and treated at least as severely.
THEOREM DecisionsMonotone == Monotone(Transaction)
<1> SUFFICES ASSUME NEW t \in Transaction, NEW u \in Transaction, AsRisky(t, u)
             PROVE  /\ RiskScore(t) >= RiskScore(u)
                    /\ Rank(Decision(t)) >= Rank(Decision(u))
    BY DEF Monotone
<1>1. Points(t) >= Points(u)
    <2>1. /\ Unusual(u) => Unusual(t)
          /\ u.new_device => t.new_device
          /\ u.new_beneficiary => t.new_beneficiary
          /\ Frequent(u) => Frequent(t)
          /\ Guessed(u) => Guessed(t)
          /\ Night(u) => Night(t)
        BY WorseBreaksMore
    <2> QED
        BY <2>1 DEF Points, Worth
<1>2. RiskScore(t) >= RiskScore(u)
    BY <1>1, PointsType DEF RiskScore
<1> QED
    BY <1>2, HigherIsStricter

\* A transaction is blocked only if it breaks three rules, and approved only if
\* it breaks at most one besides the hour of the night.
THEOREM DecisionsMeasured == Measured(Transaction)
<1> SUFFICES ASSUME NEW t \in Transaction
             PROVE  /\ Decision(t) = "BLOCK" => Broken(t) >= 3
                    /\ Decision(t) = "APPROVE" => Broken(t) - Worth(Night(t), 1) <= 1
    BY DEF Measured
<1>1. Decision(t) = "BLOCK" => Points(t) >= 80
    BY PointsType DEF Decision, Severity, RiskScore, BlockAt
<1>2. Decision(t) = "APPROVE" => Points(t) < 30
    BY PointsType DEF Decision, Severity, RiskScore, BlockAt
<1>3. Points(t) >= 80 => Broken(t) >= 3
    BY DEF Points, Broken, Worth
<1>4. Points(t) < 30 => Broken(t) - Worth(Night(t), 1) <= 1
    BY DEF Points, Broken, Worth
<1> QED
    BY <1>1, <1>2, <1>3, <1>4

-----------------------------------------------------------------------------
\* The service's invariant.

Stages == {"idle", "alert", "notify", "events", "save", "insert", "done"}
Replies == {"none", "ok", "refused", "failed"}

\* Answers end requests.
SilentUntilDone == \A r \in Requests : reply[r] # "none" => pc[r] = "done"

\* What a request is about, and has loaded, is there.
OnAlert(r) == call[r].alert \in Requests /\ alert[call[r].alert] # None

SavesAlert(r) ==
    /\ call[r].op \in {"updateAlert", "addNote"}
    /\ OnAlert(r) /\ seen[r] \in AlertRow
    /\ call[r].to \in AlertStatuses

SavesCase(r) ==
    /\ call[r].op = "updateCase"
    /\ OnAlert(r) /\ seen[r] \in CaseRow
    /\ case[call[r].alert] # None
    /\ call[r].to \in CaseStatuses /\ call[r].outcome \in Outcomes \cup {None}

OwnStage(r) ==
    /\ pc[r] = "alert" => call[r].op = "evaluate"
    /\ pc[r] = "notify" => call[r].op = "evaluate" /\ alert[r] # None
    /\ pc[r] = "events" => call[r].op = "evaluate"
    /\ pc[r] = "save" => SavesAlert(r) \/ SavesCase(r)
    /\ pc[r] = "insert" => call[r].op = "createCase" /\ OnAlert(r)

OwnStages == \A r \in Requests : OwnStage(r)

InputsGiven == \A r \in Requests : call[r].op = "evaluate" => call[r].input \in Inputs

HasOpened(r) == call[r].op = "createCase" /\ reply[r] = "ok"

OneHasOpened ==
    /\ \A r \in Requests : HasOpened(r) =>
          call[r].alert \in Requests /\ case[call[r].alert] # None
    /\ \A q, r \in Requests :
          HasOpened(q) /\ HasOpened(r) /\ call[q].alert = call[r].alert => q = r

Inv == TypeOK /\ SilentUntilDone /\ OwnStages /\ InputsGiven /\ OneHasOpened

RowTypes ==
    /\ alert \in [Requests -> {None} \cup AlertRow]
    /\ notice \in [Requests -> {"none", "unread", "read"}]
    /\ case \in [Requests -> {None} \cup CaseRow]
    /\ seen \in [Requests -> {None} \cup AlertRow \cup CaseRow]
    /\ \A a \in Requests : notice[a] # "none" \/ case[a] # None => alert[a] # None

LEMMA TypeParts ==
    TypeOK <=> /\ RowTypes
               /\ pc \in [Requests -> Stages] /\ reply \in [Requests -> Replies]
               /\ call \in [Requests -> Calls]
BY DEF TypeOK, RowTypes, Stages, Replies

LEMMA InitInv == Init => Inv
<1> SUFFICES ASSUME Init PROVE Inv
  OBVIOUS
<1>1. NoCall \in Calls /\ NoCall.op = "none"
  BY DEF NoCall, Calls
<1>2. RowTypes
  BY DEF Init, RowTypes
<1>3. pc \in [Requests -> Stages] /\ reply \in [Requests -> Replies]
  BY DEF Init, Stages, Replies
<1>4. call \in [Requests -> Calls] /\ \A r \in Requests : call[r].op = "none"
  BY <1>1 DEF Init
<1>5. SilentUntilDone /\ OwnStages
  BY DEF Init, SilentUntilDone, OwnStages, OwnStage
<1>6. InputsGiven /\ OneHasOpened
  BY <1>4 DEF InputsGiven, OneHasOpened, HasOpened
<1> QED
  BY <1>2, <1>3, <1>4, <1>5, <1>6, TypeParts DEF Inv

-----------------------------------------------------------------------------
\* A step of r, summed up: no other request moves, and no row goes away.

Moves(r) ==
    /\ pc[r] # "done"
    /\ pc' = [pc EXCEPT ![r] = pc'[r]] /\ pc'[r] \in Stages \ {"idle"}
    /\ reply' = [reply EXCEPT ![r] = reply'[r]] /\ reply'[r] \in Replies
    /\ pc'[r] # "done" => reply'[r] = "none"
    /\ \A q \in Requests : q # r => call'[q] = call[q] /\ seen'[q] = seen[q]
    /\ call' \in [Requests -> Calls]
    /\ \A a \in Requests : /\ alert[a] # None => alert'[a] # None
                           /\ case[a] # None => case'[a] # None
    /\ OwnStage(r)'
    /\ call'[r].op = "evaluate" => call'[r].input \in Inputs

LEMMA MovesKeeps ==
    ASSUME Inv, NEW r \in Requests, Moves(r), RowTypes', OneHasOpened'
    PROVE  Inv'
<1>0. pc \in [Requests -> Stages] /\ reply \in [Requests -> Replies]
  BY TypeParts DEF Inv
<1>1. pc' \in [Requests -> Stages] /\ reply' \in [Requests -> Replies] /\ call' \in [Requests -> Calls]
  BY <1>0 DEF Moves
<1>2. TypeOK'
  BY <1>1 DEF TypeOK, RowTypes, Stages, Replies
<1>3. SilentUntilDone'
  BY <1>0 DEF Inv, SilentUntilDone, Moves
<1>4. OwnStages'
  <2> SUFFICES ASSUME NEW q \in Requests, q # r PROVE OwnStage(q)'
    BY DEF OwnStages, Moves
  <2>1. pc'[q] = pc[q] /\ call'[q] = call[q] /\ seen'[q] = seen[q] /\ OwnStage(q)
    BY <1>0 DEF Moves, Inv, OwnStages
  <2> QED
    BY <2>1 DEF Moves, OwnStage, SavesAlert, SavesCase, OnAlert
<1>5. InputsGiven'
  BY DEF Inv, InputsGiven, Moves
<1> QED
  BY <1>2, <1>3, <1>4, <1>5 DEF Inv

\* Whatever opens no case.
LEMMA OthersKeep ==
    ASSUME Inv, NEW r \in Requests, Moves(r), RowTypes', ~HasOpened(r)'
    PROVE  Inv'
<1>1. \A q \in Requests : HasOpened(q)' => q # r /\ HasOpened(q) /\ call'[q] = call[q]
  BY TypeParts DEF Inv, Moves, HasOpened
<1>2. OneHasOpened'
  BY <1>1 DEF Inv, OneHasOpened, Moves
<1> QED
  BY <1>2, MovesKeeps

\* The steps in which a request arrives.
LEMMA AskMoves ==
    ASSUME Inv, NEW r \in Requests, NEW c \in Calls, Ask(r, c),
           \/ \E how \in Replies : Answer(r, how)
           \/ \E stage \in {"alert", "save", "insert"} : Goto(r, stage),
           UNCHANGED <<alert, case>>,
           \A q \in Requests : q # r => seen'[q] = seen[q],
           OwnStage(r)',
           c.op = "evaluate" => c.input \in Inputs
    PROVE  Moves(r) /\ call'[r] = c
<1>1. pc \in [Requests -> Stages] /\ reply \in [Requests -> Replies] /\ call \in [Requests -> Calls]
  BY TypeParts DEF Inv
<1>2. pc[r] = "idle" /\ reply[r] = "none" /\ call' = [call EXCEPT ![r] = c]
  BY <1>1 DEF Ask, Inv, SilentUntilDone
<1>3. /\ pc' = [pc EXCEPT ![r] = pc'[r]]
      /\ pc'[r] \in {"alert", "save", "insert", "done"}
      /\ reply' = [reply EXCEPT ![r] = reply'[r]] /\ reply'[r] \in Replies
      /\ pc'[r] # "done" => reply'[r] = reply[r]
  BY <1>1 DEF Answer, Goto
<1>4. call' \in [Requests -> Calls] /\ call'[r] = c /\ \A q \in Requests : q # r => call'[q] = call[q]
  BY <1>1, <1>2
<1> QED
  BY <1>2, <1>3, <1>4 DEF Moves, Stages

LEMMA GotoMoves ==
    ASSUME Inv, NEW r \in Requests, NEW stage \in Stages \ {"idle", "done"},
           pc[r] \notin {"idle", "done"}, Goto(r, stage), UNCHANGED <<call, seen>>,
           \A a \in Requests : alert[a] # None => alert'[a] # None,
           \A a \in Requests : case[a] # None => case'[a] # None,
           OwnStage(r)'
    PROVE  Moves(r) /\ reply'[r] = "none"
<1>1. pc \in [Requests -> Stages] /\ reply \in [Requests -> Replies] /\ call \in [Requests -> Calls]
  BY TypeParts DEF Inv
<1>2. pc' = [pc EXCEPT ![r] = stage] /\ reply' = reply /\ reply[r] = "none"
  BY <1>1 DEF Goto, Inv, SilentUntilDone
<1> QED
  BY <1>1, <1>2 DEF Moves, Inv, InputsGiven

LEMMA AnswerMoves ==
    ASSUME Inv, NEW r \in Requests, NEW how \in Replies,
           pc[r] \notin {"idle", "done"}, Answer(r, how), UNCHANGED <<call, seen>>,
           \A a \in Requests : alert[a] # None => alert'[a] # None,
           \A a \in Requests : case[a] # None => case'[a] # None
    PROVE  Moves(r) /\ reply'[r] = how /\ pc'[r] = "done"
<1>1. pc \in [Requests -> Stages] /\ reply \in [Requests -> Replies] /\ call \in [Requests -> Calls]
  BY TypeParts DEF Inv
<1>2. pc' = [pc EXCEPT ![r] = "done"] /\ reply' = [reply EXCEPT ![r] = how]
  BY DEF Answer
<1>3. OwnStage(r)'
  BY <1>1, <1>2 DEF OwnStage
<1> QED
  BY <1>1, <1>2, <1>3 DEF Moves, Stages, Inv, InputsGiven

-----------------------------------------------------------------------------
\* Each step.

LEMMA EvaluateKeeps ==
    ASSUME Inv, NEW r \in Requests, Evaluate(r)
    PROVE  Inv'
<1>1. PICK t \in Inputs, fraud \in BOOLEAN :
          Ask(r, [NoCall EXCEPT !.op = "evaluate", !.input = t, !.fraud = fraud])
  BY DEF Evaluate
<1>2. Goto(r, "alert") /\ UNCHANGED <<alert, notice, case, seen>>
  BY DEF Evaluate, rows
<1> DEFINE c == [NoCall EXCEPT !.op = "evaluate", !.input = t, !.fraud = fraud]
<1>3. c \in Calls /\ c.op = "evaluate" /\ c.input = t
  BY DEF NoCall, Calls
<1>4. Ask(r, c)
  BY <1>1
<1> HIDE DEF c
<1>5. OwnStage(r)'
  BY <1>2, <1>3, <1>4, TypeParts DEF Inv, Ask, Goto, OwnStage
<1>6. Moves(r) /\ call'[r] = c
  BY <1>2, <1>3, <1>4, <1>5, AskMoves
<1>7. RowTypes'
  BY <1>2, TypeParts DEF Inv, RowTypes
<1> QED
  BY <1>3, <1>6, <1>7, OthersKeep DEF HasOpened

LEMMA RaiseAlertKeeps ==
    ASSUME Inv, NEW r \in Requests, RaiseAlert(r)
    PROVE  Inv'
<1>1. /\ pc[r] = "alert" /\ UNCHANGED <<notice, case, call, seen>>
      /\ call[r].op = "evaluate" /\ RowTypes /\ pc \in [Requests -> Stages]
  BY TypeParts DEF RaiseAlert, At, Inv, OwnStages, OwnStage
<1> DEFINE new == [status |-> "NEW", notes |-> {}]
<1>2. new \in AlertRow /\ new # None
  BY RowsAssumption DEF AlertRow, AlertStatuses
<1> HIDE DEF new
<1>3. alert' = IF Raises(r) THEN [alert EXCEPT ![r] = new] ELSE alert
  BY DEF RaiseAlert, new
<1>4. /\ alert' \in [Requests -> {None} \cup AlertRow]
      /\ \A a \in Requests : alert[a] # None => alert'[a] # None
      /\ Raises(r) => alert'[r] # None
  BY <1>1, <1>2, <1>3 DEF RowTypes
<1>5. RowTypes'
  BY <1>1, <1>4 DEF RowTypes
<1>6. PICK stage \in {"notify", "events"} : Goto(r, stage) /\ (stage = "notify" => Raises(r))
  BY DEF RaiseAlert
<1>7. OwnStage(r)'
  BY <1>1, <1>4, <1>6 DEF OwnStage, Goto
<1>8. Moves(r)
  BY <1>1, <1>4, <1>6, <1>7, GotoMoves DEF Stages
<1> QED
  BY <1>1, <1>5, <1>8, OthersKeep DEF HasOpened

LEMMA NotifyKeeps ==
    ASSUME Inv, NEW r \in Requests, Notify(r)
    PROVE  Inv'
<1>1. /\ pc[r] = "notify" /\ UNCHANGED <<alert, case, call, seen>> /\ Goto(r, "events")
      /\ call[r].op = "evaluate" /\ alert[r] # None /\ RowTypes /\ pc \in [Requests -> Stages]
  BY TypeParts DEF Notify, At, Inv, OwnStages, OwnStage
<1>2. RowTypes'
  <2>1. /\ notice' \in [Requests -> {"none", "unread", "read"}]
        /\ \A a \in Requests : notice'[a] # notice[a] => a = r
    BY <1>1 DEF Notify, RowTypes
  <2> QED
    BY <1>1, <2>1 DEF RowTypes
<1>3. OwnStage(r)'
  BY <1>1 DEF OwnStage, Goto
<1>4. Moves(r)
  BY <1>1, <1>3, GotoMoves DEF Stages
<1> QED
  BY <1>1, <1>2, <1>4, OthersKeep DEF HasOpened

LEMMA LogEventsKeeps ==
    ASSUME Inv, NEW r \in Requests, LogEvents(r)
    PROVE  Inv'
<1>1. /\ pc[r] = "events" /\ UNCHANGED <<alert, notice, case, call, seen>> /\ Answer(r, "ok")
      /\ call[r].op = "evaluate"
  BY DEF LogEvents, At, Inv, OwnStages, OwnStage
<1>2. Moves(r)
  BY <1>1, AnswerMoves DEF Replies
<1>3. RowTypes'
  BY <1>1, TypeParts DEF Inv, RowTypes
<1> QED
  BY <1>1, <1>2, <1>3, OthersKeep DEF HasOpened

LEMMA LoadAlertKeeps ==
    ASSUME Inv, NEW r \in Requests, LoadAlert(r)
    PROVE  Inv'
<1>1. PICK a \in Alerts, op \in {"updateAlert", "addNote"}, s \in AlertStatuses :
          /\ Ask(r, [NoCall EXCEPT !.op = op, !.alert = a, !.to = s])
          /\ seen' = [seen EXCEPT ![r] = alert[a]]
  BY DEF LoadAlert
<1>2. Goto(r, "save") /\ UNCHANGED <<alert, notice, case>>
  BY DEF LoadAlert, rows
<1> DEFINE c == [NoCall EXCEPT !.op = op, !.alert = a, !.to = s]
<1>3. a \in Requests /\ alert[a] # None
  BY DEF Alerts
<1>4. c \in Calls /\ c.op = op /\ c.alert = a /\ c.to = s
  BY <1>3 DEF NoCall, Calls
<1>5. Ask(r, c)
  BY <1>1
<1> HIDE DEF c
<1>6. RowTypes /\ pc \in [Requests -> Stages] /\ call \in [Requests -> Calls]
  BY TypeParts DEF Inv
<1>7. /\ seen' \in [Requests -> {None} \cup AlertRow \cup CaseRow]
      /\ seen'[r] \in AlertRow /\ \A q \in Requests : q # r => seen'[q] = seen[q]
  BY <1>1, <1>3, <1>6 DEF RowTypes
<1>8. OwnStage(r)'
  BY <1>2, <1>3, <1>4, <1>5, <1>6, <1>7 DEF Ask, Goto, OwnStage, SavesAlert, OnAlert
<1>9. Moves(r) /\ call'[r] = c
  BY <1>2, <1>4, <1>5, <1>7, <1>8, AskMoves
<1>10. RowTypes'
  BY <1>2, <1>6, <1>7 DEF RowTypes
<1> QED
  BY <1>4, <1>9, <1>10, OthersKeep DEF HasOpened

LEMMA SaveAlertKeeps ==
    ASSUME Inv, NEW r \in Requests, SaveAlert(r)
    PROVE  Inv'
<1> DEFINE a == call[r].alert
<1>1. /\ pc[r] = "save" /\ UNCHANGED <<notice, case, call, seen>> /\ Answer(r, "ok")
      /\ call[r].op \in {"updateAlert", "addNote"}
      /\ RowTypes
  BY TypeParts DEF SaveAlert, At, Inv
<1>2. /\ a \in Requests /\ alert[a] \in AlertRow /\ seen[r] \in AlertRow
      /\ call[r].to \in AlertStatuses
  <2>1. OwnStage(r)
    BY DEF Inv, OwnStages
  <2> QED
    BY <1>1, <2>1 DEF OwnStage, SavesAlert, SavesCase, OnAlert, RowTypes
<1>3. /\ alert' \in [Requests -> {None} \cup AlertRow]
      /\ \A b \in Requests : alert[b] # None => alert'[b] # None
  <2>1. CASE call[r].op = "addNote"
    <3>1. alert' = [alert EXCEPT ![a].notes = WithNote(r)]
      BY <2>1 DEF SaveAlert
    <3>2. [alert[a] EXCEPT !.notes = WithNote(r)] \in AlertRow
      <4>1. WithNote(r) \in SUBSET Requests
        BY <1>2 DEF WithNote, AlertRow
      <4> QED
        BY <1>2, <4>1 DEF AlertRow
    <3> QED
      BY <1>1, <1>2, <3>1, <3>2, RowsAssumption DEF RowTypes
  <2>2. CASE alert' = alert
    BY <1>1, <2>2 DEF RowTypes
  <2>3. CASE alert' = [alert EXCEPT ![a].status = call[r].to]
    <3>1. [alert[a] EXCEPT !.status = call[r].to] \in AlertRow
      BY <1>2 DEF AlertRow
    <3> QED
      BY <1>1, <1>2, <2>3, <3>1, RowsAssumption DEF RowTypes
  <2> QED
    BY <2>1, <2>2, <2>3 DEF SaveAlert
<1>4. Moves(r)
  BY <1>1, <1>3, AnswerMoves DEF Replies
<1>5. RowTypes'
  BY <1>1, <1>3 DEF RowTypes
<1> QED
  BY <1>1, <1>4, <1>5, OthersKeep DEF HasOpened

LEMMA MarkReadKeeps ==
    ASSUME Inv, NEW r \in Requests, MarkRead(r)
    PROVE  Inv'
<1>1. PICK a \in Requests : /\ notice[a] # "none"
                            /\ Ask(r, [NoCall EXCEPT !.op = "markRead", !.alert = a])
                            /\ notice' = [notice EXCEPT ![a] = "read"]
  BY DEF MarkRead
<1>2. Answer(r, "ok") /\ UNCHANGED <<alert, case, seen>>
  BY DEF MarkRead
<1> DEFINE c == [NoCall EXCEPT !.op = "markRead", !.alert = a]
<1>3. c \in Calls /\ c.op = "markRead"
  BY DEF NoCall, Calls
<1>4. Ask(r, c)
  BY <1>1
<1> HIDE DEF c
<1>5. OwnStage(r)'
  BY <1>2, TypeParts DEF Inv, Answer, OwnStage
<1>6. Moves(r) /\ call'[r] = c
  BY <1>2, <1>3, <1>4, <1>5, AskMoves DEF Replies
<1>7. RowTypes'
  <2>1. RowTypes
    BY TypeParts DEF Inv
  <2>2. /\ notice' \in [Requests -> {"none", "unread", "read"}]
        /\ \A b \in Requests : notice'[b] # "none" => notice[b] # "none"
    BY <1>1, <2>1 DEF RowTypes
  <2> QED
    BY <1>2, <2>1, <2>2 DEF RowTypes
<1> QED
  BY <1>3, <1>6, <1>7, OthersKeep DEF HasOpened

LEMMA CreateCaseKeeps ==
    ASSUME Inv, NEW r \in Requests, CreateCase(r)
    PROVE  Inv'
<1>1. PICK a \in Alerts : Ask(r, [NoCall EXCEPT !.op = "createCase", !.alert = a])
  BY DEF CreateCase
<1>2. /\ Answer(r, "refused") \/ Goto(r, "insert")
      /\ UNCHANGED <<alert, notice, case, seen>>
  BY DEF CreateCase, rows
<1> DEFINE c == [NoCall EXCEPT !.op = "createCase", !.alert = a]
<1>3. a \in Requests /\ alert[a] # None
  BY DEF Alerts
<1>4. c \in Calls /\ c.op = "createCase" /\ c.alert = a
  BY <1>3 DEF NoCall, Calls
<1>5. Ask(r, c)
  BY <1>1
<1> HIDE DEF c
<1>6. RowTypes /\ pc \in [Requests -> Stages] /\ reply \in [Requests -> Replies]
      /\ call \in [Requests -> Calls] /\ reply[r] = "none"
  BY <1>5, TypeParts DEF Inv, Ask, SilentUntilDone
<1>7. OwnStage(r)' /\ reply'[r] # "ok"
  BY <1>2, <1>3, <1>4, <1>5, <1>6 DEF Ask, Goto, Answer, OwnStage, OnAlert
<1>8. Moves(r)
  BY <1>2, <1>4, <1>5, <1>7, AskMoves DEF Replies
<1>9. RowTypes'
  BY <1>2, <1>6 DEF RowTypes
<1> QED
  BY <1>7, <1>8, <1>9, OthersKeep DEF HasOpened

\* A case is inserted only where there is none, and so nobody has opened one.
LEMMA InsertCaseKeeps ==
    ASSUME Inv, NEW r \in Requests, InsertCase(r)
    PROVE  Inv'
<1> DEFINE a == call[r].alert
           new == [status |-> "OPEN", outcome |-> None]
<1>1. /\ pc[r] = "insert" /\ UNCHANGED <<alert, notice, call, seen>>
      /\ call[r].op = "createCase" /\ a \in Requests /\ alert[a] # None
      /\ RowTypes
  BY TypeParts DEF InsertCase, At, Inv, OwnStages, OwnStage, OnAlert
<1>2. CASE case[a] # None
  <2>1. Answer(r, "failed") /\ UNCHANGED case
    BY <1>2 DEF InsertCase, Collides
  <2>2. Moves(r) /\ reply'[r] = "failed"
    BY <1>1, <2>1, AnswerMoves DEF Replies
  <2>3. RowTypes'
    BY <1>1, <2>1 DEF RowTypes
  <2> QED
    BY <2>2, <2>3, OthersKeep DEF HasOpened
<1>3. CASE case[a] = None
  <2>1. new \in CaseRow /\ new # None
    BY RowsAssumption DEF CaseRow, CaseStatuses
  <2>2. case' = [case EXCEPT ![a] = new] /\ Answer(r, "ok")
    BY <1>3 DEF InsertCase, Collides
  <2> HIDE DEF new
  <2>3. /\ case' \in [Requests -> {None} \cup CaseRow]
        /\ \A b \in Requests : case[b] # None => case'[b] # None
        /\ case'[a] # None
        /\ \A b \in Requests : case'[b] # None => b = a \/ case[b] # None
    BY <1>1, <2>1, <2>2 DEF RowTypes
  <2>4. Moves(r)
    BY <1>1, <2>2, <2>3, AnswerMoves DEF Replies
  <2>5. RowTypes'
    BY <1>1, <2>3 DEF RowTypes
  <2>6. OneHasOpened'
    <3>1. \A q \in Requests : HasOpened(q)' => q = r \/ HasOpened(q)
      BY <1>1, <2>4, TypeParts DEF Moves, HasOpened, Inv
    <3>2. \A q \in Requests : HasOpened(q) => call[q].alert # a
      BY <1>3 DEF Inv, OneHasOpened
    <3> QED
      BY <1>1, <2>3, <3>1, <3>2 DEF Inv, OneHasOpened
  <2> QED
    BY <2>4, <2>5, <2>6, MovesKeeps
<1> QED
  BY <1>2, <1>3

LEMMA LoadCaseKeeps ==
    ASSUME Inv, NEW r \in Requests, LoadCase(r)
    PROVE  Inv'
<1>1. PICK a \in Alerts, s \in CaseStatuses, o \in Outcomes \cup {None} :
          /\ case[a] # None
          /\ Ask(r, [NoCall EXCEPT !.op = "updateCase", !.alert = a, !.to = s, !.outcome = o])
          /\ seen' = [seen EXCEPT ![r] = case[a]]
  BY DEF LoadCase
<1>2. /\ Answer(r, "refused") \/ Goto(r, "save")
      /\ UNCHANGED <<alert, notice, case>>
  BY DEF LoadCase, rows
<1> DEFINE c == [NoCall EXCEPT !.op = "updateCase", !.alert = a, !.to = s, !.outcome = o]
<1>3. a \in Requests /\ alert[a] # None
  BY DEF Alerts
<1>4. c \in Calls /\ c.op = "updateCase" /\ c.alert = a /\ c.to = s /\ c.outcome = o
  BY <1>3 DEF NoCall, Calls
<1>5. Ask(r, c)
  BY <1>1
<1> HIDE DEF c
<1>6. RowTypes /\ pc \in [Requests -> Stages] /\ call \in [Requests -> Calls]
  BY TypeParts DEF Inv
<1>7. /\ seen' \in [Requests -> {None} \cup AlertRow \cup CaseRow]
      /\ seen'[r] \in CaseRow /\ \A q \in Requests : q # r => seen'[q] = seen[q]
  BY <1>1, <1>3, <1>6 DEF RowTypes
<1>8. OwnStage(r)'
  <2>1. call'[r] = c /\ (pc'[r] = "save" \/ pc'[r] = "done")
    BY <1>2, <1>5, <1>6 DEF Ask, Goto, Answer
  <2> QED
    BY <1>1, <1>2, <1>3, <1>4, <1>7, <2>1 DEF OwnStage, SavesCase, OnAlert
<1>9. Moves(r) /\ call'[r] = c
  BY <1>2, <1>4, <1>5, <1>7, <1>8, AskMoves DEF Replies
<1>10. RowTypes'
  BY <1>2, <1>6, <1>7 DEF RowTypes
<1> QED
  BY <1>4, <1>9, <1>10, OthersKeep DEF HasOpened

LEMMA SaveCaseKeeps ==
    ASSUME Inv, NEW r \in Requests, SaveCase(r)
    PROVE  Inv'
<1> DEFINE a == call[r].alert
           new == [status  |-> Kept(seen[r].status, call[r].to, case[a].status),
                   outcome |-> Kept(seen[r].outcome, call[r].outcome, case[a].outcome)]
<1>1. /\ pc[r] = "save" /\ UNCHANGED <<alert, notice, call, seen>> /\ Answer(r, "ok")
      /\ call[r].op = "updateCase"
      /\ RowTypes
  BY TypeParts DEF SaveCase, At, Inv
<1>2. /\ a \in Requests /\ case[a] \in CaseRow /\ case[a] # None
      /\ call[r].to \in CaseStatuses /\ call[r].outcome \in Outcomes \cup {None}
  <2>1. OwnStage(r)
    BY DEF Inv, OwnStages
  <2> QED
    BY <1>1, <2>1 DEF OwnStage, SavesAlert, SavesCase, OnAlert, RowTypes
<1>3. new \in CaseRow /\ new # None
  BY <1>2, RowsAssumption DEF CaseRow, Kept
<1>4. case' = [case EXCEPT ![a] = new]
  BY DEF SaveCase
<1> HIDE DEF new
<1>5. /\ case' \in [Requests -> {None} \cup CaseRow]
      /\ \A b \in Requests : case[b] # None <=> case'[b] # None
  BY <1>1, <1>2, <1>3, <1>4 DEF RowTypes
<1>6. Moves(r)
  BY <1>1, <1>5, AnswerMoves DEF Replies
<1>7. RowTypes'
  BY <1>1, <1>5 DEF RowTypes
<1> QED
  BY <1>1, <1>6, <1>7, OthersKeep DEF HasOpened

LEMMA LoseKeeps ==
    ASSUME Inv, NEW r \in Requests, Lose(r)
    PROVE  Inv'
<1>1. /\ pc[r] \notin {"idle", "done"} /\ Answer(r, "failed")
      /\ UNCHANGED <<alert, notice, case, call, seen>>
  BY DEF Lose, Served, rows
<1>2. Moves(r) /\ reply'[r] = "failed"
  BY <1>1, AnswerMoves DEF Replies
<1>3. RowTypes'
  BY <1>1, TypeParts DEF Inv, RowTypes
<1> QED
  BY <1>2, <1>3, OthersKeep DEF HasOpened

-----------------------------------------------------------------------------

LEMMA NextKeeps == Inv /\ [Next]_vars => Inv'
<1> SUFFICES ASSUME Inv, [Next]_vars PROVE Inv'
  OBVIOUS
<1>1. CASE UNCHANGED vars
  <2>1. UNCHANGED <<alert, notice, case, pc, call, seen, reply>>
    BY <1>1 DEF vars, rows
  <2> QED
    BY <2>1 DEF Inv, TypeOK, SilentUntilDone, OwnStages, OwnStage, SavesAlert, SavesCase, OnAlert,
                InputsGiven, OneHasOpened, HasOpened
<1>2. ASSUME NEW r \in Requests, Serve(r) PROVE Inv'
  BY <1>2, EvaluateKeeps, RaiseAlertKeeps, NotifyKeeps, LogEventsKeeps, LoadAlertKeeps,
     SaveAlertKeeps, MarkReadKeeps, CreateCaseKeeps, InsertCaseKeeps, LoadCaseKeeps,
     SaveCaseKeeps, LoseKeeps
     DEF Serve
<1> QED
  BY <1>1, <1>2 DEF Next

\* The inductive invariant holds in every state of the fraud service.
THEOREM Invariant == Spec => []Inv
BY InitInv, NextKeeps, PTL DEF Spec

\* Rows keep their form, and notifications and cases belong to alerts.
THEOREM TypeCorrect == Spec => []TypeOK
<1>1. Inv => TypeOK
  BY DEF Inv
<1> QED
  BY <1>1, Invariant, PTL

\* However many ask for a case of an alert, one of them gets it at most.
THEOREM CaseOpenedOnce == Spec => []OneCasePerAlert
<1>1. Inv => OneCasePerAlert
  BY DEF Inv, OneHasOpened, HasOpened, OneCasePerAlert
<1> QED
  BY <1>1, Invariant, PTL

\* The service's decisions are the engine's, whatever it is asked to evaluate: of two
\* transactions the one that looks worse is not let through more easily.
THEOREM EvaluationsMonotone == Spec => []EngineMonotone
<1>1. Inv => EngineMonotone
  <2> SUFFICES ASSUME Inv PROVE EngineMonotone
    OBVIOUS
  <2>1. {call[r].input : r \in Evaluated} \subseteq Transaction
    BY InputsAssumption DEF Inv, InputsGiven, Evaluated
  <2> QED
    BY <2>1, DecisionsMonotone DEF EngineMonotone, Monotone
<1> QED
  BY <1>1, Invariant, PTL
=============================================================================
