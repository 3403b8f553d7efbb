---------------------------- MODULE FraudService ----------------------------
(***************************************************************************)
(* The fraud service's own records: alerts that /evaluate raises, with     *)
(* their notification and events, analysts' notes, and investigation       *)
(* cases.  Each endpoint runs in a thread with a database session of its   *)
(* own: what it reads and what it commits are two steps, and a commit is   *)
(* atomic.                                                                 *)
(*                                                                         *)
(* A session writes a column only if its value differs from the one it     *)
(* has loaded, which matters when another session has changed it since.    *)
(*                                                                         *)
(* An alert is named after the request that evaluated its transaction.     *)
(***************************************************************************)
EXTENDS RiskEngine

CONSTANTS
    Requests,   \* HTTP requests, each made once
    None,
    Inputs      \* the transactions that are evaluated

AlertStatuses == {"NEW", "INVESTIGATING", "RESOLVED", "FALSE_POSITIVE"}
CaseStatuses  == {"OPEN", "IN_PROGRESS", "CLOSED"}
Outcomes      == {"CONFIRMED_FRAUD", "FALSE_POSITIVE", "UNRESOLVED"}

AlertRow == [status : AlertStatuses, notes : SUBSET Requests]
CaseRow  == [status : CaseStatuses, outcome : Outcomes \cup {None}]

ASSUME InputsAssumption == Inputs \subseteq Transaction
ASSUME NoneAssumption == None \notin Requests /\ None \notin Outcomes
ASSUME RowsAssumption == None \notin AlertRow /\ None \notin CaseRow

VARIABLES
    alert,     \* FraudAlert rows: status and notes, or None
    notice,    \* AlertNotification rows: "none", "unread" or "read"
    case,      \* InvestigationCase row of each alert, or None
    events,    \* SecurityEvent rows
    audit,     \* AuditLog rows
    pc, call, seen, reply,  \* requests: next step, input, what was read, answer
    logged     \* the security_events_logged of an answer

rows == <<alert, notice, case, events, audit>>
vars == <<rows, pc, call, seen, reply, logged>>

NoCall == [op |-> "none", alert |-> None, input |-> None, fraud |-> FALSE,
           to |-> None, outcome |-> None]

Calls ==
    [op : {"none", "evaluate", "updateAlert", "addNote", "markRead", "createCase", "updateCase"},
     alert : Requests \cup {None}, input : Inputs \cup {None}, fraud : BOOLEAN,
     to : AlertStatuses \cup CaseStatuses \cup {None}, outcome : Outcomes \cup {None}]

Init ==
    /\ alert = [r \in Requests |-> None]
    /\ notice = [r \in Requests |-> "none"]
    /\ case = [r \in Requests |-> None]
    /\ events = {} /\ audit = {}
    /\ pc = [r \in Requests |-> "idle"]
    /\ call = [r \in Requests |-> NoCall]
    /\ seen = [r \in Requests |-> None]
    /\ reply = [r \in Requests |-> "none"]
    /\ logged = [r \in Requests |-> {}]

-----------------------------------------------------------------------------
\* A request's progress.

Served == {r \in Requests : pc[r] \notin {"idle", "done"}}

Ask(r, c) ==
    /\ pc[r] = "idle"
    /\ call' = [call EXCEPT ![r] = c]

At(r, stage) == pc[r] = stage /\ UNCHANGED call

Goto(r, stage) == pc' = [pc EXCEPT ![r] = stage] /\ UNCHANGED reply

Answer(r, how) ==
    /\ pc' = [pc EXCEPT ![r] = "done"]
    /\ reply' = [reply EXCEPT ![r] = how]

Audited(r, what) == audit' = audit \cup {[what |-> what, by |-> r]}

Alerts == {a \in Requests : alert[a] # None}

-----------------------------------------------------------------------------
\* /evaluate: up to three commits.

High(r) == Severity(call[r].input) \in {"HIGH", "CRITICAL"}

Raises(r) == High(r) \/ call[r].fraud

\* The prediction of the trained model is not the source's: it may be either.
Evaluate(r) ==
    \E t \in Inputs, fraud \in BOOLEAN :
        /\ Ask(r, [NoCall EXCEPT !.op = "evaluate", !.input = t, !.fraud = fraud])
        /\ Goto(r, "alert")
        /\ UNCHANGED <<rows, seen, logged>>

RaiseAlert(r) ==
    /\ At(r, "alert")
    /\ alert' = IF Raises(r)
                THEN [alert EXCEPT ![r] = [status |-> "NEW", notes |-> {}]] ELSE alert
    /\ Goto(r, IF Raises(r) /\ Severity(call[r].input) = "CRITICAL"
               THEN "notify" ELSE "events")
    /\ UNCHANGED <<notice, case, events, audit, seen, logged>>

Notify(r) ==
    /\ At(r, "notify")
    /\ notice' = [notice EXCEPT ![r] = "unread"]
    /\ Goto(r, "events")
    /\ UNCHANGED <<alert, case, events, audit, seen, logged>>

\* The events of an evaluation, and those that its answer lists: both the one of
\* a suspicious transaction and its mention stand under the rule on failed logins.
Events(r) ==
    LET t == call[r].input IN
    (IF t.new_device THEN {"NEW_DEVICE"} ELSE {})
    \cup (IF ~Guessed(t) THEN {}
          ELSE {"FAILED_LOGIN"} \cup (IF High(r) THEN {"SUSPICIOUS_TRANSACTION"} ELSE {}))
    \cup (IF Raises(r) THEN {"FRAUD_ALERT_CREATED"} ELSE {})

Listed(r) == Events(r) \cup (IF Guessed(call[r].input) THEN {"SUSPICIOUS_TRANSACTION"} ELSE {})

LogEvents(r) ==
    /\ At(r, "events")
    /\ events' = events \cup [what : Events(r), by : {r}]
    /\ logged' = [logged EXCEPT ![r] = Listed(r)]
    /\ Answer(r, "ok")
    /\ UNCHANGED <<alert, notice, case, audit, seen>>

-----------------------------------------------------------------------------
\* Alerts and their notes.

LoadAlert(r) ==
    \E a \in Alerts, op \in {"updateAlert", "addNote"}, s \in AlertStatuses :
        /\ op = "addNote" => s = "NEW"
        /\ Ask(r, [NoCall EXCEPT !.op = op, !.alert = a, !.to = s])
        /\ seen' = [seen EXCEPT ![r] = alert[a]]
        /\ Goto(r, "save")
        /\ UNCHANGED <<rows, logged>>

WithNote(r) == seen[r].notes \cup {r}

SaveAlert(r) ==
    LET c == call[r] IN
    /\ At(r, "save") /\ c.op \in {"updateAlert", "addNote"}
    /\ alert' = IF c.op = "addNote" THEN [alert EXCEPT ![c.alert].notes = WithNote(r)]
                ELSE IF c.to = seen[r].status THEN alert
                ELSE [alert EXCEPT ![c.alert].status = c.to]
    /\ Audited(r, c.op)
    /\ Answer(r, "ok")
    /\ UNCHANGED <<notice, case, events, seen, logged>>

MarkRead(r) ==
    \E a \in Requests :
        /\ notice[a] # "none"
        /\ Ask(r, [NoCall EXCEPT !.op = "markRead", !.alert = a])
        /\ notice' = [notice EXCEPT ![a] = "read"]
        /\ Answer(r, "ok")
        /\ UNCHANGED <<alert, case, events, audit, seen, logged>>

-----------------------------------------------------------------------------
\* Cases.

CreateCase(r) ==
    \E a \in Alerts :
        /\ Ask(r, [NoCall EXCEPT !.op = "createCase", !.alert = a])
        /\ IF case[a] # None THEN Answer(r, "refused") ELSE Goto(r, "insert")
        /\ UNCHANGED <<rows, seen, logged>>

Collides_NoIndex(a) == FALSE

\* alert_id is unique: the flush fails, and with it the request.
Collides(a) == case[a] # None

InsertCase(r) ==
    LET a == call[r].alert IN
    /\ At(r, "insert")
    /\ IF Collides(a) THEN Answer(r, "failed") /\ UNCHANGED <<case, audit>>
       ELSE /\ case' = [case EXCEPT ![a] = [status |-> "OPEN", outcome |-> None]]
            /\ Audited(r, "createCase")
            /\ Answer(r, "ok")
    /\ UNCHANGED <<alert, notice, events, seen, logged>>

\* A closed case needs an outcome, and no other case may have one.
Coherent(s, o) == (s = "CLOSED") = (o # None)

LoadCase(r) ==
    \E a \in Alerts, s \in CaseStatuses, o \in Outcomes \cup {None} :
        /\ case[a] # None
        /\ Ask(r, [NoCall EXCEPT !.op = "updateCase", !.alert = a, !.to = s, !.outcome = o])
        /\ seen' = [seen EXCEPT ![r] = case[a]]
        /\ IF Coherent(s, o) THEN Goto(r, "save") ELSE Answer(r, "refused")
        /\ UNCHANGED <<rows, logged>>

Kept_Cleared(loaded, given, stored) == IF given = loaded THEN None ELSE given

\* What a session's flush leaves in a column.
Kept(loaded, given, stored) == IF given = loaded THEN stored ELSE given

SaveCase(r) ==
    LET c == call[r] IN
    /\ At(r, "save") /\ c.op = "updateCase"
    /\ case' = [case EXCEPT ![c.alert] =
                  [status  |-> Kept(seen[r].status, c.to, @.status),
                   outcome |-> Kept(seen[r].outcome, c.outcome, @.outcome)]]
    /\ events' = events \cup {[what |-> "CASE_STATUS_CHANGED", by |-> r]}
    /\ Audited(r, "updateCase")
    /\ Answer(r, "ok")
    /\ UNCHANGED <<alert, notice, seen, logged>>

\* The service or its database connection goes down.
Lose(r) ==
    /\ r \in Served
    /\ Answer(r, "failed")
    /\ UNCHANGED <<rows, call, seen, logged>>

Serve(r) ==
    \/ Evaluate(r) \/ RaiseAlert(r) \/ Notify(r) \/ LogEvents(r)
    \/ LoadAlert(r) \/ SaveAlert(r) \/ MarkRead(r)
    \/ CreateCase(r) \/ InsertCase(r) \/ LoadCase(r) \/ SaveCase(r)
    \/ Lose(r)

Next == \E r \in Requests : Serve(r)

Spec == Init /\ [][Next]_vars

-----------------------------------------------------------------------------
\* Properties.

TypeOK ==
    /\ alert \in [Requests -> {None} \cup AlertRow]
    /\ notice \in [Requests -> {"none", "unread", "read"}]
    /\ case \in [Requests -> {None} \cup CaseRow]
    /\ pc \in [Requests -> {"idle", "alert", "notify", "events", "save", "insert", "done"}]
    /\ call \in [Requests -> Calls] /\ seen \in [Requests -> {None} \cup AlertRow \cup CaseRow]
    /\ reply \in [Requests -> {"none", "ok", "refused", "failed"}]
    /\ \A a \in Requests : notice[a] # "none" \/ case[a] # None => alert[a] # None

Evaluated == {r \in Requests : call[r].op = "evaluate" /\ reply[r] = "ok"}

\* However many ask for a case of an alert at once, at most one of them gets it.
OneCasePerAlert ==
    \A q, r \in Requests :
        /\ call[q].op = "createCase" /\ reply[q] = "ok"
        /\ call[r].op = "createCase" /\ reply[r] = "ok"
        /\ call[q].alert = call[r].alert
        => q = r

\* The engine treats any two evaluated transactions alike: the one that looks
\* worse is not let through more easily.
EngineMonotone == Monotone({call[r].input : r \in Evaluated})
=============================================================================
