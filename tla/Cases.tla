------------------------------- MODULE Cases -------------------------------
(***************************************************************************)
(* SocService and FraudAlertsService: analysts who change the status of a  *)
(* fraud alert, note something about it, open its investigation case,      *)
(* change the case's status and mark the alert's notification as read.     *)
(* Nothing here is a database transaction: each await is a step, and what  *)
(* it read may be stale, or the server gone, when the next one runs.       *)
(*                                                                         *)
(* There is one alert, and alertId is unique among cases: one case.        *)
(***************************************************************************)
EXTENDS Integers, FiniteSets

CONSTANTS
    Requests,   \* analysts' HTTP requests, each made once
    None,
    Calls       \* what analysts ask for

Statuses == {"OPEN", "INVESTIGATING", "RESOLVED", "FALSE_POSITIVE"}
Final    == {"RESOLVED", "FALSE_POSITIVE"}

\* The operations, with the status that each may ask for.
Operations ==
    [op : {"updateAlert", "updateCase"}, to : Statuses]
    \cup [op : {"addNote", "createCase", "markRead"}, to : {None}]

Case(status) ==
    [status |-> status, outcome |-> IF status \in Final THEN status ELSE None]

Rows == {Case(s) : s \in Statuses}

ASSUME NoneAssumption == None \notin Statuses /\ None \notin Rows /\ None \notin Requests
ASSUME CallsAssumption == Calls \subseteq Operations

VARIABLES
    alert,   \* FraudAlert.status
    case,    \* the InvestigationCase row, or None
    unread,  \* whether the fraud service's AlertNotification is unread
    trail,   \* AuditLog rows
    pc, call, seen, reply,  \* requests: next await, input, statuses read, answer
    overlapped  \* whether two changes of the statuses were ever under way at once

rows == <<alert, case, unread>>
vars == <<rows, trail, pc, call, seen, reply, overlapped>>

Init ==
    /\ alert = "OPEN" /\ case = None /\ unread = TRUE /\ trail = {}
    /\ pc = [r \in Requests |-> "idle"]
    /\ call = [r \in Requests |-> [op |-> "none", to |-> None]]
    /\ seen = [r \in Requests |-> [alert |-> None, old |-> None, case |-> None]]
    /\ reply = [r \in Requests |-> "none"]
    /\ overlapped = FALSE

-----------------------------------------------------------------------------
\* A request's progress.  A name with an underscore is a slip one could make
\* in the definition after it.

Served == {r \in Requests : pc[r] \notin {"idle", "done"}}

\* Where each operation starts.
First(op) ==
    CASE op = "updateAlert" -> "readAlert"
      [] op = "addNote"     -> "logNote"
      [] op = "createCase"  -> "loadAlert"
      [] op = "updateCase"  -> "loadCase"
      [] op = "markRead"    -> "forward"

Collide(o, p) ==
    /\ {o, p} \cap {"addNote", "markRead"} = {}
    /\ {o, p} # {"createCase"}

Ask(r, c) ==
    /\ pc[r] = "idle" /\ c \in Calls
    /\ pc' = [pc EXCEPT ![r] = First(c.op)]
    /\ call' = [call EXCEPT ![r] = c]
    /\ overlapped' = (overlapped \/ \E q \in Served : Collide(call[q].op, c.op))
    /\ UNCHANGED <<rows, trail, seen, reply>>

At(r, stage) == pc[r] = stage /\ UNCHANGED <<call, overlapped>>

Goto(r, stage) == pc' = [pc EXCEPT ![r] = stage] /\ UNCHANGED reply

Answer(r, how) ==
    /\ pc' = [pc EXCEPT ![r] = "done"]
    /\ reply' = [reply EXCEPT ![r] = how]

To(r) == IF call[r].op = "createCase" THEN "INVESTIGATING" ELSE call[r].to

Logged(r, what, from, to) ==
    trail' = trail \cup {[what |-> what, from |-> from, to |-> to, by |-> r]}

-----------------------------------------------------------------------------
\* FraudAlertsService.updateStatus, which each change of a status calls.

\* "Fraud alert already has the requested status" otherwise.
Changes(r) == alert # To(r)

ReadAlert(r) ==
    /\ At(r, "readAlert")
    /\ seen' = [seen EXCEPT ![r].old = alert]
    /\ IF Changes(r) THEN Goto(r, "writeAlert") ELSE Answer(r, "refused")
    /\ UNCHANGED <<rows, trail>>

WriteAlert(r) ==
    /\ At(r, "writeAlert")
    /\ alert' = To(r)
    /\ Goto(r, "logAlert")
    /\ UNCHANGED <<case, unread, trail, seen>>

NextStage_SkipsCase(op) == IF op = "createCase" THEN "insertCase" ELSE "done"

\* What follows in the operation that called updateStatus.
NextStage(op) ==
    IF op = "createCase" THEN "insertCase"
    ELSE IF op = "updateCase" THEN "writeCase" ELSE "done"

AlertEntry_FromNow(r) == Logged(r, "alert", alert, To(r))

\* previousStatus is oldStatus, newStatus what was asked for.
AlertEntry(r) == Logged(r, "alert", seen[r].old, To(r))

LogAlert(r) ==
    /\ At(r, "logAlert")
    /\ AlertEntry(r)
    /\ IF NextStage(call[r].op) = "done" THEN Answer(r, "ok")
       ELSE Goto(r, NextStage(call[r].op))
    /\ UNCHANGED <<rows, seen>>

\* SocService.addNote, which only looks whether the alert exists.
LogNote(r) ==
    /\ At(r, "logNote")
    /\ Logged(r, "note", None, None)
    /\ Answer(r, "ok")
    /\ UNCHANGED <<rows, seen>>

-----------------------------------------------------------------------------
\* SocService.createCase.

LoadAlert(r) ==
    /\ At(r, "loadAlert")
    /\ seen' = [seen EXCEPT ![r].alert = alert]
    /\ Goto(r, "findCase")
    /\ UNCHANGED <<rows, trail>>

FindCase(r) ==
    /\ At(r, "findCase")
    /\ IF case # None THEN Answer(r, "refused")
       ELSE Goto(r, IF seen[r].alert = "OPEN" THEN "readAlert" ELSE "insertCase")
    /\ UNCHANGED <<rows, trail, seen>>

Collides_NoIndex == FALSE

\* A case with this alertId is there by now: the unique index refuses another.
Collides == case # None

\* A case of an alert that was final when createCase read it starts as final,
\* whatever updateStatus has read since.
Opening(r) == IF seen[r].alert \in Final THEN seen[r].alert ELSE "INVESTIGATING"

InsertCase(r) ==
    /\ At(r, "insertCase")
    /\ IF Collides THEN Answer(r, "failed") /\ UNCHANGED case
       ELSE case' = Case(Opening(r)) /\ Goto(r, "logCreated")
    /\ UNCHANGED <<alert, unread, trail, seen>>

LogCreated(r) ==
    /\ At(r, "logCreated")
    /\ Logged(r, "created", None, None)
    /\ Answer(r, "ok")
    /\ UNCHANGED <<rows, seen>>

-----------------------------------------------------------------------------
\* SocService.updateCaseStatus.

LoadCase(r) ==
    /\ At(r, "loadCase")
    /\ IF case = None \/ case.status = call[r].to
       THEN Answer(r, "refused") /\ UNCHANGED seen
       ELSE Goto(r, "readAlert") /\ seen' = [seen EXCEPT ![r].case = case.status]
    /\ UNCHANGED <<rows, trail>>

WriteCase(r) ==
    /\ At(r, "writeCase")
    /\ case' = Case(call[r].to)
    /\ Goto(r, "logCase")
    /\ UNCHANGED <<alert, unread, trail, seen>>

LogCase(r) ==
    /\ At(r, "logCase")
    /\ Logged(r, "case", seen[r].case, call[r].to)
    /\ Answer(r, "ok")
    /\ UNCHANGED <<rows, seen>>

\* SocService.markNotificationRead has the fraud service do it.
Forward(r) ==
    /\ At(r, "forward")
    /\ unread' = FALSE
    /\ Goto(r, "forwarded")
    /\ UNCHANGED <<alert, case, trail, seen>>

Forwarded(r) ==
    /\ At(r, "forwarded")
    /\ Answer(r, "ok")
    /\ UNCHANGED <<rows, trail, seen>>

\* A server or one of its connections goes down between two awaits.
Lose(r) ==
    /\ r \in Served /\ At(r, pc[r])
    /\ Answer(r, "lost")
    /\ UNCHANGED <<rows, trail, seen>>

Serve(r) ==
    \/ ReadAlert(r) \/ WriteAlert(r) \/ LogAlert(r) \/ LogNote(r)
    \/ LoadAlert(r) \/ FindCase(r) \/ InsertCase(r) \/ LogCreated(r)
    \/ LoadCase(r) \/ WriteCase(r) \/ LogCase(r)
    \/ Forward(r) \/ Forwarded(r)
    \/ Lose(r)

Next == \E r \in Requests : Serve(r) \/ \E c \in Calls : Ask(r, c)

Spec == Init /\ [][Next]_vars

-----------------------------------------------------------------------------
\* Properties.

SeenRows == [alert : Statuses \cup {None}, old : Statuses \cup {None}, case : Statuses \cup {None}]

TypeOK ==
    /\ alert \in Statuses /\ case \in Rows \cup {None} /\ unread \in BOOLEAN
    /\ pc \in [Requests -> {"idle", "readAlert", "writeAlert", "logAlert", "logNote",
                            "loadAlert", "findCase", "insertCase", "logCreated", "loadCase",
                            "writeCase", "logCase", "forward", "forwarded", "done"}]
    /\ call \in [Requests -> Calls \cup {[op |-> "none", to |-> None]}]
    /\ seen \in [Requests -> SeenRows]
    /\ reply \in [Requests -> {"none", "ok", "refused", "failed", "lost"}]
    /\ overlapped \in BOOLEAN
    /\ \A e \in trail : e.by \in Requests

\* Of all requests to open a case of the alert, whenever they are made, at most
\* one succeeds, and its row is not replaced.
OneCase ==
    /\ \A q, r \in Requests :
          /\ call[q].op = "createCase" /\ call[r].op = "createCase"
          /\ reply[q] = "ok" /\ reply[r] = "ok"
          => q = r
    /\ (\E r \in Requests : call[r].op = "createCase" /\ reply[r] = "ok") => case # None

\* No two changes overlapped so far, and none was left half-way.
Tidy == ~overlapped /\ \A r \in Requests : reply[r] # "lost"

AllSettled == Served = {} /\ Tidy

\* The audit entries of the alert.  Several requests that open the case at once
\* write the same change, which counts once.
Origin(r) == IF call[r].op = "createCase" THEN None ELSE r

Entries == {[from |-> e.from, to |-> e.to, by |-> Origin(e.by)] :
               e \in {e \in trail : e.what = "alert"}}

\* They make up a walk from OPEN to a status, each starting where another has ended.
Balanced(entries, status) ==
    \A s \in Statuses :
        Cardinality({e \in entries : e.to = s}) + (IF s = "OPEN" THEN 1 ELSE 0)
          = Cardinality({e \in entries : e.from = s}) + (IF s = status THEN 1 ELSE 0)

\* If no two changes overlap, but for requests that open the case at once, the
\* audit entries of an alert make up a walk from OPEN to its present status.
EntriesChain == AllSettled => Balanced(Entries, alert)

\* While analysts change the status through the case alone, one after the other,
\* the case has the status of its alert whenever no request is under way or was
\* lost.
Synchronized ==
    /\ AllSettled /\ case # None
    /\ \A r \in Requests : call[r].op = "updateAlert" => reply[r] # "ok"
    => case.status = alert

-----------------------------------------------------------------------------
(***************************************************************************)
(* What the two rest on, in all states, those between two awaits included. *)
(***************************************************************************)

Changing(r, ops, stages) == call[r].op \in ops /\ pc[r] \in stages

Apart ==
    \A q, r \in Served : q # r /\ Collide(call[q].op, call[r].op) => overlapped

\* What a request has read is still so, or another request to open the case has
\* made the very change that this one was about to make.
SeenInTime(r) ==
    /\ Changing(r, {"updateAlert", "updateCase"}, {"writeAlert"}) => seen[r].old = alert
    /\ Changing(r, {"updateAlert", "updateCase"}, {"logAlert", "writeCase", "logCase"})
          => alert = call[r].to
    /\ Changing(r, {"createCase"}, {"findCase"}) =>
          seen[r].alert = alert \/ (seen[r].alert = "OPEN" /\ alert = "INVESTIGATING")
    /\ Changing(r, {"createCase"}, {"readAlert", "writeAlert"}) =>
          seen[r].alert = "OPEN" /\ alert \in {"OPEN", "INVESTIGATING"}
    /\ Changing(r, {"createCase"}, {"writeAlert", "logAlert"}) => seen[r].old = "OPEN"
    /\ Changing(r, {"createCase"}, {"logAlert"}) =>
          seen[r].alert = "OPEN" /\ alert = "INVESTIGATING"
    /\ Changing(r, {"createCase"}, {"insertCase", "logCreated"}) => alert = Opening(r)

\* The entry that a request is about to write.
Entry(r) == [from |-> seen[r].old, to |-> To(r), by |-> Origin(r)]

\* The entry of the change that opening the case makes.
Opened == [from |-> "OPEN", to |-> "INVESTIGATING", by |-> None]

EntriesOfStages ==
    \A e \in trail : e.what = "alert" =>
        /\ pc[e.by] \in {"insertCase", "logCreated", "writeCase", "logCase", "done"}
        /\ call[e.by].op = "createCase" => e.from = "OPEN" /\ e.to = "INVESTIGATING"

\* The alert is taken up for its case once: its entry is there only when the case
\* is, or is about to be.
TakenUpOnce ==
    /\ Opened \in Entries =>
          case # None \/ \E r \in Requests : Changing(r, {"createCase"}, {"insertCase"})
    /\ \A r \in Requests :
          Changing(r, {"createCase"}, {"readAlert", "writeAlert"}) /\ alert = "OPEN"
             => case = None
    /\ \A r \in Requests : Changing(r, {"createCase"}, {"writeAlert"}) =>
          \/ alert = "OPEN" \/ Opened \in Entries
          \/ \E q \in Requests : Changing(q, {"createCase"}, {"logAlert"})

Logging == {r \in Requests : pc[r] = "logAlert"}

EntriesSoFar ==
    /\ IsFiniteSet(Entries)
    /\ Logging = {} => Balanced(Entries, alert)
    /\ \A r \in Logging : Balanced(Entries \cup {Entry(r)}, alert)

\* The case follows its alert, or is about to.
Follows ==
    \/ case = None \/ case.status = alert
    \/ \E r \in Requests : Changing(r, {"updateCase"}, {"logAlert", "writeCase"})
    \/ \E r \in Requests :
          call[r].op = "updateAlert" /\ (pc[r] = "logAlert" \/ reply[r] = "ok")

Walk ==
    /\ Apart
    /\ Tidy => /\ \A r \in Requests : SeenInTime(r)
               /\ EntriesOfStages /\ TakenUpOnce /\ EntriesSoFar /\ Follows
=============================================================================
