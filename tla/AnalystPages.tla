---------------------------- MODULE AnalystPages ----------------------------
(***************************************************************************)
(* A tab of the security dashboard on the pages "Fraud Alerts",            *)
(* "Investigations" and "Notifications", and other analysts, who all use   *)
(* the server of Cases.                                                    *)
(*                                                                         *)
(* A page loads its table when it is opened and never again.  What the     *)
(* server is asked to change, the page then changes in its own table,      *)
(* whatever the answer says of it.  A page that is left forgets the        *)
(* answers it still waits for; the server does not.                        *)
(***************************************************************************)
EXTENDS Cases

CONSTANT Elsewhere  \* what other analysts ask for

ASSUME ElsewhereAssumption == Elsewhere \subseteq Calls

VARIABLES
    page,     \* the route
    load,     \* the table's request: "none", "asked", "answered"
    fetched,  \* what it was answered
    shown,    \* the row in the page's table, or None
    error,    \* whether the page shows an error
    asked,    \* requests that the page has made since it was opened
    waiting,  \* those of them that it still waits for
    strayed   \* whether, since the table was read, anything else was under way

view == <<page, load, fetched, shown, error, asked, waiting, strayed>>
allVars == <<vars, view>>

Tables == {"alerts", "investigations", "notifications"}

PagesInit ==
    /\ Init
    /\ page = "home" /\ load = "none" /\ fetched = None
    /\ shown = None /\ error = FALSE
    /\ asked = {} /\ waiting = {} /\ strayed = FALSE

-----------------------------------------------------------------------------
\* Opening a page.

Visit(p) ==
    /\ p # page
    /\ page' = p /\ load' = (IF p \in Tables THEN "asked" ELSE "none")
    /\ fetched' = None /\ shown' = None /\ error' = FALSE
    /\ asked' = {} /\ waiting' = {} /\ strayed' = FALSE
    /\ UNCHANGED vars

Row(status, outcome) == [status |-> status, outcome |-> outcome]

\* The page's row as the server has it.
AlertRow == Row(alert, None)
CaseRow == case
NoticeRow == IF unread THEN Row("UNREAD", None) ELSE None

Stored(p) ==
    CASE p = "alerts"         -> AlertRow
      [] p = "investigations" -> CaseRow
      [] p = "notifications"  -> NoticeRow

ReadTable ==
    /\ load = "asked" /\ load' = "answered"
    /\ fetched' = Stored(page)
    /\ strayed' = (Served # {})
    /\ UNCHANGED <<vars, page, shown, error, asked, waiting>>

TableComes ==
    /\ load = "answered" /\ load' = "none"
    /\ shown' = fetched /\ fetched' = None
    /\ UNCHANGED <<vars, page, error, asked, waiting, strayed>>

TableFails ==
    /\ load # "none" /\ load' = "none"
    /\ error' = TRUE /\ fetched' = None
    /\ UNCHANGED <<vars, page, shown, asked, waiting, strayed>>

-----------------------------------------------------------------------------
\* The page's requests.

\* Of the pages, "Fraud Alerts" hides its table behind an error.
TableVisible == load = "none" /\ shown # None /\ (page = "alerts" => ~error)

\* A button or a menu is disabled while its own request is waited for.
Enabled_Always(op) == TRUE

Enabled(op) == \A r \in waiting : call[r].op # op

\* A menu offers the statuses that its row does not have.
Click(r, p, op, to) ==
    /\ page = p /\ TableVisible /\ Enabled(op)
    /\ to # shown.status
    /\ Ask(r, [op |-> op, to |-> to])
    /\ error' = FALSE
    /\ asked' = asked \cup {r} /\ waiting' = waiting \cup {r}
    /\ strayed' = (strayed \/ waiting # {} \/ Served # {})
    /\ UNCHANGED <<page, load, fetched, shown>>

AddAnalystNote(r) == Click(r, "alerts", "addNote", None)

CreateInvestigationCase(r) == Click(r, "alerts", "createCase", None)

UpdateAlertStatus(r) ==
    \E s \in Statuses : Click(r, "alerts", "updateAlert", s)

UpdateCaseStatus(r) ==
    \E s \in Statuses : Click(r, "investigations", "updateCase", s)

MarkAsRead(r) == Click(r, "notifications", "markRead", None)

Updated_Silent(r) == shown

\* What the page makes of its row when the server has done what it was asked.
Updated(r) ==
    CASE call[r].op = "updateAlert" -> Row(call[r].to, None)
      [] call[r].op = "addNote"     -> shown
      [] call[r].op = "createCase"  -> Row("INVESTIGATING", None)
      [] call[r].op = "updateCase"  -> Case(call[r].to)
      [] call[r].op = "markRead"    -> None

AnswerComes(r) ==
    /\ r \in waiting /\ pc[r] = "done"
    /\ waiting' = waiting \ {r}
    /\ IF reply[r] = "ok" THEN shown' = Updated(r) /\ UNCHANGED error
       ELSE error' = TRUE /\ UNCHANGED shown
    /\ UNCHANGED <<vars, page, load, fetched, asked, strayed>>

\* fetch throws; the server goes on.
AnswerLost(r) ==
    /\ r \in waiting
    /\ waiting' = waiting \ {r}
    /\ error' = TRUE /\ strayed' = TRUE
    /\ UNCHANGED <<vars, page, load, fetched, shown, asked>>

-----------------------------------------------------------------------------
\* The server, for the page and for others.

ServerStep(r) ==
    /\ Serve(r)
    /\ strayed' = (strayed \/ r \notin asked \/ reply'[r] = "lost")
    /\ UNCHANGED <<page, load, fetched, shown, error, asked, waiting>>

OtherAsks(r) ==
    /\ \E c \in Elsewhere : Ask(r, c)
    /\ strayed' = TRUE
    /\ UNCHANGED <<page, load, fetched, shown, error, asked, waiting>>

PagesNext ==
    \/ \E p \in Tables \cup {"home"} : Visit(p)
    \/ ReadTable \/ TableComes \/ TableFails
    \/ \E r \in Requests :
          \/ AddAnalystNote(r) \/ CreateInvestigationCase(r) \/ UpdateAlertStatus(r)
          \/ UpdateCaseStatus(r) \/ MarkAsRead(r)
          \/ AnswerComes(r) \/ AnswerLost(r)
          \/ ServerStep(r) \/ OtherAsks(r)

PagesSpec == PagesInit /\ [][PagesNext]_allVars

-----------------------------------------------------------------------------
\* Properties.

TableRows == Rows \cup [status : Statuses \cup {"UNREAD"}, outcome : {None}]

PagesTypeOK ==
    /\ TypeOK
    /\ page \in Tables \cup {"home"} /\ load \in {"none", "asked", "answered"}
    /\ fetched \in TableRows \cup {None} /\ shown \in TableRows \cup {None}
    /\ waiting \subseteq asked /\ asked \subseteq Requests
    /\ \A q, r \in waiting : call[q].op = call[r].op => q = r

\* A case that the page has opened of an alert that was final already.
OpenedLate ==
    \E r \in asked : call[r].op = "createCase" /\ reply[r] = "ok" /\ seen[r].alert \in Final

\* A page that did one thing after the other while nobody else did anything shows
\* what the server has, whether its requests were performed or refused, and
\* although it never loads its table again; the one exception is a case it opened
\* of a final alert, which stays final while the page calls it INVESTIGATING.
TableIsStored ==
    page \in Tables /\ load = "none" /\ waiting = {} /\ ~error /\ ~strayed
        => shown = Stored(page) \/ (page = "alerts" /\ OpenedLate)

-----------------------------------------------------------------------------
(***************************************************************************)
(* What TableIsStored rests on, in all states.                             *)
(***************************************************************************)

OperationsOf(p) ==
    CASE p = "alerts"         -> {"addNote", "createCase", "updateAlert"}
      [] p = "investigations" -> {"updateCase"}
      [] p = "notifications"  -> {"markRead"}
      [] OTHER                -> {}

\* The server has done what concerns the page's row.
Made(r) ==
    \/ reply[r] = "ok"
    \/ pc[r] \in {"forwarded", "insertCase", "logCreated", "logCase"}
    \/ pc[r] = "logAlert" /\ call[r].op # "updateCase"

AsStored(row) == row = Stored(page) \/ (page = "alerts" /\ OpenedLate)

\* The only request of the page: until the server has made its change, the table
\* is as stored; from then on, what the page will make of its row is.
UnderWay(r) ==
    /\ ~Made(r) => AsStored(shown)
    /\ Made(r) => AsStored(Updated(r)) \/ (call[r].op = "createCase" /\ seen[r].alert \in Final)
    /\ call[r].op = "createCase" =>
          /\ pc[r] \in {"readAlert", "writeAlert", "logAlert", "insertCase"} => case = None
          /\ pc[r] = "findCase" => seen[r].alert = alert

Undisturbed ==
    \/ waiting = {} /\ shown = None /\ error
    \/ waiting = {} /\ Served = {} /\ AsStored(shown)
    \/ \E r \in asked : waiting = {r} /\ Served \subseteq {r} /\ UnderWay(r)

PageInv ==
    /\ PagesTypeOK
    /\ page \notin Tables => load = "none"
    /\ page \notin Tables \/ load # "none" => shown = None /\ asked = {}
    /\ \A r \in asked : pc[r] # "idle" /\ call[r] \in Calls /\ call[r].op \in OperationsOf(page)
    /\ load = "answered" /\ ~strayed => Served = {} /\ fetched = Stored(page)
    /\ load = "none" /\ page \in Tables /\ ~strayed => Undisturbed
=============================================================================
