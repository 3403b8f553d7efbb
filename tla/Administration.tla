--------------------------- MODULE Administration ---------------------------
(***************************************************************************)
(* What stands behind the pages of BankData: administrators change the     *)
(* roles and statuses of users, customers add and remove beneficiaries.    *)
(* Guards, reads and writes of a request are steps apart, so requests that *)
(* were admitted see each other's writes or do not.                        *)
(*                                                                         *)
(* An access token expires at any time, so the guard may refuse anybody;   *)
(* Sessions is about what it must refuse.  SUSPENDED is as LOCKED here, an *)
(* employee as a customer; analysts have no business with these services.  *)
(* Beneficiaries are those of one account number, and a row is named after *)
(* the request that created it.                                            *)
(***************************************************************************)
EXTENDS FiniteSets

CONSTANTS
    Users,
    Admins,    \* who is an administrator at the start
    Requests,  \* HTTP requests, each made once
    None

ASSUME AdminsAssumption == Admins \subseteq Users /\ Admins # {}
ASSUME NoneAssumption == None \notin Users \cup Requests

Roles    == {"ADMIN", "CUSTOMER"}
Statuses == {"ACTIVE", "LOCKED"}

VARIABLES
    role, status,  \* the User rows
    owner,         \* Beneficiary rows: the owner of each, None if there is none
    pc, call, reply,  \* requests: next await, input, what the client hears
    written,       \* history: requests that have changed something
    crossed,       \* history: a right was to change while its owner was served
    doubled        \* history: a beneficiary was added twice at a time

rows  == <<role, status, owner>>
vars  == <<rows, pc, call, reply, written, crossed, doubled>>

NoCall == [by |-> None, op |-> "none", target |-> None, to |-> "none"]

Makers == Users \cup {None}  \* None: a request without a token

Changes ==
    [by : Makers, op : {"role"}, target : Users, to : Roles]
    \cup [by : Makers, op : {"status"}, target : Users, to : Statuses]

Saves ==
    [by : Makers, op : {"add"}, target : {None}, to : {"none"}]
    \cup [by : Makers, op : {"remove"}, target : Requests, to : {"none"}]

Asks == Changes \cup Saves

Calls == Asks \cup {NoCall}

Init ==
    /\ role = [u \in Users |-> IF u \in Admins THEN "ADMIN" ELSE "CUSTOMER"]
    /\ status = [u \in Users |-> "ACTIVE"]
    /\ owner = [r \in Requests |-> None]
    /\ pc = [r \in Requests |-> "idle"]
    /\ call = [r \in Requests |-> NoCall]
    /\ reply = [r \in Requests |-> "lost"]
    /\ written = {} /\ crossed = FALSE /\ doubled = FALSE

-----------------------------------------------------------------------------
\* A request's progress.  As elsewhere, a name with an underscore is a slip
\* one could make in the definition after it.

Served == {r \in Requests : pc[r] \notin {"idle", "done"}}

Adding == {"add"}
Administering == {"role", "status"}

Touches(c, d) == c.op \in Administering /\ c.target = d.by

Same(c, d) == {c.op, d.op} = Adding /\ c.by = d.by

Send(r, c, heard) ==
    /\ pc' = [pc EXCEPT ![r] = "guards"]
    /\ call' = [call EXCEPT ![r] = c]
    /\ reply' = [reply EXCEPT ![r] = IF heard THEN "none" ELSE "lost"]
    /\ crossed' = (crossed \/ \E q \in Served \ {r} : Touches(c, call[q]) \/ Touches(call[q], c))
    /\ doubled' = (doubled \/ \E q \in Served \ {r} : Same(c, call[q]))
    /\ UNCHANGED <<rows, written>>

Ask(r, c, heard) == pc[r] = "idle" /\ Send(r, c, heard)

AskAgain(r, c) == reply[r] = "unauthorized" /\ Send(r, c, TRUE)

\* What has been answered is forgotten, but after a 401 it may be asked again.
Answer(r, how) ==
    /\ pc' = [pc EXCEPT ![r] = "done"]
    /\ IF reply[r] = "none"
       THEN reply' = [reply EXCEPT ![r] = how]
       ELSE UNCHANGED reply
    /\ IF reply[r] = "none" /\ how = "unauthorized"
       THEN UNCHANGED call
       ELSE call' = [call EXCEPT ![r] = NoCall]

Goto(r, stage) == pc' = [pc EXCEPT ![r] = stage] /\ UNCHANGED <<call, reply>>

At(r, stage) == pc[r] = stage /\ UNCHANGED <<crossed, doubled>>

-----------------------------------------------------------------------------
\* AuthGuard and RolesGuard.

RoleFor(op) == IF op \in Administering THEN "ADMIN" ELSE "CUSTOMER"

Authenticated(u) == u # None /\ status[u] = "ACTIVE"

Authorize(r) ==
    /\ At(r, "guards")
    /\ \/ Answer(r, "unauthorized")
       \/ /\ Authenticated(call[r].by)
          /\ IF role[call[r].by] = RoleFor(call[r].op)
             THEN Goto(r, "read")
             ELSE Answer(r, "refused")
    /\ UNCHANGED <<rows, written>>

-----------------------------------------------------------------------------
\* UsersService.updateRole and updateStatus, BeneficiariesService.create and
\* remove: what they read before they write.

OwnRight_Unchecked(c) == FALSE

\* "You cannot remove your own admin role", "... lock or suspend your own account".
OwnRight(c) == c.by = c.target /\ c.to \in {"CUSTOMER", "LOCKED"}

\* "User already has this role", "... this status".
Already(c) == c.to \in {role[c.target], status[c.target]}

Mine(u) == {q \in Requests : owner[q] = u}

Twin_Unread(c) == FALSE

\* "Beneficiary already exists".
Twin(c) == Mine(c.by) # {}

Refused(c) ==
    CASE c.op \in Administering -> OwnRight(c) \/ Already(c)
      [] c.op = "add"    -> Twin(c)
      [] c.op = "remove" -> c.target \notin Mine(c.by)

Read(r) ==
    /\ At(r, "read")
    /\ IF Refused(call[r]) THEN Answer(r, "refused") ELSE Goto(r, "write")
    /\ UNCHANGED <<rows, written>>

\* One transaction with its audit log and its security event.
Written(r) ==
    /\ At(r, "write")
    /\ Answer(r, "ok")
    /\ written' = written \cup {r}

SetRole(r) ==
    /\ call[r].op = "role" /\ Written(r)
    /\ role' = [role EXCEPT ![call[r].target] = call[r].to]
    /\ UNCHANGED <<status, owner>>

SetStatus(r) ==
    /\ call[r].op = "status" /\ Written(r)
    /\ status' = [status EXCEPT ![call[r].target] = call[r].to]
    /\ UNCHANGED <<role, owner>>

Add(r) ==
    /\ call[r].op = "add" /\ Written(r)
    /\ owner' = [owner EXCEPT ![r] = call[r].by]
    /\ UNCHANGED <<role, status>>

\* Prisma's delete throws when the row has gone since it was read.
Remove(r) ==
    /\ call[r].op = "remove"
    /\ IF owner[call[r].target] # None
       THEN Written(r) /\ owner' = [owner EXCEPT ![call[r].target] = None]
       ELSE At(r, "write") /\ Answer(r, "refused") /\ UNCHANGED <<owner, written>>
    /\ UNCHANGED <<role, status>>

\* The client listens no longer: it has its answer, or a timeout or a broken
\* connection, whatever the server still does.
HangUp(r) ==
    /\ reply[r] # "lost" /\ reply' = [reply EXCEPT ![r] = "lost"]
    /\ call' = IF pc[r] = "done" THEN [call EXCEPT ![r] = NoCall] ELSE call
    /\ UNCHANGED <<rows, pc, written, crossed, doubled>>

Serve(r) ==
    \/ Authorize(r) \/ Read(r)
    \/ SetRole(r) \/ SetStatus(r) \/ Add(r) \/ Remove(r)

Next == \E r \in Requests :
    \/ \E c \in Asks : AskAgain(r, c) \/ \E heard \in BOOLEAN : Ask(r, c, heard)
    \/ Serve(r) \/ HangUp(r)

Spec == Init /\ [][Next]_vars

-----------------------------------------------------------------------------
\* Properties.

ServerTypeOK ==
    /\ role \in [Users -> Roles] /\ status \in [Users -> Statuses]
    /\ owner \in [Requests -> Users \cup {None}]
    /\ pc \in [Requests -> {"idle", "guards", "read", "write", "done"}]
    /\ call \in [Requests -> Calls]
    /\ reply \in [Requests -> {"none", "ok", "refused", "unauthorized", "lost"}]
    /\ written \subseteq Requests /\ crossed \in BOOLEAN /\ doubled \in BOOLEAN

\* An active administrator remains, whatever administrators do to others and
\* try to do to themselves, unless somebody's rights change while a request of
\* theirs is admitted: users.service checks itself against one target only.
AdministratorStays ==
    ~crossed => \E u \in Users : role[u] = "ADMIN" /\ status[u] = "ACTIVE"

\* A customer has a beneficiary once, unless it is added twice at a time.
NoTwins ==
    ~doubled => \A u \in Users : \A q, r \in Mine(u) : q = r
=============================================================================
