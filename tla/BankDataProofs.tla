--------------------------- MODULE BankDataProofs ---------------------------
(***************************************************************************)
(* What holds of Administration for all users, administrators and requests *)
(* whatever they ask for, and of a tab on top of it.                       *)
(*                                                                         *)
(* AdministratorStays rests on what a served request still has of its      *)
(* guards: while nobody's right to it has been changed, whoever makes it   *)
(* is an active administrator, and it takes no right of its own maker's.   *)
(* NoTwins rests on the owner of an addition, once looked for, still       *)
(* having no row.                                                          *)
(*                                                                         *)
(* A tab, with the other tabs and browsers, only asks of the server what   *)
(* Administration allows: a request to be sent again, after a 401, is      *)
(* still the one the page made, and whoever is signed in is a user.  What  *)
(* it shows rests on what its current load has: the user that is signed    *)
(* in, unless another tab has changed that, and everything that the page   *)
(* was told is done.                                                       *)
(***************************************************************************)
EXTENDS BankData, TLAPS

\* As long as the histories say so, the requests under way leave each other be.
Disjoint ==
    /\ ~crossed => \A q, r \in Served : q # r => ~Touches(call[q], call[r])
    /\ ~doubled => \A q, r \in Served : q # r => ~Same(call[q], call[r])

Admitted ==
    \A r \in Requests : pc[r] \in {"read", "write"} =>
        /\ call[r].by \in Users
        /\ call[r].op \in Administering /\ ~crossed =>
              role[call[r].by] = "ADMIN" /\ status[call[r].by] = "ACTIVE"

Checked ==
    \A r \in Requests : pc[r] = "write" =>
        /\ call[r].op \in Administering => ~OwnRight(call[r])
        /\ call[r].op = "add" /\ ~doubled => Mine(call[r].by) = {}

Inv == ServerTypeOK /\ Disjoint /\ Admitted /\ Checked /\ AdministratorStays /\ NoTwins

-----------------------------------------------------------------------------
\* Facts about calls.

LEMMA CallFields ==
    ASSUME NEW c \in Calls
    PROVE  /\ c.by \in Users \cup {None}
           /\ c.op = "role" => c.target \in Users /\ c.to \in Roles
           /\ c.op = "status" => c.target \in Users /\ c.to \in Statuses
           /\ c.op = "remove" => c.target \in Requests
           /\ c.op \in {"none", "role", "status", "add", "remove"}
<1>1. CASE c \in Changes
  BY <1>1 DEF Changes, Makers
<1>2. CASE c \in Saves
  BY <1>2 DEF Saves, Makers
<1>3. CASE c = NoCall
  BY <1>3 DEF NoCall
<1> QED
  BY <1>1, <1>2, <1>3 DEF Calls, Asks

LEMMA NoCallIsCall == NoCall \in Calls
BY DEF Calls

-----------------------------------------------------------------------------
\* A step of the server for r, summed up: it ends the request, or leaves what was
\* asked, and touches no other.

Moves(r) ==
    /\ pc[r] \in {"guards", "read", "write"}
    /\ pc' = [pc EXCEPT ![r] = pc'[r]]
    /\ pc'[r] \in {"read", "write", "done"}
    /\ call' \in [Requests -> Calls]
    /\ \A q \in Requests : q # r => call'[q] = call[q]
    /\ pc'[r] # "done" => call'[r] = call[r]
    /\ reply' \in [Requests -> {"none", "ok", "refused", "unauthorized", "lost"}]
    /\ crossed' = crossed /\ doubled' = doubled

LEMMA AnswerMoves ==
    ASSUME ServerTypeOK, NEW r \in Requests,
           NEW stage \in {"guards", "read", "write"}, At(r, stage),
           NEW how \in {"ok", "refused", "unauthorized"}, Answer(r, how)
    PROVE  Moves(r) /\ pc'[r] = "done"
<1>1. NoCall \in Calls
  BY NoCallIsCall
<1>2. /\ call' \in [Requests -> Calls]
      /\ \A q \in Requests : q # r => call'[q] = call[q]
  BY <1>1 DEF Answer, ServerTypeOK
<1>3. reply' \in [Requests -> {"none", "ok", "refused", "unauthorized", "lost"}]
  BY DEF Answer, ServerTypeOK
<1> QED
  BY <1>2, <1>3 DEF Answer, At, Moves, ServerTypeOK

LEMMA GotoMoves ==
    ASSUME ServerTypeOK, NEW r \in Requests,
           NEW stage \in {"guards", "read", "write"}, At(r, stage),
           NEW next \in {"read", "write"}, Goto(r, next)
    PROVE  Moves(r) /\ pc'[r] = next
BY DEF Goto, At, Moves, ServerTypeOK

\* What holds of a served request is kept by a step that moves it or another.
LEMMA MovesKeepsDisjoint ==
    ASSUME ServerTypeOK, Disjoint, NEW r \in Requests, Moves(r)
    PROVE  Disjoint'
<1>1. \A q \in Served' : q \in Served /\ call'[q] = call[q]
  BY DEF Moves, Served, ServerTypeOK
<1> QED
  BY <1>1 DEF Disjoint, Moves

-----------------------------------------------------------------------------

LEMMA InitInv == Init => Inv
<1> SUFFICES ASSUME Init PROVE Inv
  OBVIOUS
<1>1. ServerTypeOK
  BY NoCallIsCall, AdminsAssumption DEF Init, ServerTypeOK, Roles, Statuses
<1>2. AdministratorStays
  BY AdminsAssumption DEF Init, AdministratorStays
<1>3. NoTwins
  BY NoneAssumption DEF Init, NoTwins, Mine
<1> QED
  BY <1>1, <1>2, <1>3 DEF Init, Inv, Disjoint, Admitted, Checked, Served

\* A request is made: the histories see whom it meets.
LEMMA SendKeeps ==
    ASSUME Inv, NEW r \in Requests, NEW c \in Asks, NEW heard \in BOOLEAN, Send(r, c, heard)
    PROVE  Inv'
<1>1. ServerTypeOK'
  <2>1. c \in Calls
    BY DEF Calls
  <2> QED
    BY <2>1 DEF Inv, Send, ServerTypeOK, rows
<1>2. \A q \in Requests : q # r => pc'[q] = pc[q] /\ call'[q] = call[q]
  BY DEF Inv, Send, ServerTypeOK
<1>3. pc'[r] = "guards" /\ call'[r] = c
  BY DEF Inv, Send, ServerTypeOK
<1>4. Disjoint'
  <2>1. \A q \in Served' : q # r => q \in Served \ {r} /\ call'[q] = call[q]
    BY <1>2 DEF Served
  <2>2. ASSUME ~crossed', NEW p \in Served', NEW q \in Served', p # q
        PROVE  ~Touches(call'[p], call'[q])
    BY <1>3, <2>1, <2>2 DEF Inv, Disjoint, Send
  <2>3. ASSUME ~doubled', NEW p \in Served', NEW q \in Served', p # q
        PROVE  ~Same(call'[p], call'[q])
    <3>1. \A a, b : Same(a, b) => Same(b, a)
      BY DEF Same
    <3> QED
      BY <1>3, <2>1, <2>3, <3>1 DEF Inv, Disjoint, Send
  <2> QED
    BY <2>2, <2>3 DEF Disjoint
<1>5. Admitted'
  BY <1>2, <1>3 DEF Inv, Admitted, Send, rows
<1>6. Checked'
  <2> SUFFICES ASSUME NEW q \in Requests, pc'[q] = "write"
               PROVE  (/\ call[q].op \in Administering => ~OwnRight(call[q])
                       /\ call[q].op = "add" /\ ~doubled => Mine(call[q].by) = {})'
    BY DEF Checked
  <2>1. pc[q] = "write" /\ call'[q] = call[q]
    BY <1>2, <1>3
  <2>2. UNCHANGED owner /\ (~doubled' => ~doubled)
    BY DEF Send, rows
  <2> QED
    BY <2>1, <2>2 DEF Inv, Checked, Mine
<1>7. AdministratorStays' /\ NoTwins'
  BY DEF Inv, AdministratorStays, NoTwins, Mine, Send, rows
<1> QED
  BY <1>1, <1>4, <1>5, <1>6, <1>7 DEF Inv

LEMMA HangUpKeeps ==
    ASSUME Inv, NEW r \in Requests, HangUp(r)
    PROVE  Inv'
<1>1. ServerTypeOK'
  BY NoCallIsCall DEF Inv, HangUp, ServerTypeOK, rows
<1>2. \A q \in Requests : pc[q] # "done" => call'[q] = call[q]
  BY DEF Inv, HangUp, ServerTypeOK
<1>3. Disjoint'
  BY <1>2 DEF Inv, Disjoint, HangUp, Served
<1>4. Admitted' /\ Checked'
  BY <1>2 DEF Inv, Admitted, Checked, HangUp, rows, Mine, OwnRight
<1>5. AdministratorStays' /\ NoTwins'
  BY DEF Inv, AdministratorStays, NoTwins, Mine, HangUp, rows
<1> QED
  BY <1>1, <1>3, <1>4, <1>5 DEF Inv

-----------------------------------------------------------------------------
\* The steps of the server.

\* One that changes no row and admits nobody.
LEMMA QuietKeeps ==
    ASSUME Inv, NEW r \in Requests, Moves(r), UNCHANGED <<rows, written>>,
           pc'[r] = "done"
    PROVE  Inv'
<1>1. ServerTypeOK'
  BY DEF Inv, Moves, ServerTypeOK, rows
<1>2. Disjoint'
  BY MovesKeepsDisjoint DEF Inv
<1>3. \A q \in Requests : pc'[q] # "done" => pc'[q] = pc[q] /\ call'[q] = call[q]
  BY DEF Inv, Moves, ServerTypeOK
<1>4. Admitted'
  BY <1>3 DEF Inv, Admitted, Moves, rows
<1>5. Checked'
  BY <1>3 DEF Inv, Checked, Moves, rows, Mine
<1>6. AdministratorStays' /\ NoTwins'
  BY DEF Inv, AdministratorStays, NoTwins, Mine, Moves, rows
<1> QED
  BY <1>1, <1>2, <1>4, <1>5, <1>6 DEF Inv

LEMMA AuthorizeKeeps ==
    ASSUME Inv, NEW r \in Requests, Authorize(r)
    PROVE  Inv'
<1>0. ServerTypeOK /\ At(r, "guards") /\ UNCHANGED <<rows, written>>
  BY DEF Inv, Authorize
<1>1. CASE \E how \in {"unauthorized", "refused"} : Answer(r, how)
  BY <1>0, <1>1, AnswerMoves, QuietKeeps
<1>2. CASE /\ Authenticated(call[r].by) /\ role[call[r].by] = RoleFor(call[r].op)
           /\ Goto(r, "read")
  <2>1. Moves(r) /\ pc'[r] = "read" /\ call' = call
    BY <1>0, <1>2, GotoMoves DEF Goto
  <2>2. call[r].by \in Users /\ status[call[r].by] = "ACTIVE"
    BY <1>0, <1>2, CallFields DEF ServerTypeOK, Authenticated
  <2>3. ServerTypeOK'
    BY <1>0, <2>1 DEF Moves, ServerTypeOK, rows
  <2>4. Disjoint'
    BY <1>0, <2>1, MovesKeepsDisjoint DEF Inv
  <2>5. \A q \in Requests : q # r => pc'[q] = pc[q]
    BY <1>0, <2>1 DEF Moves, ServerTypeOK
  <2>6. Admitted'
    BY <1>0, <1>2, <2>1, <2>2, <2>5 DEF Inv, Admitted, Moves, rows, RoleFor
  <2>7. Checked'
    BY <1>0, <2>1, <2>5 DEF Inv, Checked, Moves, rows, Mine
  <2>8. AdministratorStays' /\ NoTwins'
    BY <1>0, <2>1 DEF Inv, AdministratorStays, NoTwins, Mine, Moves, rows
  <2> QED
    BY <2>3, <2>4, <2>6, <2>7, <2>8 DEF Inv
<1> QED
  BY <1>1, <1>2 DEF Authorize

LEMMA ReadKeeps ==
    ASSUME Inv, NEW r \in Requests, Read(r)
    PROVE  Inv'
<1>0. ServerTypeOK /\ At(r, "read") /\ UNCHANGED <<rows, written>>
  BY DEF Inv, Read
<1>1. CASE Answer(r, "refused")
  BY <1>0, <1>1, AnswerMoves, QuietKeeps
<1>2. CASE ~Refused(call[r]) /\ Goto(r, "write")
  <2>1. Moves(r) /\ pc'[r] = "write" /\ call' = call
    BY <1>0, <1>2, GotoMoves DEF Goto
  <2>2. call[r].op \in Administering => ~OwnRight(call[r])
    BY <1>2 DEF Refused, Administering
  <2>3. call[r].op = "add" => Mine(call[r].by) = {}
    BY <1>2 DEF Refused, Administering, Twin
  <2>4. ServerTypeOK'
    BY <1>0, <2>1 DEF Moves, ServerTypeOK, rows
  <2>5. Disjoint'
    BY <1>0, <2>1, MovesKeepsDisjoint DEF Inv
  <2>6. \A q \in Requests : q # r => pc'[q] = pc[q]
    BY <1>0, <2>1 DEF Moves, ServerTypeOK
  <2>7. Admitted'
    BY <1>0, <2>1, <2>6 DEF Inv, Admitted, Moves, rows, At
  <2>8. Checked'
    BY <1>0, <2>1, <2>2, <2>3, <2>6 DEF Inv, Checked, Moves, rows, Mine
  <2>9. AdministratorStays' /\ NoTwins'
    BY <1>0, <2>1 DEF Inv, AdministratorStays, NoTwins, Mine, Moves, rows
  <2> QED
    BY <2>4, <2>5, <2>7, <2>8, <2>9 DEF Inv
<1> QED
  BY <1>1, <1>2 DEF Read

\* What every write has in common: r has been admitted and checked, and is over.
LEMMA WrittenFacts ==
    ASSUME Inv, NEW r \in Requests, Written(r)
    PROVE  /\ Moves(r) /\ pc[r] = "write" /\ pc'[r] = "done"
           /\ call[r] \in Calls /\ call[r].by \in Users
           /\ written' \subseteq Requests
           /\ \A q \in Requests : pc'[q] # "done" =>
                 q # r /\ pc'[q] = pc[q] /\ call'[q] = call[q]
<1>1. ServerTypeOK /\ At(r, "write") /\ Answer(r, "ok")
  BY DEF Inv, Written
<1>2. Moves(r) /\ pc'[r] = "done"
  BY <1>1, AnswerMoves
<1>3. pc[r] = "write" /\ call[r] \in Calls /\ call[r].by \in Users
  BY <1>1 DEF Inv, At, ServerTypeOK, Admitted
<1>4. written' \subseteq Requests
  BY <1>1 DEF Written, ServerTypeOK
<1> QED
  BY <1>1, <1>2, <1>3, <1>4 DEF Moves, ServerTypeOK

LEMMA SetRoleKeeps ==
    ASSUME Inv, NEW r \in Requests, SetRole(r)
    PROVE  Inv'
<1> DEFINE by == call[r].by
           target == call[r].target
           to == call[r].to
<1>0. call[r].op = "role" /\ Written(r) /\ UNCHANGED <<status, owner>>
  BY DEF SetRole
<1>1. /\ Moves(r) /\ pc[r] = "write" /\ pc'[r] = "done" /\ by \in Users
      /\ target \in Users /\ to \in Roles /\ written' \subseteq Requests
  BY <1>0, WrittenFacts, CallFields
<1>2. \A q \in Requests : pc'[q] # "done" => q # r /\ pc'[q] = pc[q] /\ call'[q] = call[q]
  BY <1>0, WrittenFacts
<1>3. role' \in [Users -> Roles] /\ \A u \in Users : role'[u] = IF u = target THEN to ELSE role[u]
  BY <1>1 DEF SetRole, Inv, ServerTypeOK
<1>4. ServerTypeOK'
  BY <1>0, <1>1, <1>3 DEF Inv, Moves, ServerTypeOK
<1>5. Disjoint'
  BY <1>1, MovesKeepsDisjoint DEF Inv
<1>6. Admitted'
  <2> SUFFICES ASSUME NEW q \in Requests, pc'[q] \in {"read", "write"}
               PROVE  /\ call'[q].by \in Users
                      /\ call'[q].op \in Administering /\ ~crossed' =>
                            role'[call'[q].by] = "ADMIN" /\ status'[call'[q].by] = "ACTIVE"
    BY DEF Admitted
  <2>1. q # r /\ pc[q] \in {"read", "write"} /\ call'[q] = call[q] /\ crossed' = crossed
    BY <1>1, <1>2 DEF Moves
  <2>2. ~crossed => call[q].by # target
    BY <1>0, <1>1, <2>1 DEF Inv, Disjoint, Served, Touches, Administering
  <2> QED
    BY <1>0, <1>3, <2>1, <2>2 DEF Inv, Admitted
<1>7. Checked'
  BY <1>0, <1>1, <1>2 DEF Inv, Checked, Moves, Mine
<1>8. AdministratorStays'
  <2> SUFFICES ASSUME ~crossed
               PROVE  role'[by] = "ADMIN" /\ status'[by] = "ACTIVE"
    BY <1>1 DEF AdministratorStays, Moves
  <2>1. role[by] = "ADMIN" /\ status[by] = "ACTIVE" /\ ~OwnRight(call[r])
    BY <1>0, <1>1 DEF Inv, Admitted, Checked, Administering
  <2>2. by = target => to = "ADMIN"
    BY <1>1, <2>1 DEF OwnRight, Roles
  <2> QED
    BY <1>0, <1>1, <1>3, <2>1, <2>2
<1>9. NoTwins'
  BY <1>0, <1>1 DEF Inv, NoTwins, Mine, Moves
<1> QED
  BY <1>4, <1>5, <1>6, <1>7, <1>8, <1>9 DEF Inv

LEMMA SetStatusKeeps ==
    ASSUME Inv, NEW r \in Requests, SetStatus(r)
    PROVE  Inv'
<1> DEFINE by == call[r].by
           target == call[r].target
           to == call[r].to
<1>0. call[r].op = "status" /\ Written(r) /\ UNCHANGED <<role, owner>>
  BY DEF SetStatus
<1>1. /\ Moves(r) /\ pc[r] = "write" /\ pc'[r] = "done" /\ by \in Users
      /\ target \in Users /\ to \in Statuses /\ written' \subseteq Requests
  BY <1>0, WrittenFacts, CallFields
<1>2. \A q \in Requests : pc'[q] # "done" => q # r /\ pc'[q] = pc[q] /\ call'[q] = call[q]
  BY <1>0, WrittenFacts
<1>3. /\ status' \in [Users -> Statuses]
      /\ \A u \in Users : status'[u] = IF u = target THEN to ELSE status[u]
  BY <1>1 DEF SetStatus, Inv, ServerTypeOK
<1>4. ServerTypeOK'
  BY <1>0, <1>1, <1>3 DEF Inv, Moves, ServerTypeOK
<1>5. Disjoint'
  BY <1>1, MovesKeepsDisjoint DEF Inv
<1>6. Admitted'
  <2> SUFFICES ASSUME NEW q \in Requests, pc'[q] \in {"read", "write"}
               PROVE  /\ call'[q].by \in Users
                      /\ call'[q].op \in Administering /\ ~crossed' =>
                            role'[call'[q].by] = "ADMIN" /\ status'[call'[q].by] = "ACTIVE"
    BY DEF Admitted
  <2>1. q # r /\ pc[q] \in {"read", "write"} /\ call'[q] = call[q] /\ crossed' = crossed
    BY <1>1, <1>2 DEF Moves
  <2>2. ~crossed => call[q].by # target
    BY <1>0, <1>1, <2>1 DEF Inv, Disjoint, Served, Touches, Administering
  <2> QED
    BY <1>0, <1>3, <2>1, <2>2 DEF Inv, Admitted
<1>7. Checked'
  BY <1>0, <1>1, <1>2 DEF Inv, Checked, Moves, Mine
<1>8. AdministratorStays'
  <2> SUFFICES ASSUME ~crossed
               PROVE  role'[by] = "ADMIN" /\ status'[by] = "ACTIVE"
    BY <1>1 DEF AdministratorStays, Moves
  <2>1. role[by] = "ADMIN" /\ status[by] = "ACTIVE" /\ ~OwnRight(call[r])
    BY <1>0, <1>1 DEF Inv, Admitted, Checked, Administering
  <2>2. by = target => to = "ACTIVE"
    BY <1>1, <2>1 DEF OwnRight, Statuses
  <2> QED
    BY <1>0, <1>1, <1>3, <2>1, <2>2
<1>9. NoTwins'
  BY <1>0, <1>1 DEF Inv, NoTwins, Mine, Moves
<1> QED
  BY <1>4, <1>5, <1>6, <1>7, <1>8, <1>9 DEF Inv

LEMMA AddKeeps ==
    ASSUME Inv, NEW r \in Requests, Add(r)
    PROVE  Inv'
<1> DEFINE by == call[r].by
<1>0. call[r].op = "add" /\ Written(r) /\ UNCHANGED <<role, status>>
  BY DEF Add
<1>1. /\ Moves(r) /\ pc[r] = "write" /\ pc'[r] = "done" /\ by \in Users
      /\ written' \subseteq Requests
  BY <1>0, WrittenFacts
<1>2. \A q \in Requests : pc'[q] # "done" => q # r /\ pc'[q] = pc[q] /\ call'[q] = call[q]
  BY <1>0, WrittenFacts
<1>3. /\ owner' \in [Requests -> Users \cup {None}]
      /\ \A p \in Requests : owner'[p] = IF p = r THEN by ELSE owner[p]
  BY <1>1 DEF Add, Inv, ServerTypeOK
<1>4. ServerTypeOK'
  BY <1>0, <1>1, <1>3 DEF Inv, Moves, ServerTypeOK
<1>5. Disjoint'
  BY <1>1, MovesKeepsDisjoint DEF Inv
<1>6. Admitted'
  BY <1>0, <1>1, <1>2 DEF Inv, Admitted, Moves
<1>7. Checked'
  <2> SUFFICES ASSUME NEW q \in Requests, pc'[q] = "write"
               PROVE  (/\ call[q].op \in Administering => ~OwnRight(call[q])
                       /\ call[q].op = "add" /\ ~doubled => Mine(call[q].by) = {})'
    BY DEF Checked
  <2>1. q # r /\ pc[q] = "write" /\ call'[q] = call[q] /\ doubled' = doubled
    BY <1>1, <1>2 DEF Moves
  <2>2. call[q].op = "add" /\ ~doubled => call[q].by # by
    BY <1>0, <1>1, <2>1 DEF Inv, Disjoint, Served, Same, Adding
  <2> QED
    BY <1>3, <2>1, <2>2 DEF Inv, Checked, Mine
<1>8. AdministratorStays'
  BY <1>0, <1>1 DEF Inv, AdministratorStays, Moves
<1>9. NoTwins'
  <2>1. ~doubled => Mine(by) = {}
    BY <1>0, <1>1 DEF Inv, Checked
  <2> QED
    BY <1>1, <1>3, <2>1 DEF Inv, NoTwins, Mine, Moves
<1> QED
  BY <1>4, <1>5, <1>6, <1>7, <1>8, <1>9 DEF Inv

LEMMA RemoveKeeps ==
    ASSUME Inv, NEW r \in Requests, Remove(r)
    PROVE  Inv'
<1>0. call[r].op = "remove" /\ UNCHANGED <<role, status>>
  BY DEF Remove
<1>1. CASE At(r, "write") /\ Answer(r, "refused") /\ UNCHANGED <<owner, written>>
  BY <1>0, <1>1, AnswerMoves, QuietKeeps DEF Inv, rows
<1>2. CASE Written(r) /\ owner' = [owner EXCEPT ![call[r].target] = None]
  <2>1. /\ Moves(r) /\ pc[r] = "write" /\ pc'[r] = "done"
        /\ written' \subseteq Requests /\ call[r].target \in Requests
    BY <1>0, <1>2, WrittenFacts, CallFields
  <2>2. \A q \in Requests : pc'[q] # "done" => pc'[q] = pc[q] /\ call'[q] = call[q]
    BY <1>2, WrittenFacts
  <2>3. /\ owner' \in [Requests -> Users \cup {None}]
        /\ \A p \in Requests : owner'[p] = IF p = call[r].target THEN None ELSE owner[p]
    BY <1>2, <2>1 DEF Inv, ServerTypeOK
  <2>4. ServerTypeOK'
    <3>1. owner' \in [Requests -> Users \cup {None}]
      BY <2>3
    <3> QED
      BY <1>0, <2>1, <3>1 DEF Inv, Moves, ServerTypeOK
  <2>5. Disjoint'
    BY <2>1, MovesKeepsDisjoint DEF Inv
  <2>6. Admitted'
    BY <1>0, <2>1, <2>2 DEF Inv, Admitted, Moves
  <2>7. Checked'
    <3> SUFFICES ASSUME NEW q \in Requests, pc'[q] = "write"
                 PROVE  (/\ call[q].op \in Administering => ~OwnRight(call[q])
                         /\ call[q].op = "add" /\ ~doubled => Mine(call[q].by) = {})'
      BY DEF Checked
    <3>1. pc[q] = "write" /\ call'[q] = call[q] /\ doubled' = doubled
      BY <2>1, <2>2 DEF Moves
    <3>2. call[q].by \in Users
      BY <3>1 DEF Inv, Admitted
    <3> QED
      BY <2>3, <3>1, <3>2, NoneAssumption DEF Inv, Checked, Mine
  <2>8. AdministratorStays'
    BY <1>0, <2>1 DEF Inv, AdministratorStays, Moves
  <2>9. NoTwins'
    BY <2>1, <2>3, NoneAssumption DEF Inv, NoTwins, Mine, Moves
  <2> QED
    BY <2>4, <2>5, <2>6, <2>7, <2>8, <2>9 DEF Inv
<1> QED
  BY <1>1, <1>2 DEF Remove

-----------------------------------------------------------------------------
\* A request that is served, or was refused with a 401, still says what it asks.

Asked ==
    \A r \in Requests :
        /\ r \in Served => call[r] \in Asks /\ reply[r] # "unauthorized"
        /\ reply[r] = "unauthorized" => call[r] \in Asks

LEMMA ServeForms ==
    ASSUME NEW r \in Requests, Serve(r)
    PROVE  /\ r \in Served
           /\ \/ \E how \in {"ok", "refused", "unauthorized"} : Answer(r, how)
              \/ \E stage \in {"read", "write"} : Goto(r, stage)
BY DEF Serve, Served, At, Authorize, Read, Written, SetRole, SetStatus, Add, Remove

LEMMA ServeKeepsAsked ==
    ASSUME ServerTypeOK, Asked, NEW r \in Requests, Serve(r)
    PROVE  Asked'
<1>1. r \in Served
  BY ServeForms
<1>2. ASSUME NEW how \in {"ok", "refused", "unauthorized"}, Answer(r, how) PROVE Asked'
  BY <1>1, <1>2 DEF Asked, Answer, Served, ServerTypeOK
<1>3. ASSUME NEW stage \in {"read", "write"}, Goto(r, stage) PROVE Asked'
  BY <1>1, <1>3 DEF Asked, Goto, Served, ServerTypeOK
<1> QED
  BY <1>2, <1>3, ServeForms

LEMMA SendKeepsAsked ==
    ASSUME ServerTypeOK, Asked, NEW r \in Requests, NEW c \in Asks,
           NEW heard \in BOOLEAN, Send(r, c, heard)
    PROVE  Asked'
BY DEF Asked, Send, Served, ServerTypeOK

LEMMA HangUpKeepsAsked ==
    ASSUME ServerTypeOK, Asked, NEW r \in Requests, HangUp(r)
    PROVE  Asked'
BY DEF Asked, HangUp, Served, ServerTypeOK

-----------------------------------------------------------------------------

LEMMA NextKeeps == Inv /\ [Next]_vars => Inv'
<1> SUFFICES ASSUME Inv, [Next]_vars PROVE Inv'
  OBVIOUS
<1>1. CASE UNCHANGED vars
  <2>0. UNCHANGED <<role, status, owner, pc, call, reply, written, crossed, doubled>>
    BY <1>1 DEF vars, rows
  <2>1. ServerTypeOK'
    BY <1>1 DEF Inv, ServerTypeOK, vars, rows
  <2>2. Disjoint' /\ Admitted' /\ Checked'
    BY <1>1 DEF Inv, Disjoint, Admitted, Checked, Served, Mine, vars, rows
  <2>3. AdministratorStays' /\ NoTwins'
    BY <1>1 DEF Inv, AdministratorStays, NoTwins, Mine, vars, rows
  <2> QED
    BY <2>1, <2>2, <2>3 DEF Inv
<1>2. ASSUME NEW r \in Requests, NEW c \in Asks,
             AskAgain(r, c) \/ \E heard \in BOOLEAN : Ask(r, c, heard)
      PROVE  Inv'
  BY <1>2, SendKeeps DEF Ask, AskAgain
<1>3. ASSUME NEW r \in Requests, Serve(r) PROVE Inv'
  BY <1>3, AuthorizeKeeps, ReadKeeps, SetRoleKeeps, SetStatusKeeps, AddKeeps, RemoveKeeps
     DEF Serve
<1>4. ASSUME NEW r \in Requests, HangUp(r) PROVE Inv'
  BY <1>4, HangUpKeeps
<1> QED
  BY <1>1, <1>2, <1>3, <1>4 DEF Next

\* The inductive invariant holds in every state of Administration.
THEOREM Invariant == Spec => []Inv
BY InitInv, NextKeeps, PTL DEF Spec

\* Whatever administrators ask for, an active one remains, unless somebody's
\* rights are to change while a request of theirs is served.
THEOREM AnAdministratorStays == Spec => []AdministratorStays
<1>1. Inv => AdministratorStays
  BY DEF Inv
<1> QED
  BY <1>1, Invariant, PTL

\* Whatever customers add and remove, a customer has a beneficiary once, unless it
\* is added twice at a time.
THEOREM BeneficiariesOnce == Spec => []NoTwins
<1>1. Inv => NoTwins
  BY DEF Inv
<1> QED
  BY <1>1, Invariant, PTL

-----------------------------------------------------------------------------
\* The tab.

SignedInAUser == stored # None => stored.by \in Users

TabInv == ServerTypeOK /\ Asked /\ SignedInAUser

-----------------------------------------------------------------------------

LEMMA AskedByAnother ==
    ASSUME NEW c \in Asks, NEW u \in Makers
    PROVE  [c EXCEPT !.by = u] \in Asks
<1>1. CASE c \in Changes
  <2>1. [c EXCEPT !.by = u] \in Changes
    BY <1>1 DEF Changes
  <2> QED
    BY <2>1 DEF Asks
<1>2. CASE c \in Saves
  <2>1. [c EXCEPT !.by = u] \in Saves
    BY <1>2 DEF Saves
  <2> QED
    BY <2>1 DEF Asks
<1> QED
  BY <1>1, <1>2 DEF Asks

\* What the steps of a tab do on the server.
Asking(r) == \E c \in Asks : AskAgain(r, c) \/ \E heard \in BOOLEAN : Ask(r, c, heard)

ServerMoves ==
    \/ UNCHANGED vars
    \/ \E r \in Requests : Asking(r) \/ Serve(r) \/ HangUp(r)

LEMMA TabStepIsServerStep ==
    ASSUME TabInv, [TabNext]_allVars
    PROVE  ServerMoves
<1>1. CASE UNCHANGED allVars
  BY <1>1 DEF allVars, ServerMoves
<1>2. CASE \E u \in Visitors : Login(u) \/ LoginElsewhere(u)
  BY <1>2 DEF Login, LoginElsewhere, ServerMoves
<1>3. CASE Logout \/ LogoutElsewhere \/ StorageEvent
  BY <1>3 DEF Logout, LogoutElsewhere, StorageEvent, ServerMoves
<1>4. CASE \E l \in Loads :
              RunEffect(l) \/ Reload(l) \/ ServeLoad(l) \/ Landed(l) \/ LoadFailed(l) \/ LoadRefused(l)
  BY <1>4 DEF RunEffect, Reload, ServeLoad, Landed, LoadFailed, LoadRefused, ServerMoves
<1>5. ASSUME NEW r \in Requests, Submit(r) PROVE ServerMoves
  <2>1. PICK c \in Orders : Ask(r, [c EXCEPT !.by = Bearer], TRUE)
    BY <1>5 DEF Submit
  <2>2. Bearer \in Makers
    BY DEF Bearer, Makers, TabInv, SignedInAUser
  <2>3. [c EXCEPT !.by = Bearer] \in Asks
    BY <2>2, AskedByAnother, AsksAssumption
  <2> QED
    BY <2>1, <2>3 DEF Asking, ServerMoves
<1>6. ASSUME NEW r \in Requests, AskElsewhere(r) PROVE ServerMoves
  BY <1>6, AsksAssumption DEF AskElsewhere, Asking, ServerMoves
<1>7. ASSUME NEW r \in Requests, ServerStep(r) PROVE ServerMoves
  BY <1>7 DEF ServerStep, ServerMoves
<1>8. ASSUME NEW r \in Requests, Done(r) \/ Failed(r) \/ RequestExpired(r) PROVE ServerMoves
  BY <1>8 DEF Done, Failed, Forget, RequestExpired, ServerMoves
<1>9. ASSUME NEW r \in Requests, RequestRenewed(r) PROVE ServerMoves
  <2>1. /\ AskAgain(r, [call[r] EXCEPT !.by = stored.by])
        /\ stored # None
    BY <1>9 DEF RequestRenewed, Renew
  <2>2. call[r] \in Asks /\ stored.by \in Makers
    BY <2>1 DEF AskAgain, TabInv, Asked, SignedInAUser, Makers
  <2> QED
    BY <2>1, <2>2, AskedByAnother DEF Asking, ServerMoves
<1> QED
  BY <1>1, <1>2, <1>3, <1>4, <1>5, <1>6, <1>7, <1>8, <1>9 DEF TabNext

LEMMA ServerMovesAreNext == ServerMoves => [Next]_vars
BY DEF ServerMoves, Asking, Next

-----------------------------------------------------------------------------

LEMMA TabInitInv == TabInit => TabInv
<1> SUFFICES ASSUME TabInit PROVE TabInv
  OBVIOUS
<1>1. ServerTypeOK
  BY InitInv DEF TabInit, Inv
<1>2. Asked
  BY DEF TabInit, Init, Asked, Served
<1> QED
  BY <1>1, <1>2 DEF TabInit, TabInv, SignedInAUser

LEMMA ServerMovesKeepAsked ==
    ASSUME ServerTypeOK, Asked, ServerMoves
    PROVE  Asked'
<1>1. CASE UNCHANGED vars
  BY <1>1 DEF vars, Asked, Served
<1>2. ASSUME NEW r \in Requests, Asking(r) PROVE Asked'
  BY <1>2, SendKeepsAsked DEF Asking, AskAgain, Ask
<1> QED
  BY <1>1, <1>2, ServeKeepsAsked, HangUpKeepsAsked DEF ServerMoves

LEMMA StoredIsAUsers ==
    ASSUME SignedInAUser, [TabNext]_allVars
    PROVE  SignedInAUser'
<1>1. \/ UNCHANGED stored
      \/ Unstore
      \/ \E u \in Visitors : StoreLogin(u)
  BY DEF TabNext, Login, Logout, LoginElsewhere, LogoutElsewhere, StorageEvent,
         RunEffect, Reload, ServeLoad, Landed, LoadFailed, LoadRefused, Renew, Expire,
         Submit, AskElsewhere, ServerStep, Done, Failed, RequestRenewed, RequestExpired,
         allVars, tab
<1>2. CASE \E u \in Visitors : StoreLogin(u)
  BY <1>2, OursAssumption DEF StoreLogin, Session, SignedInAUser
<1> QED
  BY <1>1, <1>2 DEF Unstore, SignedInAUser

LEMMA TabInvariant ==
    ASSUME Inv, TabInv, [TabNext]_allVars
    PROVE  Inv' /\ TabInv'
<1>1. ServerMoves
  BY TabStepIsServerStep
<1>2. Inv'
  BY <1>1, ServerMovesAreNext, NextKeeps
<1>3. Asked' /\ SignedInAUser'
  BY <1>1, ServerMovesKeepAsked, StoredIsAUsers DEF TabInv
<1> QED
  BY <1>2, <1>3 DEF Inv, TabInv

LEMMA TabKeepsInv == TabSpec => [](Inv /\ TabInv)
<1>1. TabInit => Inv /\ TabInv
  BY InitInv, TabInitInv DEF TabInit
<1>2. Inv /\ TabInv /\ [TabNext]_allVars => (Inv /\ TabInv)'
  BY TabInvariant
<1> QED
  BY <1>1, <1>2, PTL DEF TabSpec

\* The tab, whatever its sessions and loads do, implements Administration: the server
\* sees requests of users only, each a thing that Administration lets one ask.
THEOREM TabImplementsAdministration == TabSpec => Spec
<1>1. TabInit => Init
  BY DEF TabInit
<1>2. Inv /\ TabInv /\ [TabNext]_allVars => [Next]_vars
  BY TabStepIsServerStep, ServerMovesAreNext
<1> QED
  BY <1>1, <1>2, TabKeepsInv, PTL DEF TabSpec, Spec

\* Of the tab with the server, too: an active administrator remains ...
THEOREM TabLeavesAnAdministrator == TabSpec => []AdministratorStays
BY TabImplementsAdministration, AnAdministratorStays

\* ... and no beneficiary is there twice, with the same exceptions.
THEOREM TabSavesOnce == TabSpec => []NoTwins
BY TabImplementsAdministration, BeneficiariesOnce

-----------------------------------------------------------------------------
\* What a tab shows.

LoadsOf == [by : Makers, upto : SUBSET Requests, answer : {"idle", "none", "ok"}]

TabTyped ==
    /\ TabTypeOK
    /\ loads \in [Loads -> LoadsOf]
    /\ handler \in [Requests -> Sessions \cup {NoPage}]

\* What another tab has stored, this one hears of.
Heard == session # stored => unheard

\* What the page is told of was done, and it was this tab that had asked.
OkWritten == \A r \in Requests : reply[r] = "ok" => r \in written

ToldDone ==
    /\ told \subseteq written \cap Ours
    /\ \A r \in Requests : handler[r] # None => r \in Ours

\* Whether a mounted page waits for r.
Awaited(r) == handler[r] \notin {None, NoPage}

UnderWay(l) == loads[l].answer # "idle"

\* The current load under way was asked for by whoever is signed in, or another tab has
\* changed that; and what it has read is no older than what the page was told of.
CurrentLoad ==
    \A l \in Loads : latest = l /\ UnderWay(l) =>
        /\ ~unheard => stored # None /\ loads[l].by = stored.by
        /\ loads[l].answer = "ok" => told \subseteq loads[l].upto

\* Between loads the last one has landed, or failed; a request clears the error, and its
\* answer brings a load or an error again.
AtRest == session # None /\ ~due /\ ~loading

Rest ==
    AtRest =>
        /\ ~unheard =>
              \/ shown.of = session.by
              \/ shown = Nothing /\ (error \/ \E r \in Requests : Awaited(r))
        /\ told \subseteq shown.upto \/ error \/ \E r \in Requests : Awaited(r)

ShownInv == TabTyped /\ Heard /\ OkWritten /\ ToldDone /\ CurrentLoad /\ Rest

-----------------------------------------------------------------------------
\* The server: what was answered with ok has been written, for good.

LEMMA ServerWrites ==
    ASSUME ServerTypeOK, OkWritten, ServerMoves
    PROVE  OkWritten' /\ written \subseteq written'
<1>1. CASE UNCHANGED vars
  BY <1>1 DEF vars, OkWritten
<1>2. ASSUME NEW r \in Requests, Asking(r) PROVE OkWritten' /\ written \subseteq written'
  <2>1. PICK c \in Asks : \E heard \in BOOLEAN : Send(r, c, heard)
    BY <1>2 DEF Asking, AskAgain, Ask
  <2>2. UNCHANGED written /\ \A q \in Requests : reply'[q] = "ok" => reply[q] = "ok"
    BY <2>1 DEF Send, ServerTypeOK
  <2> QED
    BY <2>2 DEF OkWritten
<1>3. ASSUME NEW r \in Requests, HangUp(r) PROVE OkWritten' /\ written \subseteq written'
  <2>1. UNCHANGED written /\ \A q \in Requests : reply'[q] = "ok" => reply[q] = "ok"
    BY <1>3 DEF HangUp, ServerTypeOK
  <2> QED
    BY <2>1 DEF OkWritten
<1>4. ASSUME NEW r \in Requests, Serve(r) PROVE OkWritten' /\ written \subseteq written'
  <2>1. \A how : Answer(r, how) =>
            \A q \in Requests : reply'[q] = "ok" => reply[q] = "ok" \/ (q = r /\ how = "ok")
    BY DEF Answer, ServerTypeOK
  <2>2. CASE Written(r)
    BY <2>1, <2>2 DEF Written, OkWritten
  <2>3. CASE ~Written(r)
    <3>1. /\ UNCHANGED written
          /\ UNCHANGED reply \/ Answer(r, "unauthorized") \/ Answer(r, "refused")
      BY <1>4, <2>3 DEF Serve, Authorize, Read, SetRole, SetStatus, Add, Remove, Goto
    <3> QED
      BY <2>1, <3>1 DEF OkWritten
  <2> QED
    BY <2>2, <2>3
<1> QED
  BY <1>1, <1>2, <1>3, <1>4 DEF ServerMoves

\* A step of the tab, as far as the server is in it.
Beside == ServerTypeOK' /\ OkWritten' /\ written \subseteq written'

LEMMA NoLoadTyped == NoLoad \in LoadsOf
BY DEF NoLoad, LoadsOf, Makers

LEMMA SessionTyped ==
    ASSUME ServerTypeOK, NEW u \in Visitors
    PROVE  Session(u) \in Sessions
BY OursAssumption DEF Session, Sessions, ServerTypeOK

\* Another session: whatever was under way belongs to an earlier version, and the effect
\* is to run.
LEMMA ShowKeeps ==
    ASSUME ShownInv, Beside, NEW s \in Sessions, NEW waiting, ShowTo(s, waiting), stored' = s,
           waiting = handler \/ \E r \in Requests : waiting = [handler EXCEPT ![r] = None],
           loads' \in [Loads -> LoadsOf]
    PROVE  ShownInv'
<1>1. /\ handler \in [Requests -> Sessions \cup {NoPage}]
      /\ latest' = None /\ session' = s /\ due' = (s # None)
  BY DEF ShownInv, TabTyped, ShowTo, Due
<1>2. /\ waiting \in [Requests -> Sessions \cup {NoPage}]
      /\ \A r \in Requests : waiting[r] # None => handler[r] # None
  BY <1>1 DEF Sessions
<1>3. /\ handler' \in [Requests -> Sessions \cup {NoPage}]
      /\ \A r \in Requests : handler'[r] # None => handler[r] # None
      /\ s = None => \A r \in Requests : handler'[r] \in {None, NoPage}
  BY <1>2 DEF ShowTo, Sessions
<1>4. s = None => ~loading' /\ ~error' /\ shown' = Nothing
  BY DEF ShowTo, Unmount
<1>5. TabTyped'
  BY <1>1, <1>3, <1>4 DEF TabTyped, TabTypeOK, Beside
<1>6. ToldDone'
  BY <1>3 DEF ToldDone, ShownInv, ShowTo, Beside
<1>7. Heard' /\ CurrentLoad' /\ Rest'
  BY <1>1, LoadsAssumption DEF Heard, CurrentLoad, Rest, AtRest
<1> QED
  BY <1>5, <1>6, <1>7 DEF ShownInv, Beside

LEMMA SessionsKeep ==
    ASSUME ShownInv, Beside,
           \/ \E u \in Visitors : Login(u)
           \/ Logout \/ StorageEvent
           \/ \E l \in Loads : LoadRefused(l)
           \/ \E r \in Requests : RequestRenewed(r) \/ RequestExpired(r)
    PROVE  ShownInv'
<1>1. ServerTypeOK /\ stored \in Sessions /\ None \in Sessions /\ loads \in [Loads -> LoadsOf]
  BY DEF ShownInv, TabTyped, TabTypeOK, Sessions
<1>2. CASE \E u \in Visitors : Login(u)
  <2>1. PICK u \in Visitors : Login(u)
    BY <1>2
  <2>2. ShowTo(Session(u), handler) /\ stored' = Session(u) /\ loads' = loads
    BY <2>1 DEF Login, Show, StoreLogin
  <2> QED
    BY <1>1, <2>2, SessionTyped, ShowKeeps
<1>3. CASE Logout
  <2>1. ShowTo(None, handler) /\ stored' = None /\ loads' = loads
    BY <1>3 DEF Logout, Show, Unstore
  <2> QED
    BY <1>1, <2>1, ShowKeeps
<1>4. CASE StorageEvent
  <2>1. ShowTo(stored, handler) /\ stored' = stored /\ loads' = loads
    BY <1>4 DEF StorageEvent, Show
  <2> QED
    BY <1>1, <2>1, ShowKeeps
<1>5. ASSUME NEW l \in Loads, LoadRefused(l) PROVE ShownInv'
  <2>1. loads' \in [Loads -> LoadsOf]
    BY <1>1, <1>5, NoLoadTyped DEF LoadRefused
  <2>2. \/ ShowTo(stored, handler) /\ stored' = stored
        \/ ShowTo(None, handler) /\ stored' = None
    BY <1>5 DEF LoadRefused, Renew, Expire, Unstore
  <2> QED
    BY <1>1, <2>1, <2>2, ShowKeeps
<1>6. ASSUME NEW r \in Requests, RequestRenewed(r) PROVE ShownInv'
  <2>1. ShowTo(stored, handler) /\ stored' = stored /\ loads' = loads
    BY <1>6 DEF RequestRenewed, Renew
  <2> QED
    BY <1>1, <2>1, ShowKeeps
<1>7. ASSUME NEW r \in Requests, RequestExpired(r) PROVE ShownInv'
  <2>1. ShowTo(None, [handler EXCEPT ![r] = None]) /\ stored' = None /\ loads' = loads
    BY <1>7 DEF RequestExpired, Expire, Unstore
  <2> QED
    BY <1>1, <2>1, ShowKeeps
<1> QED
  BY <1>2, <1>3, <1>4, <1>5, <1>6, <1>7

LEMMA ElsewhereKeeps ==
    ASSUME ShownInv, Beside, (\E u \in Visitors : LoginElsewhere(u)) \/ LogoutElsewhere
    PROVE  ShownInv'
<1>1. /\ unheard' = TRUE
      /\ UNCHANGED <<session, due, latest, loading, error, shown, loads, handler, told>>
  BY DEF LoginElsewhere, LogoutElsewhere, data
<1>2. stored' \in Sessions
  BY SessionTyped DEF LoginElsewhere, LogoutElsewhere, StoreLogin, Unstore, Sessions,
                      ShownInv, TabTyped, TabTypeOK
<1>3. TabTyped'
  BY <1>1, <1>2 DEF ShownInv, TabTyped, TabTypeOK, Beside
<1>4. Heard' /\ CurrentLoad' /\ Rest'
  BY <1>1 DEF ShownInv, Heard, CurrentLoad, UnderWay, Rest, AtRest, Awaited
<1>5. ToldDone'
  BY <1>1 DEF ShownInv, ToldDone, Beside
<1> QED
  BY <1>3, <1>4, <1>5 DEF ShownInv, Beside

-----------------------------------------------------------------------------
\* Loads.

LEMMA LoadKeeps ==
    ASSUME ShownInv, Beside, session # None, NEW l \in Loads, StartLoad(l),
           UNCHANGED <<stored, session, unheard>>, due' => due,
           handler' \in [Requests -> Sessions \cup {NoPage}],
           \A r \in Requests : handler'[r] # None => handler[r] # None,
           told' \subseteq written' \cap Ours
    PROVE  ShownInv'
<1>1. /\ stored \in Sessions /\ session \in Sessions /\ loads \in [Loads -> LoadsOf]
      /\ latest' = l /\ loading' = TRUE
  BY DEF ShownInv, TabTyped, TabTypeOK, StartLoad
<1>2. Bearer \in Makers
  BY <1>1 DEF Bearer, Makers, Sessions
<1>3. loads' \in [Loads -> LoadsOf] /\ loads'[l] = [by |-> Bearer, upto |-> {}, answer |-> "none"]
  BY <1>1, <1>2 DEF StartLoad, LoadsOf
<1>4. TabTyped'
  BY <1>1, <1>3 DEF TabTyped, TabTypeOK, Beside
<1>5. CurrentLoad'
  <2>1. ~unheard' => stored' # None /\ Bearer = stored'.by
    BY DEF ShownInv, Heard, Bearer
  <2> QED
    BY <1>1, <1>3, <2>1 DEF CurrentLoad
<1>6. Heard' /\ Rest' /\ ToldDone'
  BY <1>1 DEF ShownInv, Heard, Rest, AtRest, ToldDone
<1> QED
  BY <1>4, <1>5, <1>6 DEF ShownInv, Beside

LEMMA LoadsKeep ==
    ASSUME ShownInv, Beside, NEW l \in Loads, RunEffect(l) \/ Reload(l)
    PROVE  ShownInv'
<1>1. /\ session # None /\ StartLoad(l) /\ (due' => due)
      /\ UNCHANGED <<stored, session, unheard, handler, told>>
  BY DEF RunEffect, Reload, ShownInv, TabTyped, TabTypeOK
<1>2. told' \subseteq written' \cap Ours
  BY <1>1 DEF ShownInv, ToldDone, Beside
<1> QED
  BY <1>1, <1>2, LoadKeeps DEF ShownInv, TabTyped

LEMMA ServeLoadKeeps ==
    ASSUME ShownInv, Beside, NEW l \in Loads, ServeLoad(l)
    PROVE  ShownInv'
<1>1. /\ loads \in [Loads -> LoadsOf] /\ loads[l].answer = "none"
      /\ loads' = [loads EXCEPT ![l].answer = "ok", ![l].upto = written \cap Ours]
      /\ UNCHANGED <<stored, session, unheard, due, latest, loading, error, shown, handler, told>>
  BY DEF ServeLoad, ShownInv, TabTyped, data
<1>2. /\ loads'[l] = [by |-> loads[l].by, upto |-> written \cap Ours, answer |-> "ok"]
      /\ \A m \in Loads : m # l => loads'[m] = loads[m]
  BY <1>1 DEF LoadsOf
<1>3. loads' \in [Loads -> LoadsOf]
  <2>1. loads'[l] \in LoadsOf
    BY <1>1, <1>2, OursAssumption DEF LoadsOf
  <2> QED
    BY <1>1, <1>2, <2>1
<1>4. TabTyped'
  BY <1>1, <1>3 DEF ShownInv, TabTyped, TabTypeOK, Beside
<1>5. CurrentLoad'
  <2> SUFFICES ASSUME NEW m \in Loads, latest = m, UnderWay(m)'
               PROVE  /\ ~unheard => stored # None /\ loads'[m].by = stored.by
                      /\ loads'[m].answer = "ok" => told \subseteq loads'[m].upto
    BY <1>1 DEF CurrentLoad
  <2>1. CASE m = l
    BY <1>1, <1>2, <2>1 DEF ShownInv, CurrentLoad, UnderWay, ToldDone
  <2>2. CASE m # l
    BY <1>1, <1>2, <2>2 DEF ShownInv, CurrentLoad, UnderWay
  <2> QED
    BY <2>1, <2>2
<1>6. Heard' /\ Rest'
  BY <1>1 DEF ShownInv, Heard, Rest, AtRest, Awaited
<1>7. ToldDone'
  BY <1>1 DEF ShownInv, ToldDone, Beside
<1> QED
  BY <1>4, <1>5, <1>6, <1>7 DEF ShownInv, Beside

\* What lands is shown if its load is the current one still.
LEMMA LandingsKeep ==
    ASSUME ShownInv, Beside, NEW l \in Loads, Landed(l) \/ LoadFailed(l)
    PROVE  ShownInv'
<1>1. /\ loads \in [Loads -> LoadsOf] /\ UnderWay(l)
      /\ loads' = [loads EXCEPT ![l] = NoLoad]
      /\ UNCHANGED <<stored, session, unheard, due, latest, handler, told>>
  BY DEF Landed, LoadFailed, ShownInv, TabTyped, UnderWay
<1>2. /\ loads' \in [Loads -> LoadsOf] /\ ~UnderWay(l)'
      /\ \A m \in Loads : m # l => loads'[m] = loads[m]
  BY <1>1, NoLoadTyped DEF UnderWay, NoLoad
<1>3. ToldDone' /\ Heard'
  BY <1>1 DEF ShownInv, ToldDone, Heard, Beside
<1>4. CASE ~Current(l)
  <2>1. UNCHANGED <<shown, loading, error>>
    BY <1>4 DEF Landed, LoadFailed
  <2>2. TabTyped'
    BY <1>1, <1>2, <2>1 DEF ShownInv, TabTyped, TabTypeOK, Beside
  <2>3. CurrentLoad' /\ Rest'
    BY <1>1, <1>2, <2>1 DEF ShownInv, CurrentLoad, UnderWay, Rest, AtRest, Awaited
  <2> QED
    BY <1>3, <2>2, <2>3 DEF ShownInv, Beside
<1>5. CASE Current(l)
  <2>1. /\ latest = l /\ session # None
        /\ ~unheard => stored # None /\ loads[l].by = stored.by
        /\ loads[l].answer = "ok" => told \subseteq loads[l].upto
    BY <1>1, <1>5, LoadsAssumption DEF Current, ShownInv, TabTyped, TabTypeOK, CurrentLoad
  <2>2. \/ error' = error /\ shown' = [of |-> loads[l].by, upto |-> loads[l].upto] /\ loads[l].answer = "ok"
        \/ error' = TRUE /\ shown' = Nothing
    BY <1>5 DEF Landed, LoadFailed, GaveUp
  <2>3. TabTyped'
    BY <1>1, <1>2, <2>1 DEF ShownInv, TabTyped, TabTypeOK, Beside
  <2>4. CurrentLoad'
    BY <1>1, <1>2, <2>1 DEF CurrentLoad
  <2>5. Rest'
    BY <1>1, <2>1, <2>2 DEF ShownInv, Heard, Rest, AtRest
  <2> QED
    BY <1>3, <2>3, <2>4, <2>5 DEF ShownInv, Beside
<1> QED
  BY <1>4, <1>5

-----------------------------------------------------------------------------
\* Requests.

LEMMA SubmitKeeps ==
    ASSUME ShownInv, Beside, NEW r \in Requests, Submit(r)
    PROVE  ShownInv'
<1>1. /\ session \in Sessions /\ session # None /\ handler \in [Requests -> Sessions \cup {NoPage}]
      /\ r \in Ours /\ ~error' /\ handler' = [handler EXCEPT ![r] = session]
      /\ UNCHANGED <<stored, session, unheard, due, latest, loading, shown, loads, told>>
  BY DEF Submit, ShownInv, TabTyped, TabTypeOK
<1>2. session # NoPage
  BY <1>1 DEF Sessions, NoPage, Roles
<1>3. handler' \in [Requests -> Sessions \cup {NoPage}] /\ Awaited(r)'
  BY <1>1, <1>2 DEF Awaited
<1>4. TabTyped'
  BY <1>1, <1>3 DEF ShownInv, TabTyped, TabTypeOK, Beside
<1>5. Heard' /\ CurrentLoad' /\ Rest'
  BY <1>1, <1>3 DEF ShownInv, Heard, CurrentLoad, UnderWay, Rest, AtRest
<1>6. ToldDone'
  BY <1>1 DEF ShownInv, ToldDone, Beside
<1> QED
  BY <1>4, <1>5, <1>6 DEF ShownInv, Beside

\* A page that is told of an end waits no longer, but the error or a load is there.
LEMMA ForgetFacts ==
    ASSUME ShownInv, NEW r \in Requests, Forget(r)
    PROVE  /\ handler' \in [Requests -> Sessions \cup {NoPage}] /\ handler'[r] = None
           /\ \A q \in Requests : q # r => handler'[q] = handler[q]
BY DEF ShownInv, TabTyped, Forget, Sessions

LEMMA FailedKeeps ==
    ASSUME ShownInv, Beside, NEW r \in Requests, Failed(r)
    PROVE  ShownInv'
<1>1. /\ handler[r] # None /\ error' = (error \/ handler[r] # NoPage)
      /\ UNCHANGED <<stored, session, unheard, due, latest, loading, shown, loads, told>>
  BY DEF Failed, Answered
<1>2. /\ handler' \in [Requests -> Sessions \cup {NoPage}] /\ handler'[r] = None
      /\ \A q \in Requests : q # r => handler'[q] = handler[q]
  BY ForgetFacts DEF Failed
<1>3. error' => session # None
  BY <1>1 DEF ShownInv, TabTyped, TabTypeOK
<1>4. TabTyped'
  BY <1>1, <1>2, <1>3 DEF ShownInv, TabTyped, TabTypeOK, Beside
<1>5. \A q \in Requests : Awaited(q) => error' \/ Awaited(q)'
  BY <1>1, <1>2 DEF Awaited
<1>6. Heard' /\ CurrentLoad' /\ Rest'
  BY <1>1, <1>5 DEF ShownInv, Heard, CurrentLoad, UnderWay, Rest, AtRest
<1>7. ToldDone'
  BY <1>1, <1>2 DEF ShownInv, ToldDone, Beside
<1> QED
  BY <1>4, <1>6, <1>7 DEF ShownInv, Beside

LEMMA DoneKeeps ==
    ASSUME ShownInv, Beside, NEW r \in Requests, Done(r)
    PROVE  ShownInv'
<1>1. /\ handler[r] # None /\ reply[r] = "ok"
      /\ UNCHANGED <<stored, session, unheard, due>>
  BY DEF Done, Answered
<1>2. /\ handler' \in [Requests -> Sessions \cup {NoPage}] /\ handler'[r] = None
      /\ \A q \in Requests : q # r => handler'[q] = handler[q]
  BY ForgetFacts DEF Done
<1>3. CASE handler[r] = NoPage
  <2>1. UNCHANGED <<loads, latest, loading, error, shown, told>>
    BY <1>3 DEF Done
  <2>2. TabTyped'
    BY <1>1, <1>2, <2>1 DEF ShownInv, TabTyped, TabTypeOK, Beside
  <2>3. \A q \in Requests : Awaited(q) => Awaited(q)'
    BY <1>2, <1>3 DEF Awaited
  <2>4. Heard' /\ CurrentLoad' /\ Rest'
    BY <1>1, <2>1, <2>3 DEF ShownInv, Heard, CurrentLoad, UnderWay, Rest, AtRest
  <2>5. ToldDone'
    BY <1>2, <2>1 DEF ShownInv, ToldDone, Beside
  <2> QED
    BY <2>2, <2>4, <2>5 DEF ShownInv, Beside
<1>4. CASE handler[r] # NoPage
  <2>1. PICK l \in Loads : StartLoad(l)
    BY <1>4 DEF Done, Reloads
  <2>2. session # None
    BY <1>1, <1>4 DEF ShownInv, TabTyped, TabTypeOK
  <2>3. told' \subseteq told \cup {r}
    BY <1>4 DEF Done
  <2>4. r \in written \cap Ours /\ told \subseteq written \cap Ours
    BY <1>1 DEF ShownInv, OkWritten, ToldDone
  <2>5. told' \subseteq written' \cap Ours
    BY <2>3, <2>4 DEF Beside
  <2> QED
    BY <1>1, <1>2, <2>1, <2>2, <2>5, LoadKeeps
<1> QED
  BY <1>3, <1>4

-----------------------------------------------------------------------------

LEMMA TabInitShown == TabInit => ShownInv
<1> SUFFICES ASSUME TabInit PROVE ShownInv
  OBVIOUS
<1>1. ServerTypeOK
  BY InitInv DEF TabInit, Inv
<1>2. TabTyped
  BY <1>1, NoLoadTyped DEF TabInit, TabTyped, TabTypeOK, Sessions
<1>3. OkWritten /\ ToldDone /\ Heard /\ CurrentLoad /\ Rest
  BY LoadsAssumption DEF TabInit, Init, OkWritten, ToldDone, Heard, CurrentLoad, Rest, AtRest
<1> QED
  BY <1>2, <1>3 DEF ShownInv

LEMMA TabNextShown ==
    ASSUME Inv, TabInv, ShownInv, [TabNext]_allVars
    PROVE  ShownInv'
<1>1. Beside
  <2>1. ServerMoves /\ ServerTypeOK'
    BY TabStepIsServerStep, TabInvariant DEF TabInv
  <2> QED
    BY <2>1, ServerWrites DEF Beside, ShownInv, TabInv
<1>2. CASE \/ UNCHANGED allVars
           \/ \E r \in Requests : AskElsewhere(r) \/ ServerStep(r)
  <2>1. UNCHANGED <<stored, session, unheard, due, latest, loading, error, shown, loads, handler, told>>
    BY <1>2 DEF allVars, tab, data, AskElsewhere, ServerStep
  <2>2. TabTyped'
    BY <1>1, <2>1 DEF ShownInv, TabTyped, TabTypeOK, Beside
  <2>3. Heard' /\ CurrentLoad' /\ Rest'
    BY <2>1 DEF ShownInv, Heard, CurrentLoad, UnderWay, Rest, AtRest, Awaited
  <2>4. ToldDone'
    BY <1>1, <2>1 DEF ShownInv, ToldDone, Beside
  <2> QED
    BY <1>1, <2>2, <2>3, <2>4 DEF ShownInv, Beside
<1> QED
  BY <1>1, <1>2, SessionsKeep, ElsewhereKeeps, LoadsKeep, ServeLoadKeeps, LandingsKeep,
     SubmitKeeps, FailedKeeps, DoneKeeps DEF TabNext

LEMMA ShownHolds == TabSpec => []ShownInv
<1>1. TabInit => Inv /\ TabInv /\ ShownInv
  BY InitInv, TabInitInv, TabInitShown DEF TabInit
<1>2. Inv /\ TabInv /\ ShownInv /\ [TabNext]_allVars => (Inv /\ TabInv /\ ShownInv)'
  BY TabInvariant, TabNextShown
<1> QED
  BY <1>1, <1>2, PTL DEF TabSpec

\* Only a mounted provider has a version, loads, shows or waits, whatever sessions come
\* and go in this tab and in others.
THEOREM TabTypeCorrect == TabSpec => []TabTypeOK
BY ShownHolds, PTL DEF ShownInv, TabTyped

\* Once everything has landed the page shows the data of whoever is signed in, or an
\* error and none: what another user's load, an earlier load or another tab's session
\* left has gone.
THEOREM TabShowsItsOwn == TabSpec => []ShownIsOwn
<1>1. ShownInv => ShownIsOwn
  BY DEF ShownInv, Rest, AtRest, Awaited, ShownIsOwn, Quiet
<1> QED
  BY <1>1, ShownHolds, PTL

\* ... and what the page was told is done is in what it shows.
THEOREM TabShowsItsChanges == TabSpec => []OwnChangesShown
<1>1. ShownInv => OwnChangesShown
  BY DEF ShownInv, Rest, AtRest, Awaited, OwnChangesShown, Quiet
<1> QED
  BY <1>1, ShownHolds, PTL
=============================================================================
