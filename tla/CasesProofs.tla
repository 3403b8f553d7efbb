---------------------------- MODULE CasesProofs ----------------------------
(***************************************************************************)
(* What holds of Cases for any number of analysts' requests, and so of the *)
(* pages and whoever else works on the server.                             *)
(*                                                                         *)
(* OneCase rests on the row that is looked for in the very step that       *)
(* inserts another: the check before it may be long out of date.           *)
(*                                                                         *)
(* That the trail and the case follow the alert, and a page's table the    *)
(* server, holds while changes do not overlap; Walk and PageInv say what   *)
(* is so between two awaits of the change that is under way.               *)
(***************************************************************************)
EXTENDS AnalystPages, FiniteSetTheorems, TLAPS

\* Answers end requests.
SilentUntilDone == \A r \in Requests : reply[r] # "none" => pc[r] = "done"

\* Operations keep to their own stages.
OwnStage(r) ==
    /\ pc[r] \in {"readAlert", "writeAlert", "logAlert"}
          => call[r].op \in {"updateAlert", "createCase", "updateCase"}
    /\ pc[r] \in {"loadAlert", "findCase", "insertCase", "logCreated"} => call[r].op = "createCase"
    /\ pc[r] \in {"loadCase", "writeCase", "logCase"} => call[r].op = "updateCase"
    /\ pc[r] = "logNote" => call[r].op = "addNote"
    /\ pc[r] \in {"forward", "forwarded"} => call[r].op = "markRead"

OwnStages == \A r \in Requests : OwnStage(r)

\* A request that has inserted the case, whether or not it could tell.
HasOpened(r) == call[r].op = "createCase" /\ (pc[r] = "logCreated" \/ reply[r] = "ok")

OneHasOpened ==
    /\ \A r \in Requests : HasOpened(r) => case # None
    /\ \A q, r \in Requests : HasOpened(q) /\ HasOpened(r) => q = r

Inv == TypeOK /\ SilentUntilDone /\ OwnStages /\ OneHasOpened

-----------------------------------------------------------------------------

Stages == {"idle", "readAlert", "writeAlert", "logAlert", "logNote",
           "loadAlert", "findCase", "insertCase", "logCreated", "loadCase",
           "writeCase", "logCase", "forward", "forwarded", "done"}

Replies == {"none", "ok", "refused", "failed", "lost"}

\* A case is not None.
LEMMA CaseIsRow ==
    ASSUME NEW s \in Statuses
    PROVE  Case(s) \in Rows /\ Case(s) # None
BY NoneAssumption DEF Rows

LEMMA InitInv == Init => Inv
<1> SUFFICES ASSUME Init PROVE Inv
  OBVIOUS
<1>1. /\ alert \in Statuses /\ case \in Rows \cup {None} /\ unread \in BOOLEAN
      /\ overlapped \in BOOLEAN /\ \A e \in trail : e.by \in Requests
  BY DEF Init, Statuses
<1>2. /\ pc \in [Requests -> Stages] /\ reply \in [Requests -> Replies]
  BY DEF Init, Stages, Replies
<1>3. call \in [Requests -> Calls \cup {[op |-> "none", to |-> None]}]
  BY DEF Init
<1>4. seen \in [Requests -> SeenRows]
  BY DEF Init, SeenRows
<1>5. TypeOK
  BY <1>1, <1>2, <1>3, <1>4 DEF TypeOK, Stages, Replies
<1>6. SilentUntilDone /\ OwnStages /\ OneHasOpened
  BY DEF Init, SilentUntilDone, OwnStages, OwnStage, OneHasOpened, HasOpened
<1> QED
  BY <1>5, <1>6 DEF Inv

-----------------------------------------------------------------------------
\* A step of the server for r: r's stage and answer, no other's.

Moves(r) ==
    /\ pc[r] \notin {"idle", "done"}
    /\ pc' = [pc EXCEPT ![r] = pc'[r]] /\ pc'[r] \in Stages \ {"idle"}
    /\ reply' = [reply EXCEPT ![r] = reply'[r]] /\ reply'[r] \in Replies
    /\ pc'[r] # "done" => reply'[r] = reply[r]
    /\ UNCHANGED <<call, overlapped>>

LEMMA GotoMoves ==
    ASSUME TypeOK, NEW r \in Requests, NEW stage \in Stages \ {"idle", "done"},
           pc[r] \notin {"idle", "done"}, Goto(r, stage), UNCHANGED <<call, overlapped>>
    PROVE  Moves(r) /\ pc'[r] = stage /\ reply' = reply
BY DEF TypeOK, Goto, Moves, Stages, Replies

LEMMA AnswerMoves ==
    ASSUME TypeOK, NEW r \in Requests, NEW how \in Replies,
           pc[r] \notin {"idle", "done"}, Answer(r, how), UNCHANGED <<call, overlapped>>
    PROVE  Moves(r) /\ pc'[r] = "done" /\ reply'[r] = how
BY DEF TypeOK, Answer, Moves, Stages, Replies

LEMMA MovesKeeps ==
    ASSUME Inv, NEW r \in Requests, Moves(r), OwnStage(r)',
           alert' \in Statuses, case' \in Rows \cup {None}, unread' \in BOOLEAN,
           seen' \in [Requests -> SeenRows],
           \A e \in trail' : e.by \in Requests,
           OneHasOpened'
    PROVE  Inv'
<1>1. TypeOK'
  <2>1. pc' \in [Requests -> Stages] /\ reply' \in [Requests -> Replies]
    BY DEF Moves, Inv, TypeOK, Stages, Replies
  <2> QED
    BY <2>1 DEF Moves, Inv, TypeOK, Stages, Replies
<1>2. SilentUntilDone'
  BY DEF Moves, Inv, TypeOK, SilentUntilDone
<1>3. OwnStages'
  BY DEF Moves, Inv, TypeOK, OwnStages, OwnStage
<1> QED
  BY <1>1, <1>2, <1>3 DEF Inv

\* Whatever neither opens a case nor reports that one was opened.
LEMMA OthersOpenNone ==
    ASSUME Inv, NEW r \in Requests, Moves(r),
           case # None => case' # None,
           HasOpened(r)' => HasOpened(r)
    PROVE  OneHasOpened'
<1>1. \A q \in Requests : HasOpened(q)' => HasOpened(q)
  BY DEF Moves, Inv, TypeOK, HasOpened
<1> QED
  BY <1>1 DEF Inv, OneHasOpened

LEMMA LoggedTypes ==
    ASSUME TypeOK, NEW r \in Requests, NEW what, NEW from, NEW to, Logged(r, what, from, to)
    PROVE  \A e \in trail' : e.by \in Requests
BY DEF TypeOK, Logged

LEMMA CallTypes ==
    ASSUME TypeOK, NEW r \in Requests
    PROVE  call[r].op \in {"updateAlert", "updateCase"} => call[r].to \in Statuses
<1>1. CASE call[r] \in Calls
  BY <1>1, CallsAssumption DEF Operations
<1>2. CASE call[r] = [op |-> "none", to |-> None]
  BY <1>2
<1> QED
  BY <1>1, <1>2 DEF TypeOK

-----------------------------------------------------------------------------
\* Each step.

LEMMA AskKeeps ==
    ASSUME Inv, NEW r \in Requests, NEW c \in Calls, Ask(r, c)
    PROVE  Inv'
<1>1. c.op \in {"updateAlert", "updateCase", "addNote", "createCase", "markRead"}
  BY CallsAssumption DEF Operations
<1>2. First(c.op) \in {"readAlert", "logNote", "loadAlert", "loadCase", "forward"}
  BY <1>1 DEF First
<1>3. /\ reply[r] = "none"
      /\ UNCHANGED <<alert, case, unread, trail, seen, reply>>
  BY DEF Ask, Inv, SilentUntilDone, TypeOK, rows
<1>4. TypeOK'
  <2>1. pc' \in [Requests -> Stages]
    BY <1>2 DEF Inv, TypeOK, Ask, Stages
  <2>2. call' \in [Requests -> Calls \cup {[op |-> "none", to |-> None]}]
    BY DEF Inv, TypeOK, Ask
  <2>3. overlapped' \in BOOLEAN
    BY DEF Inv, TypeOK, Ask
  <2> QED
    BY <1>3, <2>1, <2>2, <2>3 DEF Inv, TypeOK, Stages
<1>5. SilentUntilDone'
  BY <1>3 DEF Inv, SilentUntilDone, TypeOK, Ask
<1>6. OwnStages'
  BY <1>1 DEF Inv, OwnStages, OwnStage, TypeOK, Ask, First
<1>7. OneHasOpened'
  <2>1. \A q \in Requests : HasOpened(q)' => q # r /\ HasOpened(q)
    BY <1>2, <1>3 DEF Inv, HasOpened, TypeOK, Ask
  <2> QED
    BY <1>3, <2>1 DEF Inv, OneHasOpened
<1> QED
  BY <1>4, <1>5, <1>6, <1>7 DEF Inv

\* The steps that read.
LEMMA ReadsKeep ==
    ASSUME Inv, NEW r \in Requests, ReadAlert(r) \/ LoadAlert(r) \/ FindCase(r) \/ LoadCase(r)
    PROVE  Inv'
<1>1. /\ UNCHANGED <<alert, case, unread, trail>>
      /\ pc[r] \in {"readAlert", "loadAlert", "findCase", "loadCase"}
      /\ UNCHANGED <<call, overlapped>>
  BY DEF ReadAlert, LoadAlert, FindCase, LoadCase, At, rows
<1>2. \/ Answer(r, "refused")
      \/ pc[r] = "readAlert" /\ Goto(r, "writeAlert")
      \/ pc[r] = "loadAlert" /\ Goto(r, "findCase")
      \/ pc[r] = "findCase" /\ (Goto(r, "readAlert") \/ Goto(r, "insertCase"))
      \/ pc[r] = "loadCase" /\ Goto(r, "readAlert")
  BY DEF ReadAlert, LoadAlert, FindCase, LoadCase, At
<1>3. seen' \in [Requests -> SeenRows]
  <2>1. CASE seen' = seen
    BY <2>1 DEF Inv, TypeOK
  <2>2. CASE seen' = [seen EXCEPT ![r].alert = alert] \/ seen' = [seen EXCEPT ![r].old = alert]
    BY <2>2 DEF Inv, TypeOK, SeenRows
  <2>3. CASE seen' = [seen EXCEPT ![r].case = case.status] /\ case # None
    <3>1. case.status \in Statuses
      BY <2>3 DEF Inv, TypeOK, Rows, Case
    <3> QED
      BY <2>3, <3>1 DEF Inv, TypeOK, SeenRows
  <2> QED
    BY <2>1, <2>2, <2>3 DEF ReadAlert, LoadAlert, FindCase, LoadCase
<1>4. Moves(r) /\ OwnStage(r)' /\ pc'[r] # "logCreated" /\ reply'[r] # "ok"
  <2>1. CASE Answer(r, "refused")
    BY <1>1, <2>1, AnswerMoves DEF Inv, OwnStage, Replies
  <2>2. CASE \E stage \in {"writeAlert", "findCase", "readAlert", "insertCase"} : Goto(r, stage)
    <3>1. Moves(r) /\ reply' = reply
      BY <1>1, <2>2, GotoMoves DEF Inv, Stages
    <3>2. reply[r] = "none"
      BY <1>1 DEF Inv, SilentUntilDone, TypeOK
    <3>3. pc'[r] \in {"writeAlert", "findCase", "readAlert", "insertCase"}
      BY <2>2 DEF Goto, Inv, TypeOK
    <3>4. /\ pc'[r] \in {"findCase", "insertCase"} => pc[r] \in {"loadAlert", "findCase"}
          /\ pc'[r] = "readAlert" => pc[r] \in {"findCase", "loadCase"}
          /\ pc'[r] = "writeAlert" => pc[r] = "readAlert"
      BY <1>2 DEF Goto, Answer, Inv, TypeOK
    <3>5. OwnStage(r) /\ call' = call
      BY <1>1 DEF Inv, OwnStages
    <3> QED
      BY <3>1, <3>2, <3>3, <3>4, <3>5 DEF OwnStage
  <2> QED
    BY <1>2, <2>1, <2>2
<1>5. OneHasOpened'
  BY <1>1, <1>4, OthersOpenNone DEF HasOpened
<1> QED
  BY <1>1, <1>3, <1>4, <1>5, MovesKeeps DEF Inv, TypeOK

\* The steps on alert, trail and notification: what they write is no case, and
\* what they answer is of other operations, LogCreated's apart.
LEMMA WritesKeep ==
    ASSUME Inv, NEW r \in Requests,
           WriteAlert(r) \/ LogAlert(r) \/ LogNote(r) \/ LogCreated(r) \/ LogCase(r)
           \/ Forward(r) \/ Forwarded(r) \/ Lose(r)
    PROVE  Inv'
<1>1. /\ UNCHANGED <<case, seen, call, overlapped>>
      /\ pc[r] \notin {"idle", "done"} /\ reply[r] = "none" /\ OwnStage(r)
  BY DEF WriteAlert, LogAlert, LogNote, LogCreated, LogCase, Forward, Forwarded, Lose, At, rows,
         Served, Inv, SilentUntilDone, TypeOK, OwnStages
<1>2. \A e \in trail' : e.by \in Requests
  <2>1. CASE UNCHANGED trail
    BY <2>1 DEF Inv, TypeOK
  <2>2. CASE \E what, from, to : Logged(r, what, from, to)
    BY <2>2, LoggedTypes DEF Inv
  <2>3. CASE LogAlert(r)
    BY <2>2, <2>3 DEF LogAlert, AlertEntry
  <2>4. CASE LogCase(r)
    BY <2>2, <2>4 DEF LogCase
  <2>5. CASE LogNote(r) \/ LogCreated(r)
    BY <2>2, <2>5 DEF LogNote, LogCreated
  <2> QED
    BY <2>1, <2>3, <2>4, <2>5 DEF WriteAlert, Forward, Forwarded, Lose
<1>3. alert' \in Statuses /\ unread' \in BOOLEAN
  <2>1. CASE WriteAlert(r)
    <3>1. To(r) \in Statuses
      BY <1>1, <2>1, CallTypes DEF WriteAlert, At, OwnStage, To, Inv, Statuses
    <3> QED
      BY <2>1, <3>1 DEF WriteAlert, Inv, TypeOK
  <2>2. CASE Forward(r)
    BY <2>2 DEF Forward, Inv, TypeOK
  <2> QED
    BY <2>1, <2>2 DEF LogAlert, LogNote, LogCreated, LogCase, Forwarded, Lose, rows, Inv, TypeOK
<1>4. Moves(r) /\ OwnStage(r)' /\ (HasOpened(r)' => HasOpened(r))
  <2>1. CASE WriteAlert(r)
    <3>1. pc[r] = "writeAlert" /\ Goto(r, "logAlert")
      BY <2>1 DEF WriteAlert, At
    <3>2. Moves(r) /\ pc'[r] = "logAlert" /\ reply' = reply
      BY <1>1, <3>1, GotoMoves DEF Inv, Stages
    <3> QED
      BY <1>1, <3>1, <3>2 DEF OwnStage, HasOpened
  <2>2. CASE Forward(r)
    <3>1. pc[r] = "forward" /\ Goto(r, "forwarded")
      BY <2>2 DEF Forward, At
    <3>2. Moves(r) /\ pc'[r] = "forwarded" /\ reply' = reply
      BY <1>1, <3>1, GotoMoves DEF Inv, Stages
    <3> QED
      BY <1>1, <3>1, <3>2 DEF OwnStage, HasOpened
  <2>3. CASE LogAlert(r) /\ NextStage(call[r].op) # "done"
    <3>1. /\ pc[r] = "logAlert" /\ Goto(r, NextStage(call[r].op))
          /\ \/ call[r].op = "createCase" /\ NextStage(call[r].op) = "insertCase"
             \/ call[r].op = "updateCase" /\ NextStage(call[r].op) = "writeCase"
      BY <2>3 DEF LogAlert, At, NextStage
    <3>2. /\ Moves(r) /\ reply' = reply
          /\ \/ call[r].op = "createCase" /\ pc'[r] = "insertCase"
             \/ call[r].op = "updateCase" /\ pc'[r] = "writeCase"
      BY <1>1, <3>1, GotoMoves DEF Inv, Stages
    <3> QED
      BY <1>1, <3>2 DEF OwnStage, HasOpened
  <2>4. CASE LogAlert(r) /\ NextStage(call[r].op) = "done"
    <3>1. call[r].op # "createCase" /\ Answer(r, "ok")
      BY <2>4 DEF LogAlert, NextStage
    <3>2. Moves(r) /\ pc'[r] = "done"
      BY <1>1, <3>1, AnswerMoves DEF Inv, Replies
    <3> QED
      BY <1>1, <3>1, <3>2 DEF OwnStage, HasOpened
  <2>5. CASE LogNote(r) \/ LogCase(r) \/ Forwarded(r)
    <3>1. call[r].op # "createCase" /\ Answer(r, "ok")
      BY <1>1, <2>5 DEF LogNote, LogCase, Forwarded, At, OwnStage
    <3>2. Moves(r) /\ pc'[r] = "done"
      BY <1>1, <3>1, AnswerMoves DEF Inv, Replies
    <3> QED
      BY <1>1, <3>1, <3>2 DEF OwnStage, HasOpened
  <2>6. CASE LogCreated(r)
    <3>1. pc[r] = "logCreated" /\ Answer(r, "ok")
      BY <2>6 DEF LogCreated, At
    <3>2. Moves(r) /\ pc'[r] = "done"
      BY <1>1, <3>1, AnswerMoves DEF Inv, Replies
    <3> QED
      BY <1>1, <3>1, <3>2 DEF OwnStage, HasOpened
  <2>7. CASE Lose(r)
    <3>1. Moves(r) /\ pc'[r] = "done" /\ reply'[r] = "lost"
      BY <1>1, <2>7, AnswerMoves DEF Lose, Inv, Replies
    <3> QED
      BY <1>1, <3>1 DEF OwnStage, HasOpened
  <2> QED
    BY <2>1, <2>2, <2>3, <2>4, <2>5, <2>6, <2>7
<1>5. OneHasOpened'
  BY <1>1, <1>4, OthersOpenNone
<1> QED
  BY <1>1, <1>2, <1>3, <1>4, <1>5, MovesKeeps DEF Inv, TypeOK

\* The steps on the case: it is opened only where there is none.
LEMMA InsertCaseKeeps ==
    ASSUME Inv, NEW r \in Requests, InsertCase(r)
    PROVE  Inv'
<1>1. /\ UNCHANGED <<alert, unread, trail, seen, call, overlapped>>
      /\ pc[r] = "insertCase" /\ reply[r] = "none" /\ OwnStage(r)
  BY DEF InsertCase, At, Inv, SilentUntilDone, TypeOK, OwnStages
<1>2. CASE case # None
  <2>1. Answer(r, "failed") /\ UNCHANGED case
    BY <1>2 DEF InsertCase, Collides
  <2>2. Moves(r) /\ pc'[r] = "done" /\ reply'[r] = "failed"
    BY <1>1, <2>1, AnswerMoves DEF Inv, Replies
  <2>3. OneHasOpened'
    BY <1>2, <2>1, <2>2, OthersOpenNone DEF HasOpened
  <2> QED
    BY <1>1, <2>1, <2>2, <2>3, MovesKeeps DEF Inv, TypeOK, OwnStage
<1>3. CASE case = None
  <2>1. case' = Case(Opening(r)) /\ Goto(r, "logCreated")
    BY <1>3 DEF InsertCase, Collides
  <2>2. Moves(r) /\ pc'[r] = "logCreated" /\ reply' = reply
    BY <1>1, <2>1, GotoMoves DEF Inv, Stages
  <2>3. Opening(r) \in Statuses
    BY DEF Opening, Final, Statuses
  <2>4. case' \in Rows /\ case' # None
    BY <2>1, <2>3, CaseIsRow
  <2>5. OneHasOpened'
    <3>1. \A q \in Requests : ~HasOpened(q)
      BY <1>3 DEF Inv, OneHasOpened
    <3>2. \A q \in Requests : HasOpened(q)' => q = r
      BY <2>2, <3>1 DEF Moves, HasOpened, Inv, TypeOK
    <3> QED
      BY <2>4, <3>2 DEF OneHasOpened
  <2> QED
    BY <1>1, <2>2, <2>4, <2>5, MovesKeeps DEF Inv, TypeOK, OwnStage
<1> QED
  BY <1>2, <1>3

LEMMA WriteCaseKeeps ==
    ASSUME Inv, NEW r \in Requests, WriteCase(r)
    PROVE  Inv'
<1>1. /\ UNCHANGED <<alert, unread, trail, seen, call, overlapped>>
      /\ pc[r] = "writeCase" /\ reply[r] = "none" /\ OwnStage(r)
      /\ case' = Case(call[r].to) /\ Goto(r, "logCase")
  BY DEF WriteCase, At, Inv, SilentUntilDone, TypeOK, OwnStages
<1>2. Moves(r) /\ pc'[r] = "logCase" /\ reply' = reply
  BY <1>1, GotoMoves DEF Inv, Stages
<1>3. call[r].op = "updateCase" /\ call[r].to \in Statuses
  BY <1>1, CallTypes DEF OwnStage, Inv
<1>4. case' \in Rows /\ case' # None
  BY <1>1, <1>3, CaseIsRow
<1>5. OneHasOpened'
  BY <1>1, <1>2, <1>4, OthersOpenNone DEF HasOpened
<1> QED
  BY <1>1, <1>2, <1>3, <1>4, <1>5, MovesKeeps DEF Inv, TypeOK, OwnStage

-----------------------------------------------------------------------------

LEMMA NextKeeps == Inv /\ [Next]_vars => Inv'
<1> SUFFICES ASSUME Inv, [Next]_vars PROVE Inv'
  OBVIOUS
<1>1. CASE UNCHANGED vars
  BY <1>1 DEF vars, rows, Inv, TypeOK, SilentUntilDone, OwnStages, OwnStage, OneHasOpened, HasOpened
<1>2. ASSUME NEW r \in Requests, NEW c \in Calls, Ask(r, c) PROVE Inv'
  BY <1>2, AskKeeps
<1>3. ASSUME NEW r \in Requests, Serve(r) PROVE Inv'
  BY <1>3, ReadsKeep, WritesKeep, InsertCaseKeeps, WriteCaseKeeps DEF Serve
<1> QED
  BY <1>1, <1>2, <1>3 DEF Next

\* The pages, and the other analysts, only ask and are served.
LEMMA PagesStepIsStep == [PagesNext]_allVars => [Next]_vars
<1> SUFFICES ASSUME [PagesNext]_allVars PROVE [Next]_vars
  OBVIOUS
<1>1. CASE UNCHANGED allVars
  BY <1>1 DEF allVars
<1>2. CASE \/ \E p \in Tables \cup {"home"} : Visit(p)
           \/ ReadTable \/ TableComes \/ TableFails
  BY <1>2 DEF Visit, ReadTable, TableComes, TableFails
<1>3. ASSUME NEW r \in Requests, NEW p, NEW op, NEW to, Click(r, p, op, to) PROVE Next
  <2>1. Ask(r, [op |-> op, to |-> to])
    BY <1>3 DEF Click
  <2> QED
    BY <2>1 DEF Ask, Next
<1>4. ASSUME NEW r \in Requests,
             AddAnalystNote(r) \/ CreateInvestigationCase(r) \/ UpdateAlertStatus(r)
             \/ UpdateCaseStatus(r) \/ MarkAsRead(r)
      PROVE  Next
  BY <1>3, <1>4 DEF AddAnalystNote, CreateInvestigationCase, UpdateAlertStatus, UpdateCaseStatus, MarkAsRead
<1>5. ASSUME NEW r \in Requests, AnswerComes(r) \/ AnswerLost(r) PROVE UNCHANGED vars
  BY <1>5 DEF AnswerComes, AnswerLost
<1>6. ASSUME NEW r \in Requests, ServerStep(r) \/ OtherAsks(r) PROVE Next
  BY <1>6, ElsewhereAssumption DEF ServerStep, OtherAsks, Next
<1> QED
  BY <1>1, <1>2, <1>4, <1>5, <1>6 DEF PagesNext

\* However the pages are opened and left, and whichever answers are lost, what the
\* server sees is one of the behaviours of Cases.
THEOREM PagesImplementCases == PagesSpec => Spec
<1>1. PagesInit => Init
  BY DEF PagesInit
<1> QED
  BY <1>1, PagesStepIsStep, PTL DEF PagesSpec, Spec

\* The inductive invariant holds in every state of Cases.
THEOREM Invariant == Spec => []Inv
BY InitInv, NextKeeps, PTL DEF Spec

\* Of any number of requests to open the alert's case, one succeeds at most.
THEOREM CaseOpenedOnce == Spec => []OneCase
<1>1. Inv => OneCase
  BY DEF Inv, OneHasOpened, HasOpened, OneCase
<1> QED
  BY <1>1, Invariant, PTL

\* ... with any pages in front of the server.
THEOREM PagesOpenOneCase == PagesSpec => []OneCase
BY PagesImplementCases, CaseOpenedOnce

-----------------------------------------------------------------------------
(***************************************************************************)
(* The trail and the case follow the alert (Walk).  While no two changes   *)
(* overlap, a change finds what it has read unchanged when it writes, so   *)
(* its entry starts where the walk stands.  Requests to open the case may  *)
(* overlap each other: all of them make the same change, the first one     *)
(* that writes makes the step, and the others write its entry again.       *)
(***************************************************************************)
LEMMA InitWalk == Init => Walk
<1> SUFFICES ASSUME Init PROVE Walk
  OBVIOUS
<1>1. /\ \A r \in Requests : pc[r] = "idle"
      /\ alert = "OPEN" /\ case = None
  BY DEF Init
<1>2. Entries = {}
  BY DEF Init, Entries
<1>3. Balanced({}, "OPEN")
  <2> SUFFICES ASSUME NEW s \in Statuses
               PROVE  /\ Cardinality({e \in {} : e.to = s}) = 0
                      /\ Cardinality({e \in {} : e.from = s}) = 0
    BY DEF Balanced
  <2>1. {e \in {} : e.to = s} = {} /\ {e \in {} : e.from = s} = {}
    OBVIOUS
  <2> QED
    BY <2>1, FS_EmptySet
<1>4. EntriesSoFar
  <2>1. Logging = {} /\ IsFiniteSet(Entries)
    BY <1>1, <1>2, FS_EmptySet DEF Logging
  <2> QED
    BY <1>1, <1>2, <1>3, <2>1 DEF EntriesSoFar
<1>5. TakenUpOnce /\ Follows
  BY <1>1, <1>2 DEF TakenUpOnce, Follows, Changing
<1>6. \A r \in Requests : SeenInTime(r)
  BY <1>1 DEF SeenInTime, Changing
<1>7. Apart /\ EntriesOfStages
  BY <1>1 DEF Init, Apart, Served, EntriesOfStages
<1> QED
  BY <1>4, <1>5, <1>6, <1>7 DEF Walk

-----------------------------------------------------------------------------
\* A walk that goes on.

LEMMA OneMore ==
    ASSUME NEW T, IsFiniteSet(T), NEW e, e \notin T
    PROVE  Cardinality(T \cup {e}) = Cardinality(T) + 1
BY FS_AddElement

LEMMA BalancedGoesOn ==
    ASSUME NEW T, IsFiniteSet(T), NEW a \in Statuses, Balanced(T, a),
           NEW e, e \notin T, e.from = a
    PROVE  Balanced(T \cup {e}, e.to)
<1> DEFINE in(U, s)  == {x \in U : x.to = s}
           out(U, s) == {x \in U : x.from = s}
<1> SUFFICES ASSUME NEW s \in Statuses
             PROVE  Cardinality(in(T \cup {e}, s)) + (IF s = "OPEN" THEN 1 ELSE 0)
                      = Cardinality(out(T \cup {e}, s)) + (IF s = e.to THEN 1 ELSE 0)
  BY DEF Balanced
<1>1. IsFiniteSet(in(T, s)) /\ IsFiniteSet(out(T, s))
  BY FS_Subset
<1>2. Cardinality(in(T, s)) \in Nat /\ Cardinality(out(T, s)) \in Nat
  BY <1>1, FS_CardinalityType
<1>3. Cardinality(in(T, s)) + (IF s = "OPEN" THEN 1 ELSE 0)
        = Cardinality(out(T, s)) + (IF s = a THEN 1 ELSE 0)
  BY DEF Balanced
<1>4. Cardinality(in(T \cup {e}, s)) = Cardinality(in(T, s)) + (IF s = e.to THEN 1 ELSE 0)
  <2>1. CASE s = e.to
    <3>1. in(T \cup {e}, s) = in(T, s) \cup {e} /\ e \notin in(T, s)
      BY <2>1
    <3>2. Cardinality(in(T, s) \cup {e}) = Cardinality(in(T, s)) + 1
      BY <1>1, <3>1, OneMore
    <3>3. Cardinality(in(T \cup {e}, s)) = Cardinality(in(T, s)) + 1
      BY <3>1, <3>2, Zenon
    <3> QED
      BY <2>1, <3>3
  <2>2. CASE s # e.to
    <3>1. in(T \cup {e}, s) = in(T, s)
      BY <2>2
    <3>2. Cardinality(in(T \cup {e}, s)) = Cardinality(in(T, s))
      BY <3>1, Zenon
    <3> QED
      BY <1>2, <2>2, <3>2
  <2> QED
    BY <2>1, <2>2
<1>5. Cardinality(out(T \cup {e}, s)) = Cardinality(out(T, s)) + (IF s = a THEN 1 ELSE 0)
  <2>1. CASE s = a
    <3>1. out(T \cup {e}, s) = out(T, s) \cup {e} /\ e \notin out(T, s)
      BY <2>1
    <3>2. Cardinality(out(T, s) \cup {e}) = Cardinality(out(T, s)) + 1
      BY <1>1, <3>1, OneMore
    <3>3. Cardinality(out(T \cup {e}, s)) = Cardinality(out(T, s)) + 1
      BY <3>1, <3>2, Zenon
    <3> QED
      BY <2>1, <3>3
  <2>2. CASE s # a
    <3>1. out(T \cup {e}, s) = out(T, s)
      BY <2>2
    <3>2. Cardinality(out(T \cup {e}, s)) = Cardinality(out(T, s))
      BY <3>1, Zenon
    <3> QED
      BY <1>2, <2>2, <3>2
  <2> QED
    BY <2>1, <2>2
<1> HIDE DEF in, out
<1> QED
  BY <1>2, <1>3, <1>4, <1>5

\* What the trail says of the alert changes with the alert's entries only.
LEMMA SameEntries ==
    ASSUME {e \in trail' : e.what = "alert"} = {e \in trail : e.what = "alert"},
           \A e \in trail : e.what = "alert" => Origin(e.by)' = Origin(e.by)
    PROVE  Entries' = Entries
<1>1. ASSUME NEW x \in Entries' PROVE x \in Entries
  <2>1. PICK e \in {e \in trail : e.what = "alert"} :
            x = [from |-> e.from, to |-> e.to, by |-> Origin(e.by)']
    BY <1>1 DEF Entries
  <2> QED
    BY <2>1 DEF Entries
<1>2. ASSUME NEW x \in Entries PROVE x \in Entries'
  <2>1. PICK e \in {e \in trail : e.what = "alert"} :
            x = [from |-> e.from, to |-> e.to, by |-> Origin(e.by)]
    BY <1>2 DEF Entries
  <2>2. e \in {d \in trail' : d.what = "alert"} /\ Origin(e.by)' = Origin(e.by)
    BY <2>1
  <2> QED
    BY <2>1, <2>2 DEF Entries
<1> QED
  BY <1>1, <1>2

LEMMA OtherEntries ==
    ASSUME NEW r, NEW what, NEW from, NEW to, what # "alert",
           Logged(r, what, from, to), call' = call
    PROVE  Entries' = Entries
<1>1. {e \in trail' : e.what = "alert"} = {e \in trail : e.what = "alert"}
  BY DEF Logged
<1> QED
  BY <1>1, SameEntries DEF Origin

LEMMA OneMoreEntry ==
    ASSUME NEW r \in Requests, AlertEntry(r), UNCHANGED call
    PROVE  Entries' = Entries \cup {Entry(r)}
<1> DEFINE e0 == [what |-> "alert", from |-> seen[r].old, to |-> To(r), by |-> r]
           norm(e) == [from |-> e.from, to |-> e.to, by |-> Origin(e.by)]
<1>1. {e \in trail' : e.what = "alert"} = {e \in trail : e.what = "alert"} \cup {e0}
  BY DEF AlertEntry, Logged
<1>2. Entries' = {norm(e) : e \in {e \in trail' : e.what = "alert"}}
  BY DEF Entries, Origin
<1>3. Entries = {norm(e) : e \in {e \in trail : e.what = "alert"}}
  BY DEF Entries
<1>4. norm(e0) = Entry(r)
  BY DEF Entry
<1> HIDE DEF e0, norm
<1> QED
  BY <1>1, <1>2, <1>3, <1>4

-----------------------------------------------------------------------------
\* A step of the server for r leaves the other requests where they are.

Turn(r) ==
    /\ pc[r] \notin {"idle", "done"} /\ reply[r] = "none" /\ OwnStage(r) /\ OwnStage(r)'
    /\ \A q \in Requests : q # r => /\ pc'[q] = pc[q] /\ seen'[q] = seen[q]
                                    /\ reply'[q] = reply[q]
    /\ UNCHANGED <<call, overlapped>>

LEMMA ServeTurn ==
    ASSUME Inv, Inv', NEW r \in Requests, Serve(r)
    PROVE  Turn(r)
<1>1. /\ pc[r] \notin {"idle", "done"} /\ UNCHANGED <<call, overlapped>>
  BY DEF Serve, ReadAlert, WriteAlert, LogAlert, LogNote, LoadAlert, FindCase, InsertCase,
         LogCreated, LoadCase, WriteCase, LogCase, Forward, Forwarded, Lose, At, Served
<1>2. reply[r] = "none" /\ OwnStage(r) /\ OwnStage(r)'
  BY <1>1 DEF Inv, SilentUntilDone, OwnStages, TypeOK
<1>3. \/ \E stage : Goto(r, stage)
      \/ \E how : Answer(r, how)
  BY DEF Serve, ReadAlert, WriteAlert, LogAlert, LogNote, LoadAlert, FindCase, InsertCase,
         LogCreated, LoadCase, WriteCase, LogCase, Forward, Forwarded, Lose
<1>4. \A q \in Requests : q # r => pc'[q] = pc[q] /\ reply'[q] = reply[q]
  BY <1>3 DEF Goto, Answer, Inv, TypeOK
<1>5. \A q \in Requests : q # r => seen'[q] = seen[q]
  BY DEF Serve, ReadAlert, WriteAlert, LogAlert, LogNote, LoadAlert, FindCase, InsertCase,
         LogCreated, LoadCase, WriteCase, LogCase, Forward, Forwarded, Lose, Inv, TypeOK
<1> QED
  BY <1>1, <1>2, <1>4, <1>5 DEF Turn

\* Once something was left half-way, or changes have overlapped, that stays so.
LEMMA TurnTidy ==
    ASSUME Inv, NEW r \in Requests, Turn(r), Tidy'
    PROVE  Tidy
BY DEF Turn, Tidy

LEMMA TurnApart ==
    ASSUME NEW r \in Requests, Turn(r), Apart
    PROVE  Apart'
<1>1. \A q \in Served' : q \in Served
  BY DEF Turn, Served
<1> QED
  BY <1>1 DEF Apart, Turn

\* Besides a request that changes the alert or the case, only others that open the
\* case are under way.
LEMMA Alone ==
    ASSUME Walk, Tidy, NEW q \in Requests, NEW r \in Requests, q # r,
           pc[q] \notin {"idle", "done"}, pc[r] \notin {"idle", "done"},
           call[q].op \in {"updateAlert", "createCase", "updateCase"},
           call[r].op \in {"updateAlert", "createCase", "updateCase"}
    PROVE  call[q].op = "createCase" /\ call[r].op = "createCase"
<1>1. q \in Served /\ r \in Served
  BY DEF Served
<1>2. ~Collide(call[q].op, call[r].op)
  BY <1>1 DEF Walk, Apart, Tidy
<1> QED
  BY <1>2 DEF Collide

\* The parts of Walk, for the requests that do not move.

LEMMA OthersSeen ==
    ASSUME Walk, Tidy, NEW r \in Requests, Turn(r), alert' = alert,
           SeenInTime(r)'
    PROVE  (\A q \in Requests : SeenInTime(q))'
<1>1. ASSUME NEW q \in Requests, q # r PROVE SeenInTime(q)'
  BY <1>1 DEF Walk, Turn, SeenInTime, Changing, Opening
<1> QED
  BY <1>1

LEMMA OldEntriesOfStages ==
    ASSUME Walk, Tidy, NEW r \in Requests, Turn(r),
           {e \in trail' : e.what = "alert"} \subseteq trail,
           pc[r] \in {"insertCase", "logCreated", "writeCase", "logCase"}
              => pc'[r] \in {"insertCase", "logCreated", "writeCase", "logCase", "done"},
           \A e \in trail : e.by \in Requests
    PROVE  EntriesOfStages'
BY DEF Walk, EntriesOfStages, Turn

\* A step that changes neither alert nor case nor the alert's entries.
Reads(r) ==
    /\ alert' = alert /\ case' = case /\ Entries' = Entries
    /\ {e \in trail' : e.what = "alert"} \subseteq trail
    /\ pc[r] \notin {"logAlert", "insertCase", "writeCase"} /\ pc'[r] # "logAlert"
    /\ SeenInTime(r)'
    /\ Changing(r, {"createCase"}, {"readAlert", "writeAlert"})' /\ alert = "OPEN" => case = None
    /\ Changing(r, {"createCase"}, {"writeAlert"})' => alert = "OPEN"
    /\ pc[r] \in {"logCreated", "logCase"} => pc'[r] = "done"

LEMMA ReadsWalk ==
    ASSUME Inv, Inv', Walk, Tidy, NEW r \in Requests, Turn(r), Reads(r)
    PROVE  Walk'
<1>1. (\A q \in Requests : SeenInTime(q))'
  BY OthersSeen DEF Reads
<1>2. EntriesOfStages'
  BY OldEntriesOfStages DEF Reads, Inv, TypeOK
<1>3. \A q \in Requests : q # r =>
         /\ Changing(q, {"createCase"}, {"readAlert", "writeAlert"})'
               <=> Changing(q, {"createCase"}, {"readAlert", "writeAlert"})
         /\ Changing(q, {"createCase"}, {"writeAlert"})'
               <=> Changing(q, {"createCase"}, {"writeAlert"})
  BY DEF Turn, Changing
<1>4. \A q \in Requests :
         /\ Changing(q, {"createCase"}, {"insertCase"})
               => Changing(q, {"createCase"}, {"insertCase"})'
         /\ Changing(q, {"createCase"}, {"logAlert"})
               => Changing(q, {"createCase"}, {"logAlert"})'
         /\ Changing(q, {"updateCase"}, {"logAlert", "writeCase"})
               => Changing(q, {"updateCase"}, {"logAlert", "writeCase"})'
         /\ call[q].op = "updateAlert" /\ (pc[q] = "logAlert" \/ reply[q] = "ok")
               => call'[q].op = "updateAlert" /\ (pc'[q] = "logAlert" \/ reply'[q] = "ok")
  BY DEF Turn, Changing, Reads
<1>5. TakenUpOnce'
  BY <1>3, <1>4 DEF Reads, Walk, TakenUpOnce
<1>6. EntriesSoFar'
  <2>1. Logging' = Logging /\ r \notin Logging
    BY DEF Reads, Turn, Logging
  <2>2. \A q \in Logging : Entry(q)' = Entry(q)
    BY <2>1 DEF Turn, Entry, To, Origin, Logging
  <2> QED
    BY <2>1, <2>2 DEF Reads, Walk, EntriesSoFar
<1>7. Follows'
  BY <1>4 DEF Reads, Walk, Follows
<1> QED
  BY <1>1, <1>2, <1>5, <1>6, <1>7, TurnApart DEF Walk

-----------------------------------------------------------------------------
\* Each step, while all is tidy.

LEMMA ReadsAre ==
    ASSUME Inv, Walk, Tidy, NEW r \in Requests, Turn(r),
           \/ ReadAlert(r) \/ LoadAlert(r) \/ FindCase(r) \/ LoadCase(r)
           \/ LogNote(r) \/ LogCreated(r) \/ LogCase(r) \/ Forward(r) \/ Forwarded(r)
    PROVE  Reads(r)
<1>1. CASE \/ ReadAlert(r) \/ LoadAlert(r) \/ FindCase(r) \/ LoadCase(r)
           \/ Forward(r) \/ Forwarded(r)
  <2>1. alert' = alert /\ case' = case /\ trail' = trail
    BY <1>1 DEF ReadAlert, LoadAlert, FindCase, LoadCase, Forward, Forwarded, rows
  <2>2. Entries' = Entries
    BY <2>1, SameEntries DEF Turn, Origin
  <2>3. CASE ReadAlert(r)
    <3>1. /\ pc[r] = "readAlert" /\ pc'[r] \in {"writeAlert", "done"}
          /\ seen'[r].old = alert /\ seen'[r].alert = seen[r].alert
          /\ pc'[r] = "writeAlert" => alert # To(r)
      BY <2>3 DEF ReadAlert, At, Goto, Answer, Changes, Inv, TypeOK, SeenRows
    <3>2. SeenInTime(r)
      BY DEF Walk
    <3>3. Changing(r, {"createCase"}, {"writeAlert"})' => alert = "OPEN"
      BY <3>1, <3>2 DEF SeenInTime, Changing, Turn, To
    <3>4. SeenInTime(r)'
      BY <2>1, <3>1, <3>2, <3>3 DEF SeenInTime, Changing, Turn
    <3>5. Changing(r, {"createCase"}, {"readAlert", "writeAlert"})' /\ alert = "OPEN"
             => case = None
      BY <3>1 DEF Walk, TakenUpOnce, Changing, Turn
    <3> QED
      BY <2>1, <2>2, <3>1, <3>3, <3>4, <3>5 DEF Reads
  <2>4. CASE LoadAlert(r)
    <3>1. pc[r] = "loadAlert" /\ pc'[r] = "findCase" /\ seen'[r].alert = alert
      BY <2>4 DEF LoadAlert, At, Goto, Inv, TypeOK, SeenRows
    <3>2. SeenInTime(r)'
      BY <2>1, <3>1 DEF SeenInTime, Changing
    <3> QED
      BY <2>1, <2>2, <3>1, <3>2 DEF Reads, Changing
  <2>5. CASE FindCase(r)
    <3>1. /\ pc[r] = "findCase" /\ seen' = seen /\ call[r].op = "createCase"
          /\ \/ pc'[r] = "done"
             \/ pc'[r] = "readAlert" /\ seen[r].alert = "OPEN" /\ case = None
             \/ pc'[r] = "insertCase" /\ seen[r].alert # "OPEN"
      BY <2>5 DEF FindCase, At, Goto, Answer, Turn, OwnStage, Inv, TypeOK
    <3>2. seen[r].alert = alert \/ (seen[r].alert = "OPEN" /\ alert = "INVESTIGATING")
      BY <3>1 DEF Walk, SeenInTime, Changing
    <3>3. SeenInTime(r)'
      <4>1. pc'[r] = "insertCase" => alert = Opening(r)
        BY <3>1, <3>2 DEF Opening, Inv, TypeOK, Statuses, Final
      <4>2. Opening(r)' = Opening(r)
        BY <3>1 DEF Opening
      <4> QED
        BY <2>1, <3>1, <3>2, <4>1, <4>2 DEF SeenInTime, Changing
    <3> QED
      BY <2>1, <2>2, <3>1, <3>3 DEF Reads, Changing
  <2>6. CASE LoadCase(r)
    <3>1. pc[r] = "loadCase" /\ pc'[r] \in {"readAlert", "done"} /\ call'[r].op = "updateCase"
      BY <2>6 DEF LoadCase, At, Goto, Answer, Turn, OwnStage, Inv, TypeOK
    <3>2. SeenInTime(r)'
      BY <2>1, <3>1 DEF SeenInTime, Changing
    <3> QED
      BY <2>1, <2>2, <3>1, <3>2 DEF Reads, Changing
  <2>7. CASE Forward(r) \/ Forwarded(r)
    <3>1. pc[r] \in {"forward", "forwarded"} /\ pc'[r] \in {"forwarded", "done"}
      BY <2>7 DEF Forward, Forwarded, At, Goto, Answer, Inv, TypeOK
    <3>2. SeenInTime(r)'
      BY <3>1 DEF SeenInTime, Changing
    <3> QED
      BY <2>1, <2>2, <3>1, <3>2 DEF Reads, Changing
  <2> QED
    BY <1>1, <2>3, <2>4, <2>5, <2>6, <2>7
<1>2. CASE LogNote(r) \/ LogCreated(r) \/ LogCase(r)
  <2>1. /\ alert' = alert /\ case' = case
        /\ pc[r] \in {"logNote", "logCreated", "logCase"} /\ pc'[r] = "done"
        /\ \E what \in {"note", "created", "case"} : \E from, to : Logged(r, what, from, to)
    BY <1>2 DEF LogNote, LogCreated, LogCase, At, Answer, Inv, TypeOK, rows
  <2>2. {e \in trail' : e.what = "alert"} \subseteq trail
    BY <2>1 DEF Logged
  <2>3. Entries' = Entries
    BY <2>1, OtherEntries DEF Turn
  <2>4. SeenInTime(r)'
    BY <2>1 DEF SeenInTime, Changing
  <2> QED
    BY <2>1, <2>2, <2>3, <2>4 DEF Reads, Changing
<1> QED
  BY <1>1, <1>2

\* The alert changes as the request has read it, or as another request to open the
\* case has changed it.
LEMMA WriteAlertWalk ==
    ASSUME Inv, Inv', Walk, Tidy, NEW r \in Requests, Turn(r), WriteAlert(r)
    PROVE  Walk'
<1>1. /\ pc[r] = "writeAlert" /\ pc'[r] = "logAlert" /\ alert' = To(r)
      /\ UNCHANGED <<case, trail, seen, call>>
      /\ call[r].op \in {"updateAlert", "createCase", "updateCase"}
  BY DEF WriteAlert, At, Goto, Turn, OwnStage, Inv, TypeOK
<1>2. Entries' = Entries
  BY <1>1, SameEntries DEF Origin
<1>3. EntriesOfStages'
  BY <1>1, OldEntriesOfStages DEF Inv, TypeOK
<1>4. SeenInTime(r)
  BY DEF Walk
<1>5. CASE call[r].op # "createCase"
  <2>1. /\ call[r].op \in {"updateAlert", "updateCase"} /\ To(r) = call[r].to
        /\ seen[r].old = alert
    BY <1>1, <1>4, <1>5 DEF SeenInTime, Changing, To
  <2>2. ASSUME NEW q \in Requests, q # r,
               call[q].op \in {"updateAlert", "createCase", "updateCase"}
        PROVE  pc[q] \in {"idle", "done"} /\ pc'[q] \in {"idle", "done"}
    BY <1>1, <1>5, <2>2, Alone DEF Turn
  <2>3. (\A q \in Requests : SeenInTime(q))'
    <3>1. SeenInTime(r)'
      BY <1>1, <2>1 DEF SeenInTime, Changing
    <3>2. ASSUME NEW q \in Requests, q # r PROVE SeenInTime(q)'
      BY <1>1, <2>2, <3>2 DEF SeenInTime, Changing
    <3> QED
      BY <3>1, <3>2
  <2>4. TakenUpOnce'
    <3>1. \A q \in Requests : ~Changing(q, {"createCase"}, {"readAlert", "writeAlert"})'
      BY <1>1, <1>5, <2>2 DEF Changing
    <3>2. \A q \in Requests : ~Changing(q, {"createCase"}, {"insertCase"})
      BY <1>1, <2>2 DEF Changing
    <3>3. \A q \in Requests : ~Changing(q, {"createCase"}, {"writeAlert"})'
      BY <1>1, <1>5, <2>2 DEF Changing
    <3> QED
      BY <1>1, <1>2, <3>1, <3>2, <3>3 DEF Walk, TakenUpOnce
  <2>5. EntriesSoFar'
    <3>1. Logging = {} /\ Logging' = {r}
      <4>1. ASSUME NEW q \in Requests, q # r PROVE pc[q] # "logAlert" /\ pc'[q] # "logAlert"
        BY <4>1, <2>2 DEF Turn, Inv, OwnStages, OwnStage
      <4> QED
        BY <1>1, <4>1 DEF Logging
    <3>2. Entry(r).by = r /\ Entry(r).from = alert /\ Entry(r).to = To(r)
      BY <1>5, <2>1 DEF Entry, Origin
    <3>3. Entry(r) \notin Entries
      <4> SUFFICES ASSUME Entry(r) \in Entries PROVE FALSE
        OBVIOUS
      <4>1. PICK e \in {e \in trail : e.what = "alert"} : Entry(r).by = Origin(e.by)
        BY DEF Entries
      <4>2. e.by = r
        BY <3>2, <4>1, NoneAssumption DEF Origin
      <4> QED
        BY <1>1, <4>1, <4>2 DEF Walk, EntriesOfStages
    <3>4. Balanced(Entries, alert) /\ IsFiniteSet(Entries)
      BY <3>1 DEF Walk, EntriesSoFar
    <3>5. Balanced(Entries \cup {Entry(r)}, Entry(r).to)
      BY <3>2, <3>3, <3>4, BalancedGoesOn DEF Inv, TypeOK
    <3>6. Balanced(Entries \cup {Entry(r)}, alert')
      BY <1>1, <3>2, <3>5, Zenon
    <3>7. Entry(r)' = Entry(r)
      BY <1>1 DEF Entry, To, Origin
    <3>8. (\A q \in Logging : Balanced(Entries \cup {Entry(q)}, alert))'
      <4>1. Entries' \cup {Entry(r)'} = Entries \cup {Entry(r)}
        BY <1>2, <3>7
      <4>2. Balanced(Entries \cup {Entry(r)}, alert)'
        BY <3>6, <4>1 DEF Balanced
      <4> QED
        BY <3>1, <4>2
    <3>9. IsFiniteSet(Entries)' /\ Logging' # {}
      BY <1>2, <3>1, <3>4
    <3> QED
      BY <3>8, <3>9 DEF EntriesSoFar
  <2>6. Follows'
    BY <1>1, <2>1 DEF Follows, Changing
  <2> QED
    BY <1>3, <2>3, <2>4, <2>5, <2>6, TurnApart DEF Walk
<1>6. CASE call[r].op = "createCase"
  <2>1. /\ To(r) = "INVESTIGATING" /\ seen[r].alert = "OPEN" /\ seen[r].old = "OPEN"
        /\ alert \in {"OPEN", "INVESTIGATING"}
    BY <1>1, <1>4, <1>6 DEF SeenInTime, Changing, To
  <2>2. \A q \in Requests : q # r /\ call[q].op # "createCase" =>
           ~Changing(q, {"updateAlert", "updateCase"},
                     {"readAlert", "writeAlert", "logAlert", "loadCase", "writeCase", "logCase"})
    BY <1>1, Alone DEF Changing, Turn
  <2>3. (\A q \in Requests : SeenInTime(q))'
    <3>1. SeenInTime(r)'
      BY <1>1, <1>6, <2>1 DEF SeenInTime, Changing
    <3>2. ASSUME NEW q \in Requests, q # r PROVE SeenInTime(q)'
      <4>1. CASE call[q].op # "createCase"
        BY <1>1, <2>2, <3>2, <4>1 DEF SeenInTime, Changing, Turn
      <4>2. CASE call[q].op = "createCase"
        <5>1. /\ SeenInTime(q) /\ pc'[q] = pc[q] /\ seen'[q] = seen[q] /\ call' = call
              /\ alert' = "INVESTIGATING" /\ Opening(q)' = Opening(q)
          BY <1>1, <2>1, <3>2 DEF Walk, Turn, Opening
        <5>2. alert = Opening(q) => alert = "INVESTIGATING"
          BY <2>1 DEF Opening, Final
        <5> QED
          BY <2>1, <4>2, <5>1, <5>2 DEF SeenInTime, Changing
      <4> QED
        BY <4>1, <4>2
    <3> QED
      BY <3>1, <3>2
  <2>4. TakenUpOnce'
    <3>1. \A q \in Requests :
             /\ Changing(q, {"createCase"}, {"insertCase"})
                   => Changing(q, {"createCase"}, {"insertCase"})'
             /\ Changing(r, {"createCase"}, {"logAlert"})'
      BY <1>1, <1>6 DEF Turn, Changing
    <3> QED
      BY <1>1, <1>2, <2>1, <3>1 DEF Walk, TakenUpOnce
  <2>5. EntriesSoFar'
    <3>1. Entry(r) = Opened /\ Entry(r)' = Opened
      BY <1>1, <1>6, <2>1 DEF Entry, Origin, To, Opened
    <3>2. ASSUME NEW q \in Logging PROVE q # r /\ Entry(q) = Opened /\ Entry(q)' = Opened
      <4>1. q # r /\ q \in Requests /\ pc[q] = "logAlert"
        BY <1>1 DEF Logging
      <4>2. call[q].op = "createCase"
        BY <1>1, <4>1, Alone DEF Turn, Inv, OwnStages, OwnStage
      <4>3. seen[q].old = "OPEN"
        BY <4>1, <4>2 DEF Walk, SeenInTime, Changing
      <4> QED
        BY <1>1, <4>1, <4>2, <4>3 DEF Entry, Origin, To, Opened
    <3>3. Logging' = Logging \cup {r}
      BY <1>1 DEF Logging, Turn
    <3>4. IsFiniteSet(Entries)
      BY DEF Walk, EntriesSoFar
    <3>5. Balanced(Entries \cup {Opened}, "INVESTIGATING")
      <4>1. CASE alert = "OPEN"
        <5>1. case = None
          BY <1>1, <1>6, <4>1 DEF Walk, TakenUpOnce, Changing
        <5>2. ASSUME NEW q \in Requests, Changing(q, {"createCase"}, {"insertCase"}) PROVE FALSE
          <6>1. alert = Opening(q)
            BY <5>2 DEF Walk, SeenInTime, Changing
          <6> QED
            BY <4>1, <6>1 DEF Opening, Final
        <5>3. Opened \notin Entries
          BY <5>1, <5>2 DEF Walk, TakenUpOnce
        <5>4. Logging = {}
          <6>1. ASSUME NEW q \in Logging PROVE FALSE
            <7>1. q \in Requests /\ pc[q] = "logAlert" /\ q # r
              BY <1>1 DEF Logging
            <7>2. call[q].op = "createCase"
              BY <1>1, <7>1, Alone DEF Turn, Inv, OwnStages, OwnStage
            <7>3. alert = "INVESTIGATING"
              BY <7>1, <7>2 DEF Walk, SeenInTime, Changing
            <7> QED
              BY <4>1, <7>3
          <6> QED
            BY <6>1
        <5>5. Balanced(Entries, "OPEN")
          BY <4>1, <5>4 DEF Walk, EntriesSoFar
        <5>6. Opened.from = "OPEN" /\ Opened.to = "INVESTIGATING" /\ "OPEN" \in Statuses
          BY DEF Opened, Statuses
        <5> QED
          BY <3>4, <5>3, <5>5, <5>6, BalancedGoesOn
      <4>2. CASE alert = "INVESTIGATING"
        <5>1. CASE Logging # {}
          <6>1. PICK q \in Logging : TRUE
            BY <5>1
          <6>2. Balanced(Entries \cup {Entry(q)}, alert)
            BY DEF Walk, EntriesSoFar
          <6>3. Entry(q) = Opened
            BY <3>2
          <6> QED
            BY <4>2, <6>2, <6>3, Zenon
        <5>2. CASE Logging = {}
          <6>1. Opened \in Entries
            BY <1>1, <1>6, <4>2, <5>2 DEF Walk, TakenUpOnce, Changing, Logging
          <6>2. Entries \cup {Opened} = Entries
            BY <6>1
          <6>3. Balanced(Entries, alert)
            BY <5>2 DEF Walk, EntriesSoFar
          <6> QED
            BY <4>2, <6>2, <6>3, Zenon
        <5> QED
          BY <5>1, <5>2
      <4> QED
        BY <2>1, <4>1, <4>2
    <3>6. ASSUME NEW q \in Logging' PROVE Balanced(Entries \cup {Entry(q)}, alert)'
      <4>1. Entry(q)' = Opened
        BY <3>1, <3>2, <3>3
      <4>2. Entries' \cup {Entry(q)'} = Entries \cup {Opened}
        BY <1>2, <4>1
      <4>3. alert' = "INVESTIGATING"
        BY <1>1, <2>1
      <4> QED
        BY <3>5, <4>2, <4>3 DEF Balanced
    <3>7. IsFiniteSet(Entries)' /\ Logging' # {}
      BY <1>2, <3>3, <3>4
    <3> QED
      BY <3>6, <3>7 DEF EntriesSoFar
  <2>6. Follows'
    <3>1. CASE alert = "OPEN"
      <4>1. case = None
        BY <1>1, <1>6, <3>1 DEF Walk, TakenUpOnce, Changing
      <4> QED
        BY <1>1, <4>1 DEF Follows
    <3>2. CASE alert = "INVESTIGATING"
      <4>1. alert' = alert
        BY <1>1, <2>1, <3>2
      <4>2. \A q \in Requests :
               /\ Changing(q, {"updateCase"}, {"logAlert", "writeCase"})
                     => Changing(q, {"updateCase"}, {"logAlert", "writeCase"})'
               /\ call[q].op = "updateAlert" /\ (pc[q] = "logAlert" \/ reply[q] = "ok")
                     => call'[q].op = "updateAlert" /\ (pc'[q] = "logAlert" \/ reply'[q] = "ok")
        BY <1>1, <1>6 DEF Turn, Changing
      <4> QED
        BY <1>1, <4>1, <4>2 DEF Walk, Follows
    <3> QED
      BY <2>1, <3>1, <3>2
  <2> QED
    BY <1>3, <2>3, <2>4, <2>5, <2>6, TurnApart DEF Walk
<1> QED
  BY <1>5, <1>6

\* The entry of a change joins the trail.
LEMMA LogAlertWalk ==
    ASSUME Inv, Inv', Walk, Tidy, NEW r \in Requests, Turn(r), LogAlert(r)
    PROVE  Walk'
<1>1. /\ pc[r] = "logAlert" /\ UNCHANGED <<alert, case, seen, call>>
      /\ call[r].op \in {"updateAlert", "createCase", "updateCase"}
      /\ AlertEntry(r)
  BY DEF LogAlert, Turn, OwnStage, At, rows
<1>2. /\ call[r].op = "createCase" => pc'[r] = "insertCase"
      /\ call[r].op = "updateCase" => pc'[r] = "writeCase"
      /\ call[r].op = "updateAlert" => pc'[r] = "done" /\ reply'[r] = "ok"
  BY <1>1 DEF LogAlert, NextStage, Goto, Answer, Inv, TypeOK
<1>3. SeenInTime(r) /\ alert = To(r)
  BY <1>1 DEF Walk, SeenInTime, Changing, To
<1>4. Entries' = Entries \cup {Entry(r)}
  BY <1>1, OneMoreEntry
<1>5. (\A q \in Requests : SeenInTime(q))'
  <2>1. SeenInTime(r)'
    <3>1. call[r].op = "createCase" => alert = Opening(r)
      BY <1>1, <1>3 DEF SeenInTime, Changing, Opening, Final
    <3>2. Opening(r)' = Opening(r)
      BY <1>1 DEF Opening
    <3> QED
      BY <1>1, <1>2, <1>3, <3>1, <3>2 DEF SeenInTime, Changing, To
  <2> QED
    BY <1>1, <2>1, OthersSeen
<1>6. EntriesOfStages'
  <2> DEFINE e0 == [what |-> "alert", from |-> seen[r].old, to |-> To(r), by |-> r]
  <2>1. trail' = trail \cup {e0}
    BY <1>1 DEF AlertEntry, Logged
  <2>2. ASSUME NEW e \in trail, e.what = "alert"
        PROVE  /\ pc'[e.by] \in {"insertCase", "logCreated", "writeCase", "logCase", "done"}
               /\ call'[e.by].op = "createCase" => e.from = "OPEN" /\ e.to = "INVESTIGATING"
    BY <1>1, <2>2 DEF Walk, EntriesOfStages, Turn, Inv, TypeOK
  <2>3. /\ e0.by = r /\ pc'[r] \in {"insertCase", "writeCase", "done"}
        /\ call'[r].op = "createCase" => e0.from = "OPEN" /\ e0.to = "INVESTIGATING"
    BY <1>1, <1>2, <1>3 DEF SeenInTime, Changing, To
  <2> HIDE DEF e0
  <2> QED
    BY <2>1, <2>2, <2>3 DEF EntriesOfStages
<1>7. TakenUpOnce'
  <2>1. \A q \in Requests :
           /\ Changing(q, {"createCase"}, {"readAlert", "writeAlert"})'
                 => Changing(q, {"createCase"}, {"readAlert", "writeAlert"})
           /\ Changing(q, {"createCase"}, {"writeAlert"})'
                 => Changing(q, {"createCase"}, {"writeAlert"})
           /\ Changing(q, {"createCase"}, {"insertCase"})
                 => Changing(q, {"createCase"}, {"insertCase"})'
           /\ q # r /\ Changing(q, {"createCase"}, {"logAlert"})
                 => Changing(q, {"createCase"}, {"logAlert"})'
    BY <1>1, <1>2 DEF Turn, Changing
  <2>2. CASE call[r].op = "createCase"
    <3>1. Entry(r) = Opened /\ Changing(r, {"createCase"}, {"insertCase"})'
      BY <1>1, <1>2, <1>3, <2>2 DEF Entry, Origin, To, Opened, SeenInTime, Changing
    <3> QED
      BY <1>1, <1>4, <2>1, <3>1 DEF Walk, TakenUpOnce
  <2>3. CASE call[r].op # "createCase"
    <3>1. Entry(r) # Opened
      BY <2>3, NoneAssumption DEF Entry, Origin, Opened
    <3>2. ~Changing(r, {"createCase"}, {"logAlert"})
      BY <2>3 DEF Changing
    <3> QED
      BY <1>1, <1>4, <2>1, <3>1, <3>2 DEF Walk, TakenUpOnce
  <2> QED
    BY <2>2, <2>3
<1>8. EntriesSoFar'
  <2>1. IsFiniteSet(Entries) /\ Balanced(Entries \cup {Entry(r)}, alert)
    BY <1>1 DEF Walk, EntriesSoFar, Logging
  <2>2. IsFiniteSet(Entries')
    BY <1>4, <2>1, FS_AddElement
  <2>3. Balanced(Entries, alert)'
    BY <1>1, <1>4, <2>1 DEF Balanced
  <2>4. ASSUME NEW q \in Logging' PROVE Balanced(Entries \cup {Entry(q)}, alert)'
    <3>1. q \in Requests /\ q # r /\ pc[q] = "logAlert"
      BY <1>1, <1>2 DEF Logging, Turn
    <3>2. call[q].op = "createCase" /\ call[r].op = "createCase"
      BY <1>1, <3>1, Alone DEF Inv, OwnStages, OwnStage
    <3>3. seen[q].old = "OPEN" /\ seen[r].old = "OPEN"
      BY <1>1, <3>1, <3>2 DEF Walk, SeenInTime, Changing
    <3>4. Entry(q)' = Entry(r)
      BY <1>1, <3>2, <3>3 DEF Entry, Origin, To
    <3>5. Entries' \cup {Entry(q)'} = Entries \cup {Entry(r)}
      BY <1>4, <3>4
    <3> QED
      BY <1>1, <2>1, <3>5 DEF Balanced
  <2> QED
    BY <2>2, <2>3, <2>4 DEF EntriesSoFar
<1>9. Follows'
  <2>1. \A q \in Requests :
           /\ Changing(q, {"updateCase"}, {"logAlert", "writeCase"})
                 => Changing(q, {"updateCase"}, {"logAlert", "writeCase"})'
           /\ call[q].op = "updateAlert" /\ (pc[q] = "logAlert" \/ reply[q] = "ok")
                 => call'[q].op = "updateAlert" /\ (pc'[q] = "logAlert" \/ reply'[q] = "ok")
    BY <1>1, <1>2 DEF Turn, Changing
  <2> QED
    BY <1>1, <2>1 DEF Walk, Follows
<1> QED
  BY <1>5, <1>6, <1>7, <1>8, <1>9, TurnApart DEF Walk

\* The case is written with the status that its alert has by then.
LEMMA CaseWalk ==
    ASSUME Inv, Inv', Walk, Tidy, NEW r \in Requests, Turn(r),
           InsertCase(r) \/ WriteCase(r)
    PROVE  Walk'
<1>1. /\ pc[r] \in {"insertCase", "writeCase"}
      /\ UNCHANGED <<alert, trail, seen, call>>
      /\ pc'[r] \in {"logCreated", "logCase", "done"}
  BY DEF InsertCase, WriteCase, Goto, Answer, Inv, TypeOK, At
<1>2. /\ InsertCase(r) => call[r].op = "createCase" /\ pc'[r] # "logCase" /\ pc[r] = "insertCase"
      /\ WriteCase(r) => call[r].op = "updateCase" /\ pc'[r] = "logCase" /\ pc[r] = "writeCase"
  BY DEF InsertCase, WriteCase, Goto, Answer, Turn, OwnStage, Inv, TypeOK, At
<1>3. Entries' = Entries
  BY <1>1, SameEntries DEF Origin
<1>4. (\A q \in Requests : SeenInTime(q))'
  <2>1. SeenInTime(r) /\ Opening(r)' = Opening(r)
    BY <1>1 DEF Walk, Opening
  <2>2. SeenInTime(r)'
    BY <1>1, <1>2, <2>1 DEF SeenInTime, Changing
  <2> QED
    BY <1>1, <2>2, OthersSeen
<1>5. EntriesOfStages'
  BY <1>1, OldEntriesOfStages DEF Inv, TypeOK
<1>6. case' # None /\ (case' = case \/ case'.status = alert)
  <2>1. CASE InsertCase(r)
    <3>1. alert = Opening(r) /\ Opening(r) \in Statuses
      BY <1>1, <1>2, <2>1 DEF Walk, SeenInTime, Changing, Opening, Final, Statuses
    <3>2. (case' = case /\ case # None) \/ case' = Case(Opening(r))
      BY <2>1 DEF InsertCase, Collides
    <3> QED
      BY <3>1, <3>2, CaseIsRow DEF Case
  <2>2. CASE WriteCase(r)
    <3>1. alert = call[r].to /\ case' = Case(call[r].to)
      BY <1>2, <2>2 DEF Walk, SeenInTime, Changing, WriteCase
    <3>2. case' # None
      BY <3>1, CaseIsRow DEF Inv, TypeOK
    <3> QED
      BY <3>1, <3>2 DEF Case
  <2> QED
    BY <2>1, <2>2
<1>7. TakenUpOnce'
  <2>1. ASSUME NEW q \in Requests, Changing(q, {"createCase"}, {"readAlert", "writeAlert"})'
        PROVE  alert # "OPEN" /\ Changing(q, {"createCase"}, {"readAlert", "writeAlert"})
    <3>1. q # r /\ pc[q] \in {"readAlert", "writeAlert"} /\ call[q].op = "createCase"
      BY <1>1, <2>1 DEF Turn, Changing
    <3>2. call[r].op = "createCase"
      BY <1>1, <1>2, <3>1, Alone
    <3>3. alert = Opening(r)
      BY <1>1, <1>2, <3>2 DEF Walk, SeenInTime, Changing
    <3> QED
      BY <3>1, <3>3 DEF Opening, Final, Changing
  <2>2. \A q \in Requests :
           /\ Changing(q, {"createCase"}, {"writeAlert"})'
                 => Changing(q, {"createCase"}, {"writeAlert"})
           /\ Changing(q, {"createCase"}, {"logAlert"})
                 => Changing(q, {"createCase"}, {"logAlert"})'
    BY <1>1 DEF Turn, Changing
  <2> QED
    BY <1>1, <1>3, <1>6, <2>1, <2>2 DEF Walk, TakenUpOnce
<1>8. EntriesSoFar'
  <2>1. Logging' = Logging
    BY <1>1 DEF Logging, Turn
  <2>2. \A q \in Logging : Entry(q)' = Entry(q)
    BY <1>1 DEF Entry, Origin, To
  <2> QED
    BY <1>1, <1>3, <2>1, <2>2 DEF Walk, EntriesSoFar
<1>9. Follows'
  <2>1. CASE case' = case /\ case'.status # alert
    <3>1. InsertCase(r)
      <4>1. WriteCase(r) => case'.status = alert
        BY <1>2 DEF Walk, SeenInTime, Changing, WriteCase, Case
      <4> QED
        BY <2>1, <4>1
    <3>2. \A q \in Requests :
             /\ Changing(q, {"updateCase"}, {"logAlert", "writeCase"})
                   => Changing(q, {"updateCase"}, {"logAlert", "writeCase"})'
             /\ call[q].op = "updateAlert" /\ (pc[q] = "logAlert" \/ reply[q] = "ok")
                   => call'[q].op = "updateAlert" /\ (pc'[q] = "logAlert" \/ reply'[q] = "ok")
      BY <1>1, <1>2, <3>1 DEF Turn, Changing
    <3> QED
      BY <1>1, <2>1, <3>2 DEF Walk, Follows
  <2>2. CASE case'.status = alert
    BY <1>1, <2>2 DEF Follows
  <2> QED
    BY <1>6, <2>1, <2>2
<1> QED
  BY <1>4, <1>5, <1>7, <1>8, <1>9, TurnApart DEF Walk

\* A request that arrives overlaps none, or nothing is claimed from then on.
LEMMA AskWalk ==
    ASSUME Inv, Walk, NEW r \in Requests, NEW c \in Calls, Ask(r, c)
    PROVE  Walk'
<1>1. /\ pc[r] = "idle" /\ reply[r] = "none"
      /\ pc' = [pc EXCEPT ![r] = First(c.op)] /\ call' = [call EXCEPT ![r] = c]
      /\ UNCHANGED <<alert, case, unread, trail, seen, reply>>
      /\ overlapped' = (overlapped \/ \E q \in Served : Collide(call[q].op, c.op))
  BY DEF Ask, rows, Inv, SilentUntilDone, TypeOK
<1>2. /\ pc'[r] = First(c.op) /\ call'[r] = c
      /\ \A q \in Requests : q # r => pc'[q] = pc[q] /\ call'[q] = call[q]
  BY <1>1 DEF Inv, TypeOK
<1>3. pc'[r] \in {"readAlert", "logNote", "loadAlert", "loadCase", "forward"}
      /\ (c.op = "createCase" => pc'[r] = "loadAlert")
  BY <1>2, CallsAssumption DEF First, Operations
<1>4. Apart'
  <2>1. ASSUME NEW q \in Served', NEW p \in Served', q # p,
               Collide(call'[q].op, call'[p].op), ~overlapped'
        PROVE  FALSE
    <3>1. /\ q # r => q \in Served /\ call'[q] = call[q]
          /\ p # r => p \in Served /\ call'[p] = call[p]
      BY <1>2 DEF Served
    <3>2. CASE q # r /\ p # r
      BY <1>1, <2>1, <3>1, <3>2 DEF Walk, Apart
    <3>3. CASE p = r
      BY <1>1, <1>2, <2>1, <3>1, <3>3
    <3>4. CASE q = r
      <4>1. Collide(call'[p].op, c.op)
        <5>1. Collide(c.op, call'[p].op)
          BY <1>2, <2>1, <3>4
        <5>2. {c.op, call'[p].op} = {call'[p].op, c.op}
          OBVIOUS
        <5> QED
          BY <5>1, <5>2, Zenon DEF Collide
      <4> QED
        BY <1>1, <2>1, <3>1, <3>4, <4>1
    <3> QED
      BY <3>2, <3>3, <3>4
  <2> QED
    BY <2>1 DEF Apart
<1>5. ASSUME Tidy'
      PROVE  /\ (\A q \in Requests : SeenInTime(q))' /\ EntriesOfStages'
             /\ TakenUpOnce' /\ EntriesSoFar' /\ Follows'
  <2>1. Tidy
    BY <1>1, <1>5 DEF Tidy
  <2>2. (\A q \in Requests : SeenInTime(q))'
    <3>1. SeenInTime(r)'
      BY <1>2, <1>3 DEF SeenInTime, Changing
    <3>2. ASSUME NEW q \in Requests, q # r PROVE SeenInTime(q)'
      BY <1>1, <1>2, <2>1, <3>2 DEF Walk, SeenInTime, Changing, Opening
    <3> QED
      BY <3>1, <3>2
  <2>3. \A e \in trail : e.what = "alert" => e.by # r /\ Origin(e.by)' = Origin(e.by)
    <3> SUFFICES ASSUME NEW e \in trail, e.what = "alert"
                 PROVE  e.by # r /\ Origin(e.by)' = Origin(e.by)
      OBVIOUS
    <3>1. e.by # r /\ e.by \in Requests
      BY <1>1, <2>1 DEF Walk, EntriesOfStages, Inv, TypeOK
    <3> QED
      BY <1>2, <3>1 DEF Origin
  <2>4. Entries' = Entries
    BY <1>1, <2>3, SameEntries
  <2>5. EntriesOfStages'
    BY <1>1, <1>2, <2>1, <2>3 DEF Walk, EntriesOfStages, Inv, TypeOK
  <2>6. \A q \in Requests :
           /\ Changing(q, {"createCase"}, {"readAlert", "writeAlert"})'
                 => Changing(q, {"createCase"}, {"readAlert", "writeAlert"})
           /\ Changing(q, {"createCase"}, {"writeAlert"})'
                 => Changing(q, {"createCase"}, {"writeAlert"})
           /\ Changing(q, {"createCase"}, {"insertCase"})
                 => Changing(q, {"createCase"}, {"insertCase"})'
           /\ Changing(q, {"createCase"}, {"logAlert"})
                 => Changing(q, {"createCase"}, {"logAlert"})'
           /\ Changing(q, {"updateCase"}, {"logAlert", "writeCase"})
                 => Changing(q, {"updateCase"}, {"logAlert", "writeCase"})'
           /\ call[q].op = "updateAlert" /\ (pc[q] = "logAlert" \/ reply[q] = "ok")
                 => call'[q].op = "updateAlert" /\ (pc'[q] = "logAlert" \/ reply'[q] = "ok")
    BY <1>1, <1>2, <1>3 DEF Changing
  <2>7. TakenUpOnce'
    BY <1>1, <2>1, <2>4, <2>6 DEF Walk, TakenUpOnce
  <2>8. EntriesSoFar'
    <3>1. Logging' = Logging /\ r \notin Logging
      BY <1>1, <1>2, <1>3 DEF Logging
    <3>2. \A q \in Logging : Entry(q)' = Entry(q)
      BY <1>1, <1>2, <3>1 DEF Entry, Origin, To, Logging
    <3> QED
      BY <1>1, <2>1, <2>4, <3>1, <3>2 DEF Walk, EntriesSoFar
  <2>9. Follows'
    BY <1>1, <2>1, <2>6 DEF Walk, Follows
  <2> QED
    BY <2>2, <2>5, <2>7, <2>8, <2>9
<1> QED
  BY <1>4, <1>5 DEF Walk

LEMMA ServeWalk ==
    ASSUME Inv, Inv', Walk, NEW r \in Requests, Serve(r)
    PROVE  Walk'
<1>1. Turn(r)
  BY ServeTurn
<1>2. CASE Tidy'
  <2>1. Tidy
    BY <1>1, <1>2, TurnTidy
  <2>2. ~Lose(r)
    <3>1. Lose(r) => reply'[r] = "lost"
      BY DEF Lose, Answer, Inv, TypeOK
    <3> QED
      BY <1>2, <3>1 DEF Tidy
  <2> QED
    BY <1>1, <2>1, <2>2, ReadsAre, ReadsWalk, WriteAlertWalk, LogAlertWalk, CaseWalk DEF Serve
<1>3. CASE ~Tidy'
  BY <1>1, <1>3, TurnApart DEF Walk
<1> QED
  BY <1>2, <1>3

LEMMA NextWalk == Inv /\ Inv' /\ Walk /\ [Next]_vars => Walk'
<1> SUFFICES ASSUME Inv, Inv', Walk, [Next]_vars PROVE Walk'
  OBVIOUS
<1>1. CASE UNCHANGED vars
  BY <1>1
  DEF vars, rows, Walk, Apart, Served, Tidy, SeenInTime, Changing, Opening, EntriesOfStages,
      TakenUpOnce, Entries, Origin, EntriesSoFar, Logging, Balanced, Entry, To, Follows
<1>2. ASSUME NEW r \in Requests, NEW c \in Calls, Ask(r, c) PROVE Walk'
  BY <1>2, AskWalk
<1>3. ASSUME NEW r \in Requests, Serve(r) PROVE Walk'
  BY <1>3, ServeWalk
<1> QED
  BY <1>1, <1>2, <1>3 DEF Next

LEMMA WalkInvariance == Spec => []Walk
BY InitWalk, NextWalk, Invariant, PTL DEF Spec

\* For any number of requests: when no changes overlapped but those that open the
\* case, the audit entries of the alert lead from OPEN to its present status.
THEOREM TrailLeadsToStatus == Spec => []EntriesChain
<1>1. Walk => EntriesChain
  <2> SUFFICES ASSUME Walk, Served = {}, Tidy PROVE Balanced(Entries, alert)
    BY DEF EntriesChain, AllSettled
  <2>1. Logging = {}
    BY DEF Logging, Served
  <2> QED
    BY <2>1 DEF Walk, EntriesSoFar
<1> QED
  BY <1>1, WalkInvariance, PTL

\* ... and the case has its alert's status, if that was changed through the case alone.
THEOREM CaseFollowsAlert == Spec => []Synchronized
<1>1. Walk => Synchronized
  <2> SUFFICES ASSUME Walk, Served = {}, Tidy, case # None,
                      \A r \in Requests : call[r].op = "updateAlert" => reply[r] # "ok"
               PROVE  case.status = alert
    BY DEF Synchronized, AllSettled
  <2>1. \A r \in Requests : pc[r] \notin {"logAlert", "writeCase"}
    BY DEF Served
  <2> QED
    BY <2>1 DEF Walk, Follows, Changing
<1> QED
  BY <1>1, WalkInvariance, PTL

-----------------------------------------------------------------------------
(***************************************************************************)
(* The pages' tables (PageInv).                                            *)
(***************************************************************************)
LEMMA InitPage == PagesInit => PageInv
<1> SUFFICES ASSUME PagesInit PROVE PageInv
  OBVIOUS
<1>1. TypeOK
  BY InitInv DEF PagesInit, Inv
<1>2. PagesTypeOK
  BY <1>1 DEF PagesTypeOK, PagesInit
<1> QED
  BY <1>2 DEF PagesInit, PageInv, Tables

\* What the page's row is like on the server.
LEMMA StoredRow ==
    /\ page = "alerts" => Stored(page) = Row(alert, None)
    /\ page = "investigations" => Stored(page) = case
    /\ page = "notifications" => Stored(page) = NoticeRow
BY DEF Stored, AlertRow, CaseRow

LEMMA StoredTypes ==
    ASSUME TypeOK, page \in Tables
    PROVE  Stored(page) \in TableRows \cup {None}
<1>1. CASE page = "alerts"
  BY <1>1, StoredRow DEF TypeOK, TableRows, Row
<1>2. CASE page = "investigations"
  BY <1>2, StoredRow DEF TypeOK, TableRows
<1>3. CASE page = "notifications"
  BY <1>3, StoredRow DEF NoticeRow, TableRows, Row
<1> QED
  BY <1>1, <1>2, <1>3 DEF Tables

LEMMA PageOfOperation ==
    ASSUME NEW op \in OperationsOf(page)
    PROVE  \/ op \in {"addNote", "createCase", "updateAlert"} /\ page = "alerts"
           \/ op = "updateCase" /\ page = "investigations"
           \/ op = "markRead" /\ page = "notifications"
<1>1. CASE page = "alerts"
  BY <1>1 DEF OperationsOf
<1>2. CASE page = "investigations"
  BY <1>2 DEF OperationsOf
<1>3. CASE page = "notifications"
  BY <1>3 DEF OperationsOf
<1>4. CASE page \notin {"alerts", "investigations", "notifications"}
  BY <1>4 DEF OperationsOf
<1> QED
  BY <1>1, <1>2, <1>3, <1>4

LEMMA UpdatedRow ==
    ASSUME NEW r \in Requests
    PROVE  /\ call[r].op = "updateAlert" => Updated(r) = Row(call[r].to, None)
           /\ call[r].op = "addNote"     => Updated(r) = shown
           /\ call[r].op = "createCase"  => Updated(r) = Row("INVESTIGATING", None)
           /\ call[r].op = "updateCase"  => Updated(r) = Case(call[r].to)
           /\ call[r].op = "markRead"    => Updated(r) = None
BY DEF Updated

LEMMA UpdatedTypes ==
    ASSUME PageInv, NEW r \in asked
    PROVE  Updated(r) \in TableRows \cup {None}
<1>1. r \in Requests /\ call[r] \in Operations /\ call[r].op \in OperationsOf(page)
  BY CallsAssumption DEF PageInv, PagesTypeOK
<1>2. /\ call[r].op \in {"updateAlert", "updateCase"} => call[r].to \in Statuses
      /\ call[r].op \in {"updateAlert", "updateCase", "addNote", "createCase", "markRead"}
  BY <1>1 DEF Operations
<1> QED
  BY <1>1, <1>2, UpdatedRow, CaseIsRow DEF Row, TableRows, PageInv, PagesTypeOK, Statuses

-----------------------------------------------------------------------------
\* The server works for the page alone.

LEMMA OpenedLateStays ==
    ASSUME Inv, NEW r \in Requests, Turn(r), asked' = asked, asked \subseteq Requests, OpenedLate
    PROVE  OpenedLate'
<1>1. PICK q \in asked :
          call[q].op = "createCase" /\ reply[q] = "ok" /\ seen[q].alert \in Final
  BY DEF OpenedLate
<1>2. q # r /\ q \in Requests
  BY <1>1 DEF Turn
<1> QED
  BY <1>1, <1>2 DEF Turn, OpenedLate

LEMMA AsStoredStays ==
    ASSUME Inv, NEW r \in Requests, Turn(r), asked \subseteq Requests,
           UNCHANGED <<page, asked, shown>>, Stored(page)' = Stored(page),
           NEW row, AsStored(row)
    PROVE  row = Stored(page)' \/ (page' = "alerts" /\ OpenedLate')
BY OpenedLateStays DEF AsStored

LEMMA ServeUnderWay ==
    ASSUME Inv, Inv', PageInv, NEW r \in asked, Turn(r), Serve(r), reply'[r] # "lost",
           UNCHANGED <<page, asked, shown>>, UnderWay(r)
    PROVE  UnderWay(r)'
<1>1. /\ r \in Requests /\ asked \subseteq Requests /\ call[r].op \in OperationsOf(page)
      /\ call' = call /\ reply[r] = "none"
  BY DEF PageInv, PagesTypeOK, Turn
<1>2. \/ call[r].op \in {"addNote", "createCase", "updateAlert"} /\ page = "alerts"
      \/ call[r].op = "updateCase" /\ page = "investigations"
      \/ call[r].op = "markRead" /\ page = "notifications"
  BY <1>1, PageOfOperation
<1>3. Updated(r)' = Updated(r)
  BY <1>1 DEF Updated, Row, Case
<1>4. /\ page' = "alerts" => Stored(page)' = Row(alert', None)
      /\ page' = "investigations" => Stored(page)' = case'
      /\ page' = "notifications" => Stored(page)' = NoticeRow'
  BY DEF Stored, AlertRow, CaseRow
\* The change is not made yet, or what it makes stays as it is.
<1>5. ASSUME Stored(page)' = Stored(page), Made(r)' => Made(r), Made(r) => Made(r)',
             seen'[r] = seen[r] \/ ~Made(r)',
             call[r].op = "createCase" =>
                /\ pc'[r] \in {"readAlert", "writeAlert", "logAlert", "insertCase"} => case' = None
                /\ pc'[r] = "findCase" => seen'[r].alert = alert'
      PROVE  UnderWay(r)'
  <2>1. ~Made(r)' => AsStored(shown)'
    <3> SUFFICES ASSUME ~Made(r)' PROVE AsStored(shown)'
      OBVIOUS
    <3>1. AsStored(shown)
      BY <1>5 DEF UnderWay
    <3>2. shown = Stored(page)' \/ (page' = "alerts" /\ OpenedLate')
      BY <1>1, <1>5, <3>1, AsStoredStays
    <3> QED
      BY <3>2 DEF AsStored
  <2>2. Made(r)' => AsStored(Updated(r))' \/ (call'[r].op = "createCase" /\ seen'[r].alert \in Final)
    <3> SUFFICES ASSUME Made(r)', ~(call[r].op = "createCase" /\ seen[r].alert \in Final)
                 PROVE  AsStored(Updated(r))'
      BY <1>1, <1>5
    <3>1. AsStored(Updated(r))
      BY <1>5 DEF UnderWay
    <3>2. Updated(r) = Stored(page)' \/ (page' = "alerts" /\ OpenedLate')
      BY <1>1, <1>5, <3>1, AsStoredStays
    <3> QED
      BY <1>3, <3>2 DEF AsStored
  <2> QED
    BY <1>1, <1>5, <2>1, <2>2 DEF UnderWay
\* The change is made.
<1>6. ASSUME Updated(r) = Stored(page)',
             pc'[r] \in {"readAlert", "writeAlert", "logAlert", "insertCase"} /\ call[r].op = "createCase"
                => case' = None,
             pc'[r] # "findCase", Made(r)'
      PROVE  UnderWay(r)'
  <2>1. AsStored(Updated(r))'
    BY <1>3, <1>6 DEF AsStored
  <2> QED
    BY <1>1, <1>6, <2>1 DEF UnderWay
<1>7. CASE ReadAlert(r)
  <2>1. /\ pc[r] = "readAlert" /\ UNCHANGED rows /\ ~Made(r)
        /\ \/ pc'[r] = "writeAlert" /\ reply'[r] = "none"
           \/ pc'[r] = "done" /\ reply'[r] = "refused"
    BY <1>1, <1>7 DEF ReadAlert, At, Goto, Answer, Inv, TypeOK, Made
  <2>2. Stored(page)' = Stored(page)
    BY <2>1 DEF Stored, AlertRow, CaseRow, NoticeRow, rows
  <2> QED
    BY <1>5, <2>1, <2>2 DEF Made, UnderWay, rows
<1>8. CASE LoadAlert(r)
  <2>1. /\ pc[r] = "loadAlert" /\ UNCHANGED rows /\ ~Made(r)
        /\ pc'[r] = "findCase" /\ reply'[r] = "none" /\ seen'[r].alert = alert
    BY <1>1, <1>8 DEF LoadAlert, At, Goto, Inv, TypeOK, Made
  <2>2. Stored(page)' = Stored(page)
    BY <2>1 DEF Stored, AlertRow, CaseRow, NoticeRow, rows
  <2> QED
    BY <1>5, <2>1, <2>2 DEF Made, rows
<1>9. CASE LoadCase(r)
  <2>1. /\ pc[r] = "loadCase" /\ UNCHANGED rows /\ ~Made(r) /\ call[r].op # "createCase"
        /\ \/ pc'[r] = "readAlert" /\ reply'[r] = "none"
           \/ pc'[r] = "done" /\ reply'[r] = "refused"
    BY <1>1, <1>9 DEF LoadCase, At, Goto, Answer, Inv, TypeOK, Made, Turn, OwnStage
  <2>2. Stored(page)' = Stored(page)
    BY <2>1 DEF Stored, AlertRow, CaseRow, NoticeRow, rows
  <2> QED
    BY <1>5, <2>1, <2>2 DEF Made, rows
<1>10. CASE LogNote(r) \/ Forwarded(r) \/ LogCreated(r) \/ LogCase(r)
  <2>1. /\ UNCHANGED <<rows, seen>> /\ pc'[r] = "done" /\ reply'[r] = "ok"
        /\ pc[r] \in {"logNote", "forwarded", "logCreated", "logCase"}
        /\ pc[r] = "logNote" => call[r].op = "addNote"
    BY <1>1, <1>10
    DEF LogNote, Forwarded, LogCreated, LogCase, At, Answer, Inv, TypeOK, Turn, OwnStage
  <2>2. Stored(page)' = Stored(page)
    BY <2>1 DEF Stored, AlertRow, CaseRow, NoticeRow, rows
  <2>3. CASE pc[r] # "logNote"
    BY <1>5, <2>1, <2>2, <2>3 DEF Made, rows
  <2>4. CASE pc[r] = "logNote"
    <3>1. AsStored(shown) /\ Updated(r) = shown
      BY <1>1, <2>1, <2>4, UpdatedRow DEF UnderWay, Made
    <3>2. Updated(r) = Stored(page)' \/ (page' = "alerts" /\ OpenedLate')
      BY <1>1, <2>2, <3>1, AsStoredStays
    <3>3. AsStored(Updated(r))' /\ Made(r)'
      BY <1>3, <2>1, <3>2 DEF AsStored, Made
    <3> QED
      BY <1>1, <2>1, <2>4, <3>3 DEF UnderWay
  <2> QED
    BY <2>3, <2>4
<1>11. CASE WriteAlert(r)
  <2>1. /\ pc[r] = "writeAlert" /\ UNCHANGED <<case, unread, seen>> /\ alert' = To(r)
        /\ pc'[r] = "logAlert" /\ reply'[r] = "none" /\ ~Made(r)
        /\ call[r].op \in {"updateAlert", "createCase", "updateCase"}
    BY <1>1, <1>11 DEF WriteAlert, At, Goto, Inv, TypeOK, Made, Turn, OwnStage
  <2>2. CASE call[r].op = "updateCase"
    <3>1. Stored(page)' = Stored(page)
      BY <1>2, <1>4, <2>1, <2>2, StoredRow
    <3> QED
      BY <1>1, <1>5, <2>1, <2>2, <3>1 DEF Made
  <2>3. CASE call[r].op # "updateCase"
    <3>1. Updated(r) = Stored(page)'
      BY <1>1, <1>2, <1>4, <2>1, <2>3, UpdatedRow DEF To
    <3>2. call[r].op = "createCase" => case = None
      BY <2>1 DEF UnderWay
    <3> QED
      BY <1>1, <1>6, <2>1, <2>3, <3>1, <3>2 DEF Made
  <2> QED
    BY <2>2, <2>3
<1>12. CASE LogAlert(r)
  <2>1. /\ pc[r] = "logAlert" /\ UNCHANGED <<rows, seen>>
        /\ call[r].op \in {"updateAlert", "createCase", "updateCase"}
        /\ call[r].op = "updateAlert" => pc'[r] = "done" /\ reply'[r] = "ok"
        /\ call[r].op = "createCase" => pc'[r] = "insertCase" /\ reply'[r] = "none"
        /\ call[r].op = "updateCase" => pc'[r] = "writeCase" /\ reply'[r] = "none"
    BY <1>1, <1>12 DEF LogAlert, NextStage, At, Goto, Answer, Inv, TypeOK, Turn, OwnStage
  <2>2. Stored(page)' = Stored(page)
    BY <2>1 DEF Stored, AlertRow, CaseRow, NoticeRow, rows
  <2> QED
    BY <1>1, <1>5, <2>1, <2>2 DEF Made, UnderWay, rows
<1>13. CASE FindCase(r)
  <2>1. /\ pc[r] = "findCase" /\ UNCHANGED <<rows, seen>> /\ ~Made(r)
        /\ call[r].op = "createCase" /\ seen[r].alert = alert
        /\ \/ pc'[r] = "done" /\ reply'[r] = "refused"
           \/ pc'[r] = "readAlert" /\ reply'[r] = "none" /\ case = None
           \/ pc'[r] = "insertCase" /\ reply'[r] = "none" /\ case = None /\ alert # "OPEN"
    BY <1>1, <1>13 DEF FindCase, At, Goto, Answer, Inv, TypeOK, Made, Turn, OwnStage, UnderWay
  <2>2. Stored(page)' = Stored(page)
    BY <2>1 DEF Stored, AlertRow, CaseRow, NoticeRow, rows
  <2>3. CASE pc'[r] # "insertCase"
    BY <1>5, <2>1, <2>2, <2>3 DEF Made, rows
  <2>4. CASE pc'[r] = "insertCase"
    <3>1. alert = "INVESTIGATING" \/ alert \in Final
      BY <2>1, <2>4 DEF Inv, TypeOK, Statuses, Final
    <3>2. Made(r)' /\ case' = None
      BY <2>1, <2>4 DEF Made, rows
    <3>3. CASE alert = "INVESTIGATING"
      <4>1. Updated(r) = Stored(page)'
        BY <1>1, <1>2, <2>1, <2>2, <3>3, UpdatedRow, StoredRow
      <4> QED
        BY <1>6, <2>4, <3>2, <4>1
    <3>4. CASE alert \in Final
      BY <1>1, <2>1, <2>4, <3>2, <3>4 DEF UnderWay
    <3> QED
      BY <3>1, <3>3, <3>4
  <2> QED
    BY <2>3, <2>4
<1>14. CASE InsertCase(r)
  <2>1. /\ pc[r] = "insertCase" /\ UNCHANGED <<alert, unread, seen>>
        /\ call[r].op = "createCase" /\ case = None
    BY <1>14 DEF InsertCase, At, Turn, OwnStage, UnderWay
  <2>2. pc'[r] = "logCreated" /\ reply'[r] = "none"
    BY <1>1, <1>14, <2>1 DEF InsertCase, Collides, Goto, Inv, TypeOK
  <2>3. Stored(page)' = Stored(page)
    BY <1>2, <1>4, <2>1, StoredRow
  <2> QED
    BY <1>5, <2>1, <2>2, <2>3 DEF Made
<1>15. CASE WriteCase(r)
  <2>1. /\ pc[r] = "writeCase" /\ case' = Case(call[r].to) /\ call[r].op = "updateCase"
        /\ pc'[r] = "logCase"
    BY <1>1, <1>15 DEF WriteCase, At, Goto, Inv, TypeOK, Turn, OwnStage
  <2>2. Updated(r) = Stored(page)'
    BY <1>1, <1>2, <1>4, <2>1, UpdatedRow
  <2> QED
    BY <1>6, <2>1, <2>2 DEF Made
<1>16. CASE Forward(r)
  <2>1. pc[r] = "forward" /\ ~unread' /\ call[r].op = "markRead" /\ pc'[r] = "forwarded"
    BY <1>1, <1>16 DEF Forward, At, Goto, Inv, TypeOK, Turn, OwnStage
  <2>2. Updated(r) = Stored(page)'
    BY <1>1, <1>2, <1>4, <2>1, UpdatedRow DEF NoticeRow
  <2> QED
    BY <1>6, <2>1, <2>2 DEF Made
<1>17. ~Lose(r)
  <2>1. Lose(r) => reply'[r] = "lost"
    BY <1>1 DEF Lose, Answer, Inv, TypeOK
  <2> QED
    BY <2>1
<1> QED
  BY <1>7, <1>8, <1>9, <1>10, <1>11, <1>12, <1>13, <1>14, <1>15, <1>16, <1>17 DEF Serve

\* A served request has begun.
LEMMA ServeBegun ==
    ASSUME Inv, NEW r \in Requests, Serve(r)
    PROVE  pc'[r] # "idle" /\ pc[r] # "done"
<1>1. \/ \E stage \in Stages \ {"idle"} : Goto(r, stage)
      \/ \E how : Answer(r, how)
  BY DEF Serve, ReadAlert, WriteAlert, LogAlert, LogNote, LoadAlert, FindCase, InsertCase,
         LogCreated, LoadCase, WriteCase, LogCase, Forward, Forwarded, Lose, Stages, NextStage
<1>2. pc'[r] # "idle"
  BY <1>1 DEF Goto, Answer, Inv, TypeOK, Stages
<1>3. pc[r] # "done"
  BY DEF Serve, ReadAlert, WriteAlert, LogAlert, LogNote, LoadAlert, FindCase, InsertCase,
         LogCreated, LoadCase, WriteCase, LogCase, Forward, Forwarded, Lose, At, Served
<1> QED
  BY <1>2, <1>3

LEMMA ServerStepPage ==
    ASSUME Inv, Inv', PageInv, NEW r \in Requests, ServerStep(r)
    PROVE  PageInv'
<1>1. /\ Turn(r) /\ Serve(r) /\ pc'[r] # "idle"
      /\ UNCHANGED <<page, load, fetched, shown, error, asked, waiting, call>>
      /\ r \in Served /\ \A q \in Served' : q \in Served
  BY ServeTurn, ServeBegun DEF ServerStep, Turn, Served
<1>2. PagesTypeOK'
  BY <1>1 DEF PageInv, PagesTypeOK, Inv
<1>3. \A q \in asked : pc'[q] # "idle" /\ call'[q] \in Calls /\ call'[q].op \in OperationsOf(page')
  <2>1. \A q \in asked : q \in Requests /\ pc'[q] # "idle"
    BY <1>1 DEF PageInv, PagesTypeOK, Turn
  <2> QED
    BY <1>1, <2>1 DEF PageInv
<1>4. CASE strayed'
  BY <1>1, <1>2, <1>3, <1>4 DEF PageInv
<1>5. CASE ~strayed'
  <2>1. ~strayed /\ r \in asked /\ reply'[r] # "lost"
    BY <1>5 DEF ServerStep
  <2>2. load = "none" /\ page \in Tables
    BY <2>1 DEF PageInv
  <2>3. Undisturbed
    BY <2>1, <2>2 DEF PageInv
  <2>4. CASE waiting = {} /\ shown = None /\ error
    <3>1. Undisturbed'
      BY <1>1, <2>4 DEF Undisturbed
    <3> QED
      BY <1>1, <1>2, <1>3, <2>2, <3>1 DEF PageInv
  <2>5. CASE ~(waiting = {} /\ shown = None /\ error)
    <3>1. waiting = {r} /\ Served \subseteq {r} /\ UnderWay(r)
      BY <1>1, <2>3, <2>5 DEF Undisturbed
    <3>2. UnderWay(r)'
      BY <1>1, <2>1, <3>1, ServeUnderWay
    <3>3. Undisturbed'
      BY <1>1, <2>1, <3>1, <3>2 DEF Undisturbed
    <3> QED
      BY <1>1, <1>2, <1>3, <2>2, <3>3 DEF PageInv
  <2> QED
    BY <2>4, <2>5
<1> QED
  BY <1>4, <1>5

LEMMA OtherAsksPage ==
    ASSUME Inv, Inv', PageInv, NEW r \in Requests, OtherAsks(r)
    PROVE  PageInv'
<1>1. PICK c \in Elsewhere : Ask(r, c)
  BY DEF OtherAsks
<1>2. /\ strayed' /\ pc[r] = "idle"
      /\ UNCHANGED <<page, load, fetched, shown, error, asked, waiting>>
      /\ \A q \in Requests : q # r => pc'[q] = pc[q] /\ call'[q] = call[q]
  BY <1>1 DEF OtherAsks, Ask, Inv, TypeOK
<1>3. \A q \in asked : q \in Requests /\ q # r
  BY <1>2 DEF PageInv, PagesTypeOK
<1>4. PagesTypeOK'
  BY <1>2, <1>3 DEF PageInv, PagesTypeOK, Inv
<1> QED
  BY <1>2, <1>3, <1>4 DEF PageInv

-----------------------------------------------------------------------------
\* The page's own steps.

LEMMA TablePage ==
    ASSUME Inv, PageInv,
           \/ \E q \in Tables \cup {"home"} : Visit(q)
           \/ ReadTable \/ TableComes \/ TableFails
    PROVE  PageInv'
<1>1. UNCHANGED vars
  BY DEF Visit, ReadTable, TableComes, TableFails
<1>2. TypeOK' /\ Served' = Served
  BY <1>1 DEF Inv, TypeOK, vars, rows, Served
<1>3. \A q : Stored(q)' = Stored(q)
  BY <1>1 DEF vars, rows, Stored, AlertRow, CaseRow, NoticeRow
<1>4. CASE \E q \in Tables \cup {"home"} : Visit(q)
  <2>1. /\ page' \in Tables \cup {"home"} /\ load' = (IF page' \in Tables THEN "asked" ELSE "none")
        /\ fetched' = None /\ shown' = None /\ asked' = {} /\ waiting' = {}
    BY <1>4 DEF Visit
  <2>2. PagesTypeOK'
    BY <1>2, <2>1 DEF PagesTypeOK
  <2> QED
    BY <2>1, <2>2 DEF PageInv
<1>5. CASE ReadTable
  <2>1. /\ load = "asked" /\ load' = "answered" /\ fetched' = Stored(page)
        /\ strayed' = (Served # {})
        /\ UNCHANGED <<page, shown, error, asked, waiting, pc, call>>
    BY <1>1, <1>5 DEF ReadTable, vars
  <2>2. page \in Tables
    BY <2>1 DEF PageInv
  <2>3. PagesTypeOK'
    BY <1>2, <2>1, <2>2, StoredTypes DEF PageInv, PagesTypeOK, Inv
  <2> QED
    BY <1>2, <1>3, <2>1, <2>2, <2>3 DEF PageInv
<1>6. CASE TableComes
  <2>1. /\ load = "answered" /\ load' = "none" /\ shown' = fetched /\ fetched' = None
        /\ UNCHANGED <<page, error, asked, waiting, strayed, pc, call>>
    BY <1>1, <1>6 DEF TableComes, vars
  <2>2. page \in Tables /\ asked = {} /\ waiting = {}
    BY <2>1 DEF PageInv, PagesTypeOK
  <2>3. PagesTypeOK'
    BY <1>2, <2>1 DEF PageInv, PagesTypeOK
  <2>4. ~strayed => Undisturbed'
    <3> SUFFICES ASSUME ~strayed PROVE Undisturbed'
      OBVIOUS
    <3>1. Served = {} /\ fetched = Stored(page)
      BY <2>1 DEF PageInv
    <3>2. AsStored(shown)'
      BY <1>3, <2>1, <3>1 DEF AsStored
    <3> QED
      BY <1>2, <2>1, <2>2, <3>1, <3>2 DEF Undisturbed
  <2> QED
    BY <2>1, <2>2, <2>3, <2>4 DEF PageInv
<1>7. CASE TableFails
  <2>1. /\ load # "none" /\ load' = "none" /\ error' = TRUE /\ fetched' = None
        /\ UNCHANGED <<page, shown, asked, waiting, strayed, pc, call>>
    BY <1>1, <1>7 DEF TableFails, vars
  <2>2. page \in Tables /\ asked = {} /\ waiting = {} /\ shown = None
    BY <2>1 DEF PageInv, PagesTypeOK
  <2>3. PagesTypeOK'
    BY <1>2, <2>1 DEF PageInv, PagesTypeOK
  <2>4. Undisturbed'
    BY <2>1, <2>2 DEF Undisturbed
  <2> QED
    BY <2>1, <2>2, <2>3, <2>4 DEF PageInv
<1> QED
  BY <1>4, <1>5, <1>6, <1>7

\* A request of an undisturbed page finds nothing else under way.
LEMMA ClickPage ==
    ASSUME Inv, Inv', PageInv, NEW r \in Requests, NEW q \in Tables,
           NEW op \in OperationsOf(q), NEW to, Click(r, q, op, to)
    PROVE  PageInv'
<1> DEFINE c == [op |-> op, to |-> to]
<1>1. /\ page = q /\ load = "none" /\ shown # None /\ Enabled(op)
      /\ Ask(r, c) /\ error' = FALSE
      /\ asked' = asked \cup {r} /\ waiting' = waiting \cup {r}
      /\ strayed' = (strayed \/ waiting # {} \/ Served # {})
      /\ UNCHANGED <<page, load, fetched, shown>>
  BY DEF Click, TableVisible
<1>2. /\ pc[r] = "idle" /\ reply[r] = "none" /\ pc'[r] = First(op) /\ call'[r] = c /\ c \in Calls
      /\ UNCHANGED <<alert, case, unread, reply, seen>>
      /\ \A p \in Requests : p # r => pc'[p] = pc[p] /\ call'[p] = call[p]
  BY <1>1 DEF Ask, Inv, TypeOK, SilentUntilDone, rows
<1>3. \A p \in asked : p \in Requests /\ p # r
  BY <1>2 DEF PageInv, PagesTypeOK
<1>4. PagesTypeOK'
  <2>1. \A p \in waiting : call'[p] = call[p] /\ call[p].op # op
    BY <1>1, <1>2, <1>3 DEF PageInv, PagesTypeOK, Enabled
  <2>2. c.op = op
    OBVIOUS
  <2>3. \A p \in waiting, s \in waiting : call'[p].op = call'[s].op => p = s
    BY <2>1 DEF PageInv, PagesTypeOK
  <2>4. \A p, s \in waiting' : call'[p].op = call'[s].op => p = s
    BY <1>1, <1>2, <2>1, <2>2, <2>3
  <2>5. /\ TypeOK' /\ page' \in Tables \cup {"home"} /\ load' \in {"none", "asked", "answered"}
        /\ fetched' \in TableRows \cup {None} /\ shown' \in TableRows \cup {None}
        /\ waiting' \subseteq asked' /\ asked' \subseteq Requests
    BY <1>1 DEF PageInv, PagesTypeOK, Inv
  <2> QED
    BY <2>4, <2>5 DEF PagesTypeOK
<1>5. First(op) \in {"logNote", "loadAlert", "readAlert", "loadCase", "forward"}
      /\ (op = "createCase" => First(op) = "loadAlert")
  BY <1>2, CallsAssumption DEF First, Operations
<1>6. \A p \in asked' : pc'[p] # "idle" /\ call'[p] \in Calls /\ call'[p].op \in OperationsOf(page')
  <2>1. \A p \in asked : pc'[p] # "idle" /\ call'[p] \in Calls /\ call'[p].op \in OperationsOf(page')
    BY <1>1, <1>2, <1>3 DEF PageInv
  <2>2. pc'[r] # "idle" /\ call'[r] \in Calls /\ call'[r].op \in OperationsOf(page')
    BY <1>1, <1>2, <1>5
  <2> QED
    BY <1>1, <2>1, <2>2
<1>7. ~strayed' => Undisturbed'
  <2> SUFFICES ASSUME ~strayed' PROVE Undisturbed'
    OBVIOUS
  <2>1. waiting = {} /\ Served = {} /\ Undisturbed
    BY <1>1 DEF PageInv
  <2>2. AsStored(shown)
    BY <1>1, <2>1 DEF Undisturbed
  <2>3. AsStored(shown)'
    <3>1. Stored(page)' = Stored(page)
      BY <1>1, <1>2 DEF Stored, AlertRow, CaseRow, NoticeRow
    <3>2. OpenedLate => OpenedLate'
      BY <1>1, <1>2, <1>3 DEF OpenedLate
    <3> QED
      BY <1>1, <2>2, <3>1, <3>2 DEF AsStored
  <2>4. ~Made(r)' /\ pc'[r] \notin {"writeAlert", "logAlert", "insertCase", "findCase"}
    BY <1>2, <1>5 DEF Made
  <2>5. UnderWay(r)'
    BY <1>2, <1>5, <2>3, <2>4 DEF UnderWay
  <2>6. Served' \subseteq {r}
    BY <1>2, <2>1 DEF Served
  <2> QED
    BY <1>1, <2>1, <2>5, <2>6 DEF Undisturbed
<1> QED
  BY <1>1, <1>4, <1>6, <1>7 DEF PageInv

LEMMA AnswerPage ==
    ASSUME Inv, PageInv, NEW r \in Requests, AnswerComes(r) \/ AnswerLost(r)
    PROVE  PageInv'
<1>1. /\ UNCHANGED vars /\ UNCHANGED <<page, load, fetched, asked>>
      /\ r \in waiting /\ waiting' = waiting \ {r} /\ r \in asked
      /\ shown' = shown \/ shown' = Updated(r)
  BY DEF AnswerComes, AnswerLost, PageInv, PagesTypeOK
<1>2. /\ TypeOK' /\ Served' = Served /\ load = "none" /\ page \in Tables
      /\ Stored(page)' = Stored(page) /\ UNCHANGED <<pc, call, reply, seen>>
  BY <1>1
  DEF PageInv, Inv, TypeOK, vars, rows, Served, Stored, AlertRow, CaseRow, NoticeRow
<1>3. PagesTypeOK'
  BY <1>1, <1>2, UpdatedTypes DEF PageInv, PagesTypeOK
<1>4. ~strayed' => Undisturbed'
  <2> SUFFICES ASSUME ~strayed' PROVE Undisturbed'
    OBVIOUS
  <2>1. AnswerComes(r) /\ ~strayed /\ Undisturbed
    BY <1>2 DEF AnswerLost, AnswerComes, PageInv
  <2>2. waiting = {r} /\ Served \subseteq {r} /\ UnderWay(r)
    BY <1>1, <2>1 DEF Undisturbed
  <2>3. pc[r] = "done" /\ Served = {} /\ waiting' = {}
    BY <1>1, <2>1, <2>2 DEF AnswerComes, Served
  <2>4. AsStored(shown')
    <3>1. CASE reply[r] = "ok"
      <4>1. Made(r) /\ shown' = Updated(r)
        BY <2>1, <3>1 DEF Made, AnswerComes
      <4>2. CASE call[r].op = "createCase" /\ seen[r].alert \in Final
        <5>1. OpenedLate /\ page = "alerts"
          BY <1>1, <3>1, <4>2, PageOfOperation DEF OpenedLate, PageInv
        <5> QED
          BY <5>1 DEF AsStored
      <4>3. CASE ~(call[r].op = "createCase" /\ seen[r].alert \in Final)
        BY <2>2, <4>1, <4>3 DEF UnderWay
      <4> QED
        BY <4>2, <4>3
    <3>2. CASE reply[r] # "ok"
      <4>1. ~Made(r) /\ shown' = shown
        BY <2>1, <2>3, <3>2 DEF Made, AnswerComes
      <4> QED
        BY <2>2, <4>1 DEF UnderWay
    <3> QED
      BY <3>1, <3>2
  <2>5. AsStored(shown)'
    BY <1>1, <1>2, <2>4 DEF AsStored, OpenedLate
  <2> QED
    BY <1>2, <2>3, <2>5 DEF Undisturbed
<1> QED
  BY <1>1, <1>2, <1>3, <1>4 DEF PageInv

LEMMA NextPage == Inv /\ Inv' /\ PageInv /\ [PagesNext]_allVars => PageInv'
<1> SUFFICES ASSUME Inv, Inv', PageInv, [PagesNext]_allVars PROVE PageInv'
  OBVIOUS
<1>1. CASE UNCHANGED allVars
  <2>1. /\ UNCHANGED <<page, load, fetched, shown, error, asked, waiting, strayed>>
        /\ UNCHANGED <<alert, case, unread, pc, call, seen, reply>>
    BY <1>1 DEF allVars, view, vars, rows
  <2>2. Stored(page)' = Stored(page) /\ Served' = Served /\ (OpenedLate' <=> OpenedLate)
    BY <2>1 DEF Stored, AlertRow, CaseRow, NoticeRow, Served, OpenedLate
  <2>3. \A row : AsStored(row) => row = Stored(page)' \/ (page' = "alerts" /\ OpenedLate')
    BY <2>1, <2>2 DEF AsStored
  <2>4. AsStored(shown) => AsStored(shown)'
    BY <2>1, <2>3 DEF AsStored
  <2>5. ASSUME NEW r \in asked, UnderWay(r) PROVE UnderWay(r)'
    <3>1. Made(r)' <=> Made(r)
      BY <2>1 DEF Made
    <3>2. AsStored(Updated(r)) => AsStored(Updated(r))'
      <4>1. Updated(r)' = Updated(r)
        BY <2>1 DEF Updated, Row, Case
      <4> QED
        BY <2>3, <4>1 DEF AsStored
    <3> QED
      BY <2>1, <2>4, <2>5, <3>1, <3>2 DEF UnderWay
  <2>6. Undisturbed => Undisturbed'
    BY <2>1, <2>2, <2>4, <2>5 DEF Undisturbed
  <2>7. PagesTypeOK'
    BY <2>1 DEF PageInv, PagesTypeOK, Inv
  <2> QED
    BY <2>1, <2>2, <2>6, <2>7 DEF PageInv
<1>2. CASE \/ \E p \in Tables \cup {"home"} : Visit(p)
           \/ ReadTable \/ TableComes \/ TableFails
  BY <1>2, TablePage
<1>3. ASSUME NEW r \in Requests,
             \/ AddAnalystNote(r) \/ CreateInvestigationCase(r) \/ UpdateAlertStatus(r)
             \/ UpdateCaseStatus(r) \/ MarkAsRead(r)
      PROVE  PageInv'
  <2>1. /\ "alerts" \in Tables /\ {"addNote", "createCase", "updateAlert"} \subseteq OperationsOf("alerts")
        /\ "investigations" \in Tables /\ "updateCase" \in OperationsOf("investigations")
        /\ "notifications" \in Tables /\ "markRead" \in OperationsOf("notifications")
    BY DEF Tables, OperationsOf
  <2>2. PICK q \in Tables : \E op \in OperationsOf(q) : \E to : Click(r, q, op, to)
    BY <1>3, <2>1
    DEF AddAnalystNote, CreateInvestigationCase, UpdateAlertStatus, UpdateCaseStatus, MarkAsRead
  <2> QED
    BY <2>2, ClickPage
<1>4. ASSUME NEW r \in Requests, AnswerComes(r) \/ AnswerLost(r) PROVE PageInv'
  BY <1>4, AnswerPage
<1>5. ASSUME NEW r \in Requests, ServerStep(r) PROVE PageInv'
  BY <1>5, ServerStepPage
<1>6. ASSUME NEW r \in Requests, OtherAsks(r) PROVE PageInv'
  BY <1>6, OtherAsksPage
<1> QED
  BY <1>1, <1>2, <1>3, <1>4, <1>5, <1>6 DEF PagesNext

LEMMA PageInvariance == PagesSpec => []PageInv
<1>1. PagesSpec => []Inv
  BY PagesImplementCases, Invariant
<1> QED
  BY <1>1, InitPage, NextPage, PTL DEF PagesSpec

\* The pages keep to their types, and never wait for two requests of one kind.
THEOREM PagesTypeCorrect == PagesSpec => []PagesTypeOK
<1>1. PageInv => PagesTypeOK
  BY DEF PageInv
<1> QED
  BY <1>1, PageInvariance, PTL

\* For any number of analysts: a page whose requests met nobody else's shows what
\* the server has, although it never loads its table again.
THEOREM TableShowsServer == PagesSpec => []TableIsStored
<1>1. PageInv => TableIsStored
  BY DEF PageInv, TableIsStored, Undisturbed, AsStored
<1> QED
  BY <1>1, PageInvariance, PTL
=============================================================================
